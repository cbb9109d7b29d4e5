-------------------------- MODULE RoundProtocolProofs --------------------------
(***************************************************************************)
(* Proofs about the rounds as the clients see them, for any number of      *)
(* clients that come in the order of their ids and are all expected, and   *)
(* are prompt: for any interleaving of their updates, their messages and   *)
(* the server's ticks.                                                     *)
(***************************************************************************)
EXTENDS RoundProtocol, GameManagerProofs

-----------------------------------------------------------------------------
(* The server of the protocol is that of GameManager.                      *)

\* A message that arrives is one GameManager takes a client to send.
LEMMA Received ==
  ASSUME ClientsSendAsAssumed, NEW id \in Ids, ServerReceive(id)
  PROVE  ClientReadies(id) \/ ClientExplodes(id)
BY DEF ClientsSendAsAssumed, ServerReceive, ClientReadies, ClientExplodes

\* While the clients send what GameManager takes them to send, every step of the
\* protocol is a step of the server or leaves it alone.
LEMMA StepOfServer ==
  ASSUME ClientsSendAsAssumed, [NextProtocol]_allVars
  PROVE  [Next]_vars
<1>1. CASE ServerTick \/ ServerGameReady \/ ServerFlush \/ ServerAbort
           \/ ServerCloseRound \/ ServerNextRound
  BY <1>1 DEF ServerTick, ServerGameReady, ServerFlush, ServerAbort, ServerCloseRound,
    ServerNextRound, Next, Tick
<1>2. ASSUME NEW id \in Ids, ServerSessionReady(id) PROVE [Next]_vars
  BY <1>2 DEF ServerSessionReady, Next
<1>3. ASSUME NEW id \in Ids, ServerReceive(id) PROVE [Next]_vars
  <2>1. ClientReadies(id) \/ ClientExplodes(id)
    BY <1>3, Received
  <2> QED
    BY <2>1 DEF Next, HandleMessage
<1>4. ASSUME NEW id \in Ids, ClientReceive(id) \/ OpenChannels(id) \/ Update(id)
      PROVE  UNCHANGED vars
  BY <1>4 DEF ClientReceive, OpenChannels, Update, UpdateConnection, UpdateLobby, UpdateGame,
    UpdateScore, Reaches
<1>5. ASSUME NEW id \in Ids, NEW player \in Ids,
             ClientReceiveReady(id, player) \/ LoseReady(id, player)
      PROVE  UNCHANGED vars
  BY <1>5 DEF ClientReceiveReady, LoseReady
<1>6. CASE UNCHANGED allVars
  BY <1>6 DEF allVars
<1> QED
  BY <1>1, <1>2, <1>3, <1>4, <1>5, <1>6 DEF NextProtocol

-----------------------------------------------------------------------------
(* Sequences.                                                              *)

LEMMA CatOf ==
  ASSUME NEW M, NEW s \in Seq(M), NEW t \in Seq(M)
  PROVE  /\ s \o t \in Seq(M) /\ Len(s \o t) = Len(s) + Len(t)
         /\ \A i \in 1 .. Len(s) : (s \o t)[i] = s[i]
         /\ \A i \in 1 .. Len(t) : (s \o t)[Len(s) + i] = t[i]
OBVIOUS

LEMMA TailOf ==
  ASSUME NEW M, NEW s \in Seq(M), s # <<>>
  PROVE  /\ Tail(s) \in Seq(M) /\ Len(Tail(s)) = Len(s) - 1 /\ Len(s) \in Nat \ {0}
         /\ Head(s) = s[1] /\ Head(s) \in M
         /\ \A i \in 1 .. Len(s) - 1 : Tail(s)[i] = s[i + 1]
OBVIOUS

LEMMA TailCat ==
  ASSUME NEW M, NEW s \in Seq(M), NEW t \in Seq(M), s # <<>>
  PROVE  /\ s \o t \in Seq(M) /\ s \o t # <<>>
         /\ Tail(s) \o t = Tail(s \o t) /\ Head(s) = Head(s \o t)
OBVIOUS

-----------------------------------------------------------------------------
(* What is said of the messages on their way to a client.                  *)

Turns == {"round_start", "round_over"}
NoTurn(s) == \A i \in 1 .. Len(s) : s[i].type \notin Turns
OneTurn(s, turn) ==
  \E i \in 1 .. Len(s) :
    /\ s[i].type = turn
    /\ \A j \in 1 .. Len(s) : s[j].type \in Turns => j = i

\* Messages of this type are all followed by a ROUND_START.
Stale(s, type) ==
  \A j \in 1 .. Len(s) :
    s[j].type = type => \E i \in 1 .. Len(s) : j < i /\ s[i].type = "round_start"

None(s, type) == \A i \in 1 .. Len(s) : s[i].type # type

Deaths(s) == {s[i].player_id : i \in {j \in 1 .. Len(s) : s[j].type = "player_exploded"}}

\* What a client knows once the messages are handled.
KnowsMap(c, s, map) ==
  /\ \A i \in 1 .. Len(s) : s[i].type = "bonus_map" => s[i].map = map
  /\ None(s, "bonus_map") => c.map = map
KnowsScores(c, s, scores) ==
  /\ \A i \in 1 .. Len(s) : s[i].type = "round_over" => s[i].scores = scores
  /\ None(s, "round_over") => c.scores = scores

LEMMA Added ==
  ASSUME NEW M, NEW s \in Seq(M), NEW w \in Seq(M)
  PROVE  /\ NoTurn(s) /\ NoTurn(w) => NoTurn(s \o w)
         /\ \A turn : OneTurn(s, turn) /\ NoTurn(w) => OneTurn(s \o w, turn)
         /\ \A turn : NoTurn(s) /\ OneTurn(w, turn) => OneTurn(s \o w, turn)
<1> DEFINE n == Len(s)
           k == Len(w)
           t == s \o w
<1>1. /\ n \in Nat /\ k \in Nat /\ Len(t) = n + k
      /\ \A i \in 1 .. n : t[i] = s[i]
      /\ \A i \in 1 .. k : t[n + i] = w[i]
  BY CatOf
<1>2. \A i \in 1 .. n + k : i \in 1 .. n \/ (i - n \in 1 .. k /\ i = n + (i - n))
  BY <1>1
<1>3. \A i \in 1 .. k : n + i \in 1 .. n + k
  BY <1>1
<1>4. \A i \in 1 .. n : i \in 1 .. n + k
  BY <1>1
<1> HIDE DEF n, k, t
<1>5. \A i \in 1 .. n + k :
         \/ i \in 1 .. n /\ t[i] = s[i]
         \/ \E j \in 1 .. k : i = n + j /\ t[i] = w[j]
  BY <1>1, <1>2
<1>6. NoTurn(s) /\ NoTurn(w) => NoTurn(t)
  BY <1>1, <1>5 DEF NoTurn, n, k
<1>7. ASSUME NEW turn, OneTurn(s, turn), NoTurn(w) PROVE OneTurn(t, turn)
  <2>1. PICK i \in 1 .. n : s[i].type = turn /\ \A j \in 1 .. n : s[j].type \in Turns => j = i
    BY <1>7 DEF OneTurn, n
  <2>2. i \in 1 .. n + k /\ t[i].type = turn
    BY <1>1, <1>4, <2>1
  <2>3. \A j \in 1 .. n + k : t[j].type \in Turns => j = i
    BY <1>5, <1>7, <2>1 DEF NoTurn, k
  <2> QED
    BY <1>1, <2>2, <2>3 DEF OneTurn
<1>8. ASSUME NEW turn, NoTurn(s), OneTurn(w, turn) PROVE OneTurn(t, turn)
  <2>1. PICK i \in 1 .. k : w[i].type = turn /\ \A j \in 1 .. k : w[j].type \in Turns => j = i
    BY <1>8 DEF OneTurn, k
  <2>2. n + i \in 1 .. n + k /\ t[n + i].type = turn
    BY <1>1, <1>3, <2>1
  <2>3. \A j \in 1 .. n + k : t[j].type \in Turns => j = n + i
    BY <1>5, <1>8, <2>1 DEF NoTurn, n
  <2> QED
    BY <1>1, <2>2, <2>3 DEF OneTurn
<1> QED
  BY <1>6, <1>7, <1>8 DEF t

LEMMA AddedTypes ==
  ASSUME NEW M, NEW s \in Seq(M), NEW w \in Seq(M), NEW type
  PROVE  /\ None(s, type) /\ None(w, type) => None(s \o w, type)
         /\ None(s \o w, type) => None(s, type)
         /\ Stale(s, type) /\ None(w, type) => Stale(s \o w, type)
         /\ Len(w) # 0 /\ w[Len(w)].type = "round_start" /\ type # "round_start"
              => Stale(s \o w, type)
<1> DEFINE n == Len(s)
           k == Len(w)
           t == s \o w
<1>1. /\ n \in Nat /\ k \in Nat /\ Len(t) = n + k
      /\ \A i \in 1 .. n : t[i] = s[i]
      /\ \A i \in 1 .. k : t[n + i] = w[i]
  BY CatOf
<1>2. \A i \in 1 .. n + k : i \in 1 .. n \/ (i - n \in 1 .. k /\ i = n + (i - n))
  BY <1>1
<1>4. \A i \in 1 .. n : i \in 1 .. n + k
  BY <1>1
<1>9. k # 0 => k \in 1 .. k /\ n + k \in 1 .. n + k
  BY <1>1
<1>10. \A i \in 1 .. n + k : i = n + k \/ i < n + k
  BY <1>1
<1> HIDE DEF n, k, t
<1>5. \A i \in 1 .. n + k :
         \/ i \in 1 .. n /\ t[i] = s[i]
         \/ \E j \in 1 .. k : i = n + j /\ t[i] = w[j]
  BY <1>1, <1>2
<1>6. /\ None(s, type) /\ None(w, type) => None(t, type)
      /\ None(t, type) => None(s, type)
  BY <1>1, <1>4, <1>5 DEF None, n, k
<1>7. Stale(s, type) /\ None(w, type) => Stale(t, type)
  <2> SUFFICES ASSUME Stale(s, type), None(w, type), NEW j \in 1 .. n + k, t[j].type = type
               PROVE  \E i \in 1 .. n + k : j < i /\ t[i].type = "round_start"
    BY <1>1 DEF Stale
  <2>1. j \in 1 .. n /\ s[j].type = type
    BY <1>5 DEF None, k
  <2>2. PICK i \in 1 .. n : j < i /\ s[i].type = "round_start"
    BY <2>1 DEF Stale, n
  <2> QED
    BY <1>1, <1>4, <2>2
<1>8. ASSUME k # 0, w[k].type = "round_start", type # "round_start" PROVE Stale(t, type)
  <2>1. n + k \in 1 .. n + k /\ t[n + k].type = "round_start"
    BY <1>1, <1>8, <1>9
  <2> QED
    BY <1>1, <1>8, <1>10, <2>1 DEF Stale
<1> QED
  BY <1>6, <1>7, <1>8 DEF t, k

LEMMA AddedDeaths ==
  ASSUME NEW M, NEW s \in Seq(M), NEW w \in Seq(M)
  PROVE  Deaths(s \o w) = Deaths(s) \cup Deaths(w)
<1> DEFINE n == Len(s)
           k == Len(w)
           t == s \o w
<1>1. /\ n \in Nat /\ k \in Nat /\ Len(t) = n + k
      /\ \A i \in 1 .. n : t[i] = s[i]
      /\ \A i \in 1 .. k : t[n + i] = w[i]
  BY CatOf
<1>2. \A i \in 1 .. n + k : i \in 1 .. n \/ (i - n \in 1 .. k /\ i = n + (i - n))
  BY <1>1
<1>3. \A i \in 1 .. k : n + i \in 1 .. n + k
  BY <1>1
<1>4. \A i \in 1 .. n : i \in 1 .. n + k
  BY <1>1
<1> HIDE DEF n, k, t
<1>5. Deaths(t) = {t[i].player_id : i \in {j \in 1 .. n + k : t[j].type = "player_exploded"}}
  BY <1>1 DEF Deaths
<1>6. Deaths(s) = {s[i].player_id : i \in {j \in 1 .. n : s[j].type = "player_exploded"}}
  BY DEF Deaths, n
<1>7. Deaths(w) = {w[i].player_id : i \in {j \in 1 .. k : w[j].type = "player_exploded"}}
  BY DEF Deaths, k
<1>8. ASSUME NEW d \in Deaths(t) PROVE d \in Deaths(s) \cup Deaths(w)
  <2>1. PICK i \in 1 .. n + k : t[i].type = "player_exploded" /\ d = t[i].player_id
    BY <1>5
  <2>2. CASE i \in 1 .. n
    BY <1>1, <1>6, <2>1, <2>2
  <2>3. CASE i - n \in 1 .. k /\ i = n + (i - n)
    BY <1>1, <1>7, <2>1, <2>3
  <2> QED
    BY <1>2, <2>2, <2>3
<1>9. ASSUME NEW d \in Deaths(s) PROVE d \in Deaths(t)
  <2>1. PICK i \in 1 .. n : s[i].type = "player_exploded" /\ d = s[i].player_id
    BY <1>6
  <2> QED
    BY <1>1, <1>4, <1>5, <2>1
<1>10. ASSUME NEW d \in Deaths(w) PROVE d \in Deaths(t)
  <2>1. PICK i \in 1 .. k : w[i].type = "player_exploded" /\ d = w[i].player_id
    BY <1>7
  <2>2. t[n + i] = w[i] /\ n + i \in 1 .. n + k
    BY <1>1, <1>3
  <2>3. n + i \in {j \in 1 .. n + k : t[j].type = "player_exploded"}
    BY <2>1, <2>2
  <2> QED
    BY <1>5, <2>1, <2>2, <2>3
<1>11. Deaths(t) = Deaths(s) \cup Deaths(w)
  BY <1>8, <1>9, <1>10
<1> QED
  BY <1>11 DEF t

LEMMA NoDeaths ==
  ASSUME NEW s, None(s, "player_exploded")
  PROVE  Deaths(s) = {}
BY DEF None, Deaths

LEMMA Taken ==
  ASSUME NEW M, NEW s \in Seq(M), s # <<>>
  PROVE  /\ NoTurn(s) => NoTurn(Tail(s)) /\ Head(s).type \notin Turns
         /\ \A turn \in Turns : OneTurn(s, turn) /\ Head(s).type \notin Turns => OneTurn(Tail(s), turn)
         /\ \A turn : OneTurn(s, turn) /\ Head(s).type \in Turns
              => Head(s).type = turn /\ NoTurn(Tail(s))
<1> DEFINE n == Len(s)
           t == Tail(s)
<1>1. /\ n \in Nat \ {0} /\ Len(t) = n - 1 /\ Head(s) = s[1]
      /\ \A i \in 1 .. n - 1 : t[i] = s[i + 1]
  BY TailOf
<1>2. /\ 1 \in 1 .. n
      /\ \A i \in 1 .. n - 1 : i + 1 \in 1 .. n /\ i + 1 # 1
      /\ \A i \in 1 .. n : i = 1 \/ (i - 1 \in 1 .. n - 1 /\ (i - 1) + 1 = i)
      /\ \A i, j \in 1 .. n - 1 : i + 1 = j + 1 => i = j
  BY <1>1
<1> HIDE DEF n, t
<1>3. NoTurn(s) => NoTurn(t) /\ s[1].type \notin Turns
  BY <1>1, <1>2 DEF NoTurn, n
<1>4. ASSUME NEW turn \in Turns, OneTurn(s, turn), s[1].type \notin Turns PROVE OneTurn(t, turn)
  <2>1. PICK i \in 1 .. n : s[i].type = turn /\ \A j \in 1 .. n : s[j].type \in Turns => j = i
    BY <1>4 DEF OneTurn, n
  <2>2. i # 1
    BY <1>4, <2>1
  <2>3. CASE i - 1 \in 1 .. n - 1 /\ (i - 1) + 1 = i
    <3>1. t[i - 1].type = turn
      BY <1>1, <2>1, <2>3
    <3>2. \A j \in 1 .. n - 1 : t[j].type \in Turns => j = i - 1
      BY <1>1, <1>2, <2>1, <2>3
    <3> QED
      BY <1>1, <2>3, <3>1, <3>2 DEF OneTurn
  <2> QED
    BY <1>2, <2>2, <2>3
<1>5. ASSUME NEW turn, OneTurn(s, turn), s[1].type \in Turns
      PROVE  s[1].type = turn /\ NoTurn(t)
  <2>1. PICK i \in 1 .. n : s[i].type = turn /\ \A j \in 1 .. n : s[j].type \in Turns => j = i
    BY <1>5 DEF OneTurn, n
  <2>2. i = 1
    BY <1>2, <1>5, <2>1
  <2> QED
    BY <1>1, <1>2, <2>1, <2>2 DEF NoTurn
<1> QED
  BY <1>1, <1>3, <1>4, <1>5 DEF t

LEMMA TakenTypes ==
  ASSUME NEW M, NEW s \in Seq(M), s # <<>>, NEW type
  PROVE  /\ None(s, type) => None(Tail(s), type) /\ Head(s).type # type
         /\ None(Tail(s), type) /\ Head(s).type # type => None(s, type)
         /\ Stale(s, type) => Stale(Tail(s), type)
         /\ \A i \in 1 .. Len(Tail(s)) : i + 1 \in 1 .. Len(s) /\ Tail(s)[i] = s[i + 1]
         /\ Head(s) = s[1] /\ 1 \in 1 .. Len(s)
<1> DEFINE n == Len(s)
           t == Tail(s)
<1>1. /\ n \in Nat \ {0} /\ Len(t) = n - 1 /\ Head(s) = s[1]
      /\ \A i \in 1 .. n - 1 : t[i] = s[i + 1]
  BY TailOf
<1>2. /\ 1 \in 1 .. n
      /\ \A i \in 1 .. n - 1 : i + 1 \in 1 .. n /\ i + 1 # 1
      /\ \A i \in 1 .. n : i = 1 \/ (i - 1 \in 1 .. n - 1 /\ (i - 1) + 1 = i)
      /\ \A i \in 1 .. n - 1, j \in 1 .. n : i + 1 < j => j - 1 \in 1 .. n - 1 /\ i < j - 1 /\ (j - 1) + 1 = j
  BY <1>1
<1> HIDE DEF n, t
<1>5. \A i \in 1 .. n : i = 1 \/ \E k \in 1 .. n - 1 : s[i] = t[k]
  BY <1>1, <1>2
<1>6. \A i \in 1 .. n - 1 : \E k \in 1 .. n : t[i] = s[k]
  BY <1>1, <1>2
<1>7. None(s, type) <=> \A i \in 1 .. n : s[i].type # type
  BY DEF None, n
<1>8. None(t, type) <=> \A i \in 1 .. n - 1 : t[i].type # type
  BY <1>1 DEF None
<1>3. /\ None(s, type) => None(t, type) /\ s[1].type # type
      /\ None(t, type) /\ s[1].type # type => None(s, type)
  <2>1. None(s, type) => None(t, type) /\ s[1].type # type
    BY <1>2, <1>6, <1>7, <1>8
  <2>2. None(t, type) /\ s[1].type # type => None(s, type)
    BY <1>5, <1>7, <1>8
  <2> QED
    BY <2>1, <2>2
<1>4. ASSUME Stale(s, type) PROVE Stale(t, type)
  <2> SUFFICES ASSUME NEW i \in 1 .. n - 1, t[i].type = type
               PROVE  \E j \in 1 .. n - 1 : i < j /\ t[j].type = "round_start"
    BY <1>1 DEF Stale
  <2>1. i + 1 \in 1 .. n /\ s[i + 1].type = type
    BY <1>1, <1>2
  <2>2. PICK j \in 1 .. n : i + 1 < j /\ s[j].type = "round_start"
    BY <1>4, <2>1 DEF Stale, n
  <2>3. j - 1 \in 1 .. n - 1 /\ i < j - 1 /\ (j - 1) + 1 = j
    BY <1>2, <2>2
  <2> QED
    BY <1>1, <2>2, <2>3
<1> QED
  BY <1>1, <1>2, <1>3, <1>4 DEF t, n

LEMMA TakenDeaths ==
  ASSUME NEW M, NEW s \in Seq(M), s # <<>>
  PROVE  Deaths(s) = Deaths(Tail(s)) \cup
           IF Head(s).type = "player_exploded" THEN {Head(s).player_id} ELSE {}
<1> DEFINE n == Len(s)
           t == Tail(s)
           h == IF s[1].type = "player_exploded" THEN {s[1].player_id} ELSE {}
<1>1. /\ n \in Nat \ {0} /\ Len(t) = n - 1 /\ Head(s) = s[1]
      /\ \A i \in 1 .. n - 1 : t[i] = s[i + 1]
  BY TailOf
<1>2. /\ 1 \in 1 .. n
      /\ \A i \in 1 .. n - 1 : i + 1 \in 1 .. n
      /\ \A i \in 1 .. n : i = 1 \/ (i - 1 \in 1 .. n - 1 /\ (i - 1) + 1 = i)
  BY <1>1
<1> HIDE DEF n, t
<1>3. Deaths(s) = {s[i].player_id : i \in {j \in 1 .. n : s[j].type = "player_exploded"}}
  BY DEF Deaths, n
<1>4. Deaths(t) = {t[i].player_id : i \in {j \in 1 .. n - 1 : t[j].type = "player_exploded"}}
  BY <1>1 DEF Deaths
<1>5. ASSUME NEW d \in Deaths(s) PROVE d \in Deaths(t) \cup h
  <2>1. PICK i \in 1 .. n : s[i].type = "player_exploded" /\ d = s[i].player_id
    BY <1>3
  <2>2. CASE i = 1
    BY <2>1, <2>2
  <2>3. CASE i - 1 \in 1 .. n - 1 /\ (i - 1) + 1 = i
    <3>1. t[i - 1] = s[i]
      BY <1>1, <2>3
    <3> QED
      BY <1>4, <2>1, <2>3, <3>1
  <2> QED
    BY <1>2, <2>2, <2>3
<1>6. ASSUME NEW d \in Deaths(t) PROVE d \in Deaths(s)
  <2>1. PICK i \in 1 .. n - 1 : t[i].type = "player_exploded" /\ d = t[i].player_id
    BY <1>4
  <2>2. t[i] = s[i + 1] /\ i + 1 \in 1 .. n
    BY <1>1, <1>2
  <2>3. i + 1 \in {j \in 1 .. n : s[j].type = "player_exploded"}
    BY <2>1, <2>2
  <2> QED
    BY <1>3, <2>1, <2>2, <2>3
<1>7. h \subseteq Deaths(s)
  BY <1>2, <1>3
<1>8. Deaths(s) = Deaths(t) \cup h
  BY <1>5, <1>6, <1>7
<1> QED
  BY <1>1, <1>8 DEF t

-----------------------------------------------------------------------------
(* What the server writes to the clients.                                  *)

Heard == {"player_connected", "game_ready", "bonus_map", "round_start", "round_over",
          "player_exploded"}

LEMMA PayloadIs ==
  ASSUME NEW ps \in Seq(Player), NEW map \in Maps, NEW m \in Message, m.type \in Heard
  PROVE  LET p == Payload(m, ps, map)
         IN  /\ p \in ClientMessage /\ p.type = m.type /\ p.player_id = m.player_id
             /\ m.type = "round_over" => p.scores = ScoreIn(ps)
             /\ m.type = "bonus_map" => p.map = map
<1> DEFINE r == IF m.type = "player_connected"
                  THEN {id \in Ids : At(id) \in DOMAIN ps /\ ps[At(id)].is_ready} ELSE {}
           c == [id \in Ids |-> IF At(id) \in DOMAIN ps THEN ps[At(id)].score ELSE 0]
           d == IF m.type = "round_over" THEN c ELSE NoScores
           b == IF m.type = "bonus_map" THEN map ELSE "blank"
<1>1. Payload(m, ps, map) =
        [type |-> m.type, player_id |-> m.player_id, ready |-> r, scores |-> d, map |-> b]
  BY DEF Payload
<1>2. r \in SUBSET Ids
  OBVIOUS
<1>3. DOMAIN ps = 1 .. Len(ps) /\ \A i \in 1 .. Len(ps) : ps[i].score \in Nat
  <2>1. \A i \in 1 .. Len(ps) : ps[i] \in Player
    OBVIOUS
  <2> QED
    BY <2>1 DEF Player
<1>4. c = ScoreIn(ps) /\ c \in [Ids -> Nat]
  BY <1>3 DEF ScoreIn
<1>5. d \in [Ids -> Nat] /\ (m.type = "round_over" => d = ScoreIn(ps))
  BY <1>4 DEF NoScores
<1>6. b \in Maps /\ (m.type = "bonus_map" => b = map)
  BY DEF Maps
<1> HIDE DEF r, c, d, b
<1>7. m.player_id \in Ids \cup {Nobody}
  BY DEF Message
<1> QED
  BY <1>1, <1>2, <1>5, <1>6, <1>7 DEF ClientMessage, Heard

LEMMA WrittenIs ==
  ASSUME NEW ps \in Seq(Player), NEW map \in Maps, NEW out \in Seq(Message),
         \A i \in 1 .. Len(out) : out[i].type \in Heard
  PROVE  /\ Written(out, ps, map) \in Seq(ClientMessage)
         /\ Len(Written(out, ps, map)) = Len(out)
         /\ \A i \in 1 .. Len(out) : Written(out, ps, map)[i] = Payload(out[i], ps, map)
         /\ ReadyIn(out) = {}
<1>1. DOMAIN out = 1 .. Len(out) /\ Len(out) \in Nat
  OBVIOUS
<1>2. ~IsReady(out)
  BY <1>1 DEF IsReady, Heard
<1>3. Written(out, ps, map) = [i \in 1 .. Len(out) |-> Payload(out[i], ps, map)]
  BY <1>1, <1>2 DEF Written
<1>4. \A i \in 1 .. Len(out) : Payload(out[i], ps, map) \in ClientMessage
  <2> SUFFICES ASSUME NEW i \in 1 .. Len(out) PROVE Payload(out[i], ps, map) \in ClientMessage
    OBVIOUS
  <2>1. out[i] \in Message /\ out[i].type \in Heard
    OBVIOUS
  <2> QED
    BY <2>1, PayloadIs
<1>5. Written(out, ps, map) \in [1 .. Len(out) -> ClientMessage]
  BY <1>3, <1>4
<1>6. Written(out, ps, map) \in Seq(ClientMessage)
  BY <1>1, <1>5, SeqDef
<1>7. DOMAIN Written(out, ps, map) = 1 .. Len(out)
  BY <1>3
<1>8. Len(Written(out, ps, map)) = Len(out)
  BY <1>1, <1>6, <1>7, LenProperties
<1> QED
  BY <1>2, <1>3, <1>6, <1>8 DEF ReadyIn

LEMMA NothingWritten ==
  ASSUME NEW ps \in Seq(Player), NEW map \in Maps
  PROVE  Written(<<>>, ps, map) = <<>> /\ ReadyIn(<<>>) = {}
<1>1. <<>> \in Seq(Message) /\ Len(<<>>) = 0 /\ \A i \in 1 .. 0 : FALSE
  OBVIOUS
<1>2. /\ Written(<<>>, ps, map) \in Seq(ClientMessage) /\ Len(Written(<<>>, ps, map)) = 0
      /\ ReadyIn(<<>>) = {}
  BY <1>1, WrittenIs
<1> QED
  BY <1>2

LEMMA ReadyWritten ==
  ASSUME NEW ps, NEW map, NEW id \in Ids
  PROVE  /\ Written(<<Msg("player_ready", id)>>, ps, map) = <<>>
         /\ ReadyIn(<<Msg("player_ready", id)>>) = {id}
<1> DEFINE m == Msg("player_ready", id)
<1>1. m.type = "player_ready" /\ m.player_id = id
  BY DEF Msg
<1> HIDE DEF m
<1>2. DOMAIN <<m>> = {1} /\ <<m>>[1] = m
  OBVIOUS
<1>3. IsReady(<<m>>)
  BY <1>1, <1>2 DEF IsReady
<1> QED
  BY <1>1, <1>2, <1>3 DEF Written, ReadyIn, m

\* One message of some type to one client.
Single(w, type, id) ==
  /\ w \in Seq(ClientMessage) /\ Len(w) = 1
  /\ w[1].type = type /\ w[1].player_id = id

LEMMA SingleWritten ==
  ASSUME NEW ps \in Seq(Player), NEW map \in Maps, NEW type \in Heard,
         NEW id \in Ids \cup {Nobody}
  PROVE  LET out == <<Msg(type, id)>>
         IN  /\ Single(Written(out, ps, map), type, id) /\ ReadyIn(out) = {}
             /\ type = "round_over" => Written(out, ps, map)[1].scores = ScoreIn(ps)
<1> DEFINE m == Msg(type, id)
<1>1. m \in Message /\ m.type = type /\ m.player_id = id
  BY MsgType DEF Msg, Heard, Types
<1> HIDE DEF m
<1>2. /\ <<m>> \in Seq(Message) /\ Len(<<m>>) = 1 /\ <<m>>[1] = m
      /\ 1 \in 1 .. 1 /\ \A i \in 1 .. 1 : i = 1
  BY <1>1
<1>3. \A i \in 1 .. Len(<<m>>) : <<m>>[i].type \in Heard
  BY <1>1, <1>2
<1>4. /\ Written(<<m>>, ps, map) \in Seq(ClientMessage) /\ Len(Written(<<m>>, ps, map)) = 1
      /\ Written(<<m>>, ps, map)[1] = Payload(m, ps, map)
      /\ ReadyIn(<<m>>) = {}
  <2>1. PICK out \in Seq(Message) : out = <<m>>
    BY <1>2
  <2>2. Len(out) = 1 /\ out[1] = m /\ \A i \in 1 .. Len(out) : out[i].type \in Heard
    BY <1>2, <1>3, <2>1
  <2>3. /\ Written(out, ps, map) \in Seq(ClientMessage) /\ Len(Written(out, ps, map)) = Len(out)
        /\ \A i \in 1 .. Len(out) : Written(out, ps, map)[i] = Payload(out[i], ps, map)
        /\ ReadyIn(out) = {}
    BY ONLY <2>2, WrittenIs, out \in Seq(Message), ps \in Seq(Player), map \in Maps
  <2> QED
    BY <1>2, <2>1, <2>2, <2>3
<1>5. /\ Payload(m, ps, map).type = type /\ Payload(m, ps, map).player_id = id
      /\ type = "round_over" => Payload(m, ps, map).scores = ScoreIn(ps)
  BY <1>1, PayloadIs
<1> QED
  BY <1>4, <1>5 DEF Single, m

LEMMA SingleSays ==
  ASSUME NEW w, NEW type, NEW id, Single(w, type, id)
  PROVE  /\ type \notin Turns => NoTurn(w)
         /\ type \in Turns => OneTurn(w, type)
         /\ \A other : type # other => None(w, other)
         /\ type = "player_exploded" => Deaths(w) = {id}
         /\ \A i \in 1 .. Len(w) : i = 1
<1>1. /\ Len(w) = 1 /\ w[1].type = type /\ w[1].player_id = id
      /\ 1 \in 1 .. 1 /\ \A i \in 1 .. 1 : i = 1
  BY DEF Single
<1>2. type = "player_exploded" => Deaths(w) = {id}
  BY <1>1 DEF Deaths
<1>3. \A other : type # other => None(w, other)
  BY <1>1 DEF None
<1> QED
  BY <1>1, <1>2, <1>3 DEF NoTurn, OneTurn

\* The messages that open a round.
Opening(w, map) ==
  /\ w \in Seq(ClientMessage) /\ Len(w) # 0 /\ w[Len(w)].type = "round_start"
  /\ OneTurn(w, "round_start")
  /\ None(w, "player_exploded") /\ None(w, "round_over") /\ None(w, "player_connected")
  /\ ~None(w, "bonus_map")
  /\ \A i \in 1 .. Len(w) : w[i].type = "bonus_map" => w[i].map = map

LEMMA OpeningWritten ==
  ASSUME NEW ps \in Seq(Player), NEW map \in Maps,
         NEW before \in {<<>>, <<Msg("game_ready", Nobody)>>}
  PROVE  LET out == before \o <<Msg("bonus_map", Nobody), Msg("round_start", Nobody)>>
         IN  Opening(Written(out, ps, map), map) /\ ReadyIn(out) = {}
<1> DEFINE g == Msg("game_ready", Nobody)
           b == Msg("bonus_map", Nobody)
           r == Msg("round_start", Nobody)
<1>1. /\ g \in Message /\ g.type = "game_ready"
      /\ b \in Message /\ b.type = "bonus_map"
      /\ r \in Message /\ r.type = "round_start"
  BY MsgType DEF Msg, Types
<1> HIDE DEF g, b, r
<1> DEFINE t == <<b, r>>
           out == before \o t
<1>0. t \in Seq(Message) /\ Len(t) = 2 /\ t[1] = b /\ t[2] = r
  BY <1>1
<1> HIDE DEF t
<1>2. PICK n \in {0, 1} :
        /\ out \in Seq(Message) /\ Len(out) = n + 2
        /\ n = 1 => out[1] = g
        /\ out[n + 1] = b /\ out[n + 2] = r
  <2>1. CASE before = <<>>
    <3>1. out = t
      BY <1>0, <2>1, ConcatEmptySeq
    <3> HIDE DEF out
    <3>2. out \in Seq(Message) /\ Len(out) = 0 + 2 /\ out[0 + 1] = b /\ out[0 + 2] = r
      BY <1>0, <3>1
    <3> QED
      BY <3>2
  <2>2. CASE before = <<g>>
    <3> DEFINE s == <<g>>
    <3>1. s \in Seq(Message) /\ Len(s) = 1 /\ s[1] = g
      BY <1>1
    <3>2. out = s \o t
      BY <2>2
    <3> HIDE DEF s, out
    <3>3. /\ s \o t \in Seq(Message) /\ Len(s \o t) = Len(s) + Len(t)
          /\ \A i \in 1 .. Len(s) : (s \o t)[i] = s[i]
          /\ \A i \in 1 .. Len(t) : (s \o t)[Len(s) + i] = t[i]
      <4>1. s \in Seq(Message) /\ t \in Seq(Message)
        BY <1>0, <3>1
      <4> QED
        BY ONLY <4>1, CatOf
    <3>4. /\ out \in Seq(Message) /\ Len(out) = 1 + 2 /\ out[1] = g
          /\ out[1 + 1] = b /\ out[1 + 2] = r
      BY <1>0, <3>1, <3>2, <3>3
    <3> QED
      BY <3>4
  <2> QED
    BY <2>1, <2>2 DEF g
<1> HIDE DEF out
<1>3. \A i \in 1 .. n + 2 : i = n + 2 \/ i = n + 1 \/ (i = 1 /\ n = 1)
  OBVIOUS
<1>4. \A i \in 1 .. Len(out) : out[i].type \in Heard
  BY <1>1, <1>2, <1>3 DEF Heard
<1>5. PICK w \in Seq(ClientMessage) :
        /\ w = Written(out, ps, map) /\ Len(w) = n + 2
        /\ \A i \in 1 .. n + 2 : w[i] = Payload(out[i], ps, map)
        /\ ReadyIn(out) = {}
  BY <1>2, <1>4, WrittenIs
<1>6. \A m \in Message : m.type \in Heard =>
         Payload(m, ps, map).type = m.type
         /\ (m.type = "bonus_map" => Payload(m, ps, map).map = map)
  BY PayloadIs
<1>7. n + 1 \in 1 .. n + 2 /\ n + 2 \in 1 .. n + 2 /\ n + 1 # n + 2 /\ (n = 1 => 1 \in 1 .. n + 2)
      /\ n + 2 # 0
  OBVIOUS
<1>8. /\ w[n + 1].type = "bonus_map" /\ w[n + 1].map = map /\ w[n + 2].type = "round_start"
      /\ n = 1 => w[1].type = "game_ready"
  BY <1>1, <1>2, <1>5, <1>6, <1>7 DEF Heard
<1>9. \A i \in 1 .. n + 2 :
        \/ i = n + 2 /\ w[i].type = "round_start"
        \/ w[i].type = "bonus_map" /\ w[i].map = map
        \/ w[i].type = "game_ready"
  BY <1>3, <1>8
<1>10. OneTurn(w, "round_start")
  BY <1>5, <1>7, <1>8, <1>9 DEF OneTurn, Turns
<1>11. None(w, "player_exploded") /\ None(w, "round_over") /\ None(w, "player_connected")
  BY <1>5, <1>9 DEF None
<1>12. ~None(w, "bonus_map")
  BY <1>5, <1>7, <1>8 DEF None
<1>13. Opening(w, map)
  BY <1>5, <1>7, <1>8, <1>9, <1>10, <1>11, <1>12 DEF Opening
<1> QED
  BY <1>2, <1>5, <1>13 DEF out, t, b, r

\* What a step of the server that is followed by Enqueue adds to what is coming.
LEMMA Enqueued ==
  ASSUME ProtocolTypeOK, Enqueue,
         \A q \in Ids : /\ Written(sends'[q], players', maps') \in Seq(ClientMessage)
                        /\ ReadyIn(sends'[q]) \subseteq Ids
  PROVE  /\ ProtocolTypeOK' <=> up' \in [Ids -> Seq({"player_ready", "player_exploded"})]
         /\ UNCHANGED <<client, down>> /\ maps \in Maps /\ maps' \in Maps
         /\ \A q \in Ids :
              /\ Coming(q) \in Seq(ClientMessage)
              /\ Coming(q)' = Coming(q) \o Written(sends'[q], players', maps')
              /\ queued[q] \in Seq(ClientMessage)
              /\ queued'[q] = queued[q] \o Written(sends'[q], players', maps')
<1>1. UNCHANGED <<client, down>> /\ maps \in Maps /\ maps' \in Maps
  BY DEF Enqueue, ProtocolTypeOK, Maps, NextMap
<1>2. \A q \in Ids : queued'[q] = queued[q] \o Written(sends'[q], players', maps')
  BY DEF Enqueue
<1>3. \A q \in Ids : queued[q] \in Seq(ClientMessage) /\ down[q] \in Seq(ClientMessage)
  BY DEF ProtocolTypeOK
<1>4. ASSUME NEW q \in Ids
      PROVE  /\ Coming(q) \in Seq(ClientMessage)
             /\ Coming(q)' = Coming(q) \o Written(sends'[q], players', maps')
             /\ queued'[q] \in Seq(ClientMessage)
  <2> DEFINE w == Written(sends'[q], players', maps')
  <2>1. w \in Seq(ClientMessage)
    OBVIOUS
  <2>2. queued'[q] = queued[q] \o w /\ Coming(q)' = down[q] \o queued'[q]
        /\ Coming(q) = down[q] \o queued[q]
    BY <1>1, <1>2 DEF Coming
  <2> HIDE DEF w
  <2>3. Coming(q)' = Coming(q) \o w
    <3>1. (down[q] \o queued[q]) \o w = down[q] \o (queued[q] \o w)
      <4>1. \A x, y, z \in Seq(ClientMessage) : (x \o y) \o z = x \o (y \o z)
        BY ONLY ConcatAssociative
      <4> QED
        BY <1>3, <2>1, <4>1
    <3>2. Coming(q)' = down[q] \o (queued[q] \o w) /\ Coming(q) \o w = (down[q] \o queued[q]) \o w
      BY <2>2
    <3> QED
      BY <3>1, <3>2
  <2>4. Coming(q) \in Seq(ClientMessage) /\ queued'[q] \in Seq(ClientMessage)
    BY <1>3, <2>1, <2>2
  <2> QED
    BY <2>3, <2>4 DEF w
<1>5. queued' \in [Ids -> Seq(ClientMessage)]
  BY <1>4 DEF Enqueue
<1>6. readies' \in [Ids -> SUBSET Ids]
  BY DEF Enqueue, ProtocolTypeOK
<1>7. ProtocolTypeOK' <=> up' \in [Ids -> Seq({"player_ready", "player_exploded"})]
  BY <1>1, <1>5, <1>6 DEF ProtocolTypeOK
<1> QED
  BY <1>1, <1>2, <1>3, <1>4, <1>7

-----------------------------------------------------------------------------
(* Who has pressed READY.                                                  *)

\* The server takes for ready players that have sent READY.
ReadyPressed == \A i \in 1 .. Len(players) : players[i].is_ready => i - 1 \in pressed

\* The game starts when everybody has.
AllPressed == is_game_ready => Ids \subseteq pressed

\* Closing a round changes nobody's readiness.
LEMMA CloseReady ==
  ASSUME NEW ps \in Seq(Player), NEW j \in 1 .. Len(ps)
  PROVE  Reset(Scored(ps))[j].is_ready = ps[j].is_ready
<1> DEFINE ss == Scored(ps)
<1>1. ss \in Seq(Player) /\ Len(ss) = Len(ps)
  BY ScoredType
<1>2. ss[j].is_ready = ps[j].is_ready
  <2>1. CASE Alive(ps) = {}
    BY <2>1 DEF Scored
  <2>2. CASE Alive(ps) # {}
    <3> DEFINE f == First(Alive(ps))
               p == [ps[f] EXCEPT !.score = @ + 1]
    <3>1. f \in 1 .. Len(ps)
      <4>1. Alive(ps) \in SUBSET (1 .. Len(ps)) /\ Len(ps) \in Nat
        BY AliveIsFinite
      <4>2. First(Alive(ps)) \in Alive(ps)
        BY <2>2, <4>1, FirstIsLeast
      <4> QED
        BY <4>1, <4>2
    <3>2. ss = [ps EXCEPT ![f] = p]
      BY <2>2 DEF Scored
    <3> HIDE DEF f
    <3>3. ps[f] \in Player
      BY <3>1
    <3>4. p \in Player /\ p.is_ready = ps[f].is_ready
      BY <3>3, PlayerUpdates DEF Player
    <3> HIDE DEF p, ss
    <3>5. \A i \in 1 .. Len(ps) : ss[i] = IF i = f THEN p ELSE ps[i]
      BY <3>1, <3>2, <3>4, ExceptSeq
    <3> QED
      BY <3>4, <3>5
  <2> QED
    BY <2>1, <2>2
<1>3. ss[j] \in Player /\ j \in DOMAIN ss
  BY <1>1
<1>4. Reset(ss)[j] = [ss[j] EXCEPT !.is_dead = FALSE]
  BY <1>3 DEF Reset
<1> HIDE DEF ss
<1>5. Reset(ss)[j].is_ready = ss[j].is_ready
  BY <1>3, <1>4 DEF Player
<1> QED
  BY <1>2, <1>5 DEF ss

\* What changes the players, or who has pressed.
LEMMA PlayersChange ==
  ASSUME [Next]_vars
  PROVE  \/ \E id \in Ids : ClientReadies(id)
         \/ SpawnPlayer
         \/ ExplodePlayer
         \/ CloseRound
         \/ WaitForGame
         \/ UNCHANGED <<players, pressed, is_game_ready>>
BY DEF Next, HandleMessage, Tick, vars, serverVars, clientVars, OnPlayerSessionReady,
    ClientExplodes, HandlePlayerExploded, HandlePlayerDropBomb, HandlePlayerKickBomb,
    HandlePing,
    HandlePlayerPickupBonus, EndPackets, EndSpawn, EndExplode, NextRound, EndTimers,
    GameReady, EndRound, EndUpdate, EndTick, AbortOnScore, EnterRoundPlaying

LEMMA PressedStep ==
  ASSUME ExpectedPlayers = Sessions, TypeOK, Arrival, ReadyPressed, AllPressed, [Next]_vars
  PROVE  ReadyPressed' /\ AllPressed'
<1> USE ConstantsAssumption
<1>0. /\ players \in Seq(Player) /\ Len(players) \in Nat /\ DOMAIN players = 1 .. Len(players)
      /\ newPlayers \in Seq(Ids)
  BY DEF TypeOK
<1>1. ASSUME NEW id \in Ids, ClientReadies(id) PROVE ReadyPressed' /\ AllPressed'
  <2>1. pressed' = pressed \cup {id} /\ is_game_ready' = is_game_ready
    BY <1>1 DEF ClientReadies, HandlePlayerReady
  <2>2. CASE IsPlayer(id)
    <3>1. At(id) \in 1 .. Len(players) /\ At(id) - 1 = id
      BY <1>0, <2>2 DEF IsPlayer, At, Ids
    <3>2. players[At(id)] \in Player
      BY <1>0, <3>1
    <3> DEFINE p == [players[At(id)] EXCEPT !.is_ready = TRUE]
    <3>3. p \in Player
      BY <3>2, PlayerUpdates
    <3>4. players' = [players EXCEPT ![At(id)] = p]
      BY <1>1, <2>2 DEF ClientReadies, HandlePlayerReady
    <3> HIDE DEF p
    <3>5. Len(players') = Len(players)
          /\ \A j \in 1 .. Len(players) : players'[j] = IF j = At(id) THEN p ELSE players[j]
      BY <1>0, <3>1, <3>3, <3>4, ExceptSeq
    <3> QED
      BY <2>1, <3>1, <3>5 DEF ReadyPressed, AllPressed
  <2>3. CASE ~IsPlayer(id)
    <3>1. players' = players
      BY <1>1, <2>3 DEF ClientReadies, HandlePlayerReady
    <3> QED
      BY <2>1, <3>1 DEF ReadyPressed, AllPressed
  <2> QED
    BY <2>2, <2>3
<1>2. CASE SpawnPlayer
  <2> DEFINE p == NewPlayer(Head(newPlayers))
  <2>1. players' = Append(players, p) /\ UNCHANGED <<pressed, is_game_ready>>
    BY <1>2 DEF SpawnPlayer, clientVars
  <2>2. p.is_ready = FALSE
    BY DEF NewPlayer
  <2> HIDE DEF p
  <2>3. /\ Len(players') = Len(players) + 1 /\ players'[Len(players) + 1] = p
        /\ \A i \in 1 .. Len(players) : players'[i] = players[i]
    BY <1>0, <2>1
  <2>4. \A i \in 1 .. Len(players) + 1 : i \in 1 .. Len(players) \/ i = Len(players) + 1
    BY <1>0
  <2> QED
    BY <2>1, <2>2, <2>3, <2>4 DEF ReadyPressed, AllPressed
<1>3. CASE ExplodePlayer
  <2> DEFINE h == Head(explosions)
             p == [players[h] EXCEPT !.is_dead = TRUE]
  <2>1. h \in 1 .. Len(players)
    BY <1>3, ExplodeEffect
  <2>2. players' = [players EXCEPT ![h] = p] /\ UNCHANGED <<pressed, is_game_ready>>
    BY <1>3 DEF ExplodePlayer, clientVars
  <2> HIDE DEF h
  <2>3. players[h] \in Player
    BY <1>0, <2>1
  <2>4. p \in Player /\ p.is_ready = players[h].is_ready
    BY <2>3, PlayerUpdates DEF Player
  <2> HIDE DEF p
  <2>5. Len(players') = Len(players)
        /\ \A j \in 1 .. Len(players) : players'[j] = IF j = h THEN p ELSE players[j]
    BY <1>0, <2>1, <2>2, <2>4, ExceptSeq
  <2> QED
    BY <2>2, <2>4, <2>5 DEF ReadyPressed, AllPressed
<1>4. CASE CloseRound
  <2>1. players' = Reset(Scored(players)) /\ UNCHANGED <<pressed, is_game_ready>>
    BY <1>4 DEF CloseRound, clientVars
  <2>2. Len(players') = Len(players)
    BY <1>0, <2>1, CloseEffect
  <2>3. \A j \in 1 .. Len(players) : players'[j].is_ready = players[j].is_ready
    BY <1>0, <2>1, CloseReady
  <2> QED
    BY <2>1, <2>2, <2>3 DEF ReadyPressed, AllPressed
<1>5. CASE WaitForGame
  <2>1. Cardinality(ReadyPlayers) = Sessions /\ UNCHANGED <<pressed, players>>
    BY <1>5 DEF WaitForGame, clientVars
  <2>2. ReadyPlayers \subseteq 1 .. Sessions
    <3>1. Len(players) <= Sessions
      BY <1>0 DEF Arrival
    <3> QED
      BY <1>0, <3>1 DEF ReadyPlayers
  <2>3. IsFiniteSet(1 .. Sessions) /\ Cardinality(1 .. Sessions) = Sessions
    BY FS_Interval
  <2>4. ReadyPlayers = 1 .. Sessions
    BY <2>1, <2>2, <2>3, FS_Subset
  <2>5. ASSUME NEW id \in Ids PROVE id \in pressed
    <3>1. id + 1 \in 1 .. Sessions /\ (id + 1) - 1 = id
      BY DEF Ids
    <3>2. id + 1 \in 1 .. Len(players) /\ players[id + 1].is_ready
      BY <1>0, <2>4, <3>1 DEF ReadyPlayers
    <3> QED
      BY <3>1, <3>2 DEF ReadyPressed
  <2> QED
    BY <2>1, <2>5 DEF ReadyPressed, AllPressed
<1>6. CASE UNCHANGED <<players, pressed, is_game_ready>>
  BY <1>6 DEF ReadyPressed, AllPressed
<1> QED
  BY <1>1, <1>2, <1>3, <1>4, <1>5, <1>6, PlayersChange

-----------------------------------------------------------------------------
(* The invariant.                                                          *)

Has(u, type) == \E i \in 1 .. Len(u) : u[i] = type
AtMostOne(u, type) == \A i, j \in 1 .. Len(u) : u[i] = type /\ u[j] = type => i = j

\* The turns of the rounds come one at a time, and each finds the client in a
\* state that takes notice of it.
InPhase(c, s, stage) ==
  \/ /\ stage = "game_waiting" /\ NoTurn(s)
     /\ c.state \in {"connection", "lobby"} /\ ~c.is_round_playing
  \/ /\ stage = "round_playing" /\ OneTurn(s, "round_start")
     /\ c.state \in {"lobby", "score"} /\ ~c.is_round_playing
  \/ /\ stage = "round_playing" /\ NoTurn(s)
     /\ c.state \in {"lobby", "score", "game"} /\ c.is_round_playing
  \/ /\ stage = "next_round_waiting" /\ OneTurn(s, "round_over")
     /\ c.state = "game" /\ c.is_round_playing
  \/ /\ stage = "next_round_waiting" /\ NoTurn(s)
     /\ c.state \in {"game", "score"} /\ ~c.is_round_playing
Phases == \A id \in Ids : ~client[id].stopped => InPhase(client[id], Coming(id), fsm)

\* The messages name players; a client stops in the lobby only.
NamedIn(s) ==
  \A i \in 1 .. Len(s) :
    s[i].type \in {"player_connected", "player_exploded"} => s[i].player_id \in Ids
Named == \A id \in Ids : NamedIn(Coming(id))
Stops == \A id \in Ids : client[id].stopped => client[id].state = "lobby"

\* A client that is not yet a player has been told nothing and is not connected.
Known ==
  \A id \in Ids \ IdsIn(players) :
    /\ client[id].state = "connection"
    /\ ~client[id].received_connected /\ ~client[id].is_connected
    /\ Coming(id) = <<>>

\* A client sends READY once, in the lobby.
Reads ==
  \A id \in Ids :
    /\ client[id].is_local_player_ready => client[id].state # "connection"
    /\ id \in pressed => client[id].is_local_player_ready
    /\ Has(up[id], "player_ready") => client[id].is_local_player_ready /\ id \notin pressed
    /\ AtMostOne(up[id], "player_ready")

\* No turn waits for the flush while packets are handled, players exploded and
\* timers looked at.
Early == {"packets", "spawn", "explode", "timers"}
Flushed == pc \in Early => \A id \in Ids : NoTurn(queued[id])

\* A client sends EXPLODED once per round, while it plays it.
Sent ==
  \A id \in Ids :
    /\ Has(up[id], "player_exploded") =>
         /\ fsm # "game_waiting" /\ id \notin exploded
         /\ client[id].state \in {"game", "score"}
         /\ client[id].state = "game" => id \in client[id].dead
    /\ client[id].state = "game" /\ id \in exploded => id \in client[id].dead
    /\ AtMostOne(up[id], "player_exploded")

\* Nobody explodes in a round before every client plays it.
NoneYet ==
  fsm = "round_playing" =>
    \A id \in Ids : ~client[id].stopped /\ client[id].state # "game" =>
      /\ exploded = {} /\ \A q \in Ids : ~Has(up[q], "player_exploded")
      /\ Stale(Coming(id), "player_exploded")

\* A client in the game knows, or will be told, of every other's explosion.
Died ==
  \A id \in Ids : client[id].state = "game" =>
    exploded \ {id} = (client[id].dead \cup client[id].events \cup Deaths(Coming(id))) \ {id}

MapsCome ==
  \A id \in Ids :
    /\ Stale(Coming(id), "bonus_map")
    /\ fsm = "round_playing" /\ ~client[id].stopped => KnowsMap(client[id], Coming(id), maps)

ScoresCome ==
  fsm = "next_round_waiting" =>
    \A id \in Ids : ~client[id].stopped =>
      KnowsScores(client[id], Coming(id), ScoreIn(players))

\* What the clients have been told and what they have sent.
Told == Named /\ Phases /\ Stops /\ Known /\ Died /\ MapsCome /\ ScoresCome
Asked == Reads /\ Sent /\ NoneYet

PInv == ProtocolTypeOK /\ IInv /\ ReadyPressed /\ AllPressed /\ Flushed /\ Told /\ Asked

-----------------------------------------------------------------------------
(* Steps of the server the clients are not told of.                        *)

LEMMA ScoresKept ==
  ASSUME TypeOK, TypeOK', [Next]_vars, ~SpawnPlayer, ~CloseRound
  PROVE  ScoreIn(players') = ScoreIn(players) /\ IdsIn(players') = IdsIn(players)
<1>1. /\ players \in Seq(Player) /\ DOMAIN players = 1 .. Len(players)
      /\ players' \in Seq(Player) /\ DOMAIN players' = 1 .. Len(players')
  BY DEF TypeOK
<1>2. /\ Len(players') = Len(players)
      /\ \A j \in 1 .. Len(players) :
           players'[j].id = players[j].id /\ players'[j].score = players[j].score
  BY StepEffects, ExplodeEffect DEF Kept
<1>3. IdsIn(players') = IdsIn(players)
  BY <1>1, <1>2 DEF IdsIn
<1>4. ScoreIn(players') = ScoreIn(players)
  BY <1>2 DEF ScoreIn
<1> QED
  BY <1>3, <1>4

LEMMA ToldKept ==
  ASSUME Told, UNCHANGED <<client, fsm, exploded, maps>>,
         \A q \in Ids : Coming(q)' = Coming(q),
         ScoreIn(players') = ScoreIn(players), IdsIn(players') = IdsIn(players)
  PROVE  Told'
<1>1. Named' /\ Phases' /\ Stops' /\ Known'
  BY DEF Told, Named, Phases, Stops, Known
<1>2. Died' /\ MapsCome' /\ ScoresCome'
  BY DEF Told, Died, MapsCome, ScoresCome
<1> QED
  BY <1>1, <1>2 DEF Told

LEMMA AskedKept ==
  ASSUME Asked, UNCHANGED <<client, up, fsm, exploded, pressed>>,
         \A q \in Ids : Coming(q)' = Coming(q)
  PROVE  Asked'
BY DEF Asked, Reads, Sent, NoneYet

LEMMA SilentStep ==
  ASSUME ProtocolTypeOK, TypeOK', Flushed, Enqueue, sends' = Silence, pc' \in Early => pc \in Early,
         UNCHANGED up
  PROVE  /\ ProtocolTypeOK' /\ UNCHANGED client /\ Flushed'
         /\ \A q \in Ids : Coming(q)' = Coming(q)
<1>0. players' \in Seq(Player) /\ maps' \in Maps
  BY DEF TypeOK, ProtocolTypeOK, Enqueue, Maps, NextMap
<1>1. \A q \in Ids : /\ Written(sends'[q], players', maps') = <<>>
                     /\ ReadyIn(sends'[q]) = {}
  BY <1>0, NothingWritten DEF Silence
<1>2. \A q \in Ids : /\ Written(sends'[q], players', maps') \in Seq(ClientMessage)
                     /\ ReadyIn(sends'[q]) \subseteq Ids
  <2>1. <<>> \in Seq(ClientMessage)
    BY EmptySeq
  <2>2. {} \subseteq Ids
    OBVIOUS
  <2> QED
    BY <1>1, <2>1, <2>2
<1>3. ASSUME NEW q \in Ids PROVE Coming(q)' = Coming(q) /\ queued'[q] = queued[q]
  <2>1. /\ Coming(q) \in Seq(ClientMessage) /\ queued[q] \in Seq(ClientMessage)
        /\ Coming(q)' = Coming(q) \o <<>> /\ queued'[q] = queued[q] \o <<>>
    BY <1>1, <1>2, Enqueued
  <2> QED
    BY <2>1, ConcatEmptySeq
<1>4. ProtocolTypeOK' /\ UNCHANGED client
  BY <1>2, Enqueued DEF ProtocolTypeOK
<1>5. Flushed'
  BY <1>3 DEF Flushed
<1> QED
  BY <1>3, <1>4, <1>5

\* The parts of a tick that send nothing, and a session that gets ready.
LEMMA QuietStep ==
  ASSUME PInv, TypeOK', [Next]_vars,
         \/ ServerTick /\ ~SpawnPlayer
         \/ \E id \in Ids : ServerSessionReady(id)
  PROVE  ProtocolTypeOK' /\ Flushed' /\ Told' /\ Asked'
<1>1. /\ sends' = Silence /\ UNCHANGED <<fsm, exploded, pressed, up>> /\ Enqueue
      /\ pc' \in Early => pc \in Early
      /\ ~SpawnPlayer /\ ~CloseRound
  <2>1. CASE ServerTick /\ ~SpawnPlayer
    BY <2>1 DEF ServerTick, EndPackets, EndSpawn, ExplodePlayer, EndExplode, EndTimers,
      WaitForGame, EndRound, EndUpdate, serverVars, clientVars, Early, CloseRound
  <2>2. ASSUME NEW id \in Ids, ServerSessionReady(id)
        PROVE  /\ sends' = Silence /\ UNCHANGED <<fsm, exploded, pressed, up, pc>> /\ Enqueue
               /\ pc = "packets"
    BY <2>2 DEF ServerSessionReady, OnPlayerSessionReady, serverVars, clientVars
  <2> QED
    BY <2>1, <2>2 DEF SpawnPlayer, CloseRound
<1>2. /\ ProtocolTypeOK' /\ UNCHANGED client /\ Flushed'
      /\ \A q \in Ids : Coming(q)' = Coming(q)
  BY <1>1, SilentStep DEF PInv
<1>3. maps' = maps
  BY <1>1 DEF Enqueue
<1>4. ScoreIn(players') = ScoreIn(players) /\ IdsIn(players') = IdsIn(players)
  BY <1>1, ScoresKept DEF PInv, IInv
<1>5. Told'
  BY <1>1, <1>2, <1>3, <1>4, ToldKept DEF PInv
<1>6. Asked'
  BY <1>1, <1>2, AskedKept DEF PInv
<1> QED
  BY <1>2, <1>5, <1>6

\* The flush, and the end of the process in it.
LEMMA FlushStep ==
  ASSUME PInv, TypeOK', [Next]_vars, ServerFlush \/ ServerAbort
  PROVE  ProtocolTypeOK' /\ Flushed' /\ Told' /\ Asked'
<1>1. /\ UNCHANGED <<client, fsm, exploded, pressed, up, maps, readies>>
      /\ ~SpawnPlayer /\ ~CloseRound
  BY DEF ServerFlush, ServerAbort, EndTick, AbortOnScore, serverVars, clientVars, SpawnPlayer,
    CloseRound, protocolVars
<1>2. \A q \in Ids : down[q] \in Seq(ClientMessage) /\ queued[q] \in Seq(ClientMessage)
  BY DEF PInv, ProtocolTypeOK
<1>3. /\ ProtocolTypeOK' /\ Flushed'
      /\ \A q \in Ids : Coming(q)' = Coming(q)
  <2>1. CASE ServerFlush
    <3>1. /\ \A q \in Ids : down'[q] = down[q] \o queued[q] /\ queued'[q] = <<>>
          /\ down' = [q \in Ids |-> down[q] \o queued[q]] /\ queued' = [q \in Ids |-> <<>>]
      BY <2>1 DEF ServerFlush
    <3>2. ASSUME NEW q \in Ids
          PROVE  Coming(q)' = Coming(q) /\ down'[q] \in Seq(ClientMessage)
      <4> DEFINE s == down[q] \o queued[q]
      <4>1. s \in Seq(ClientMessage)
        BY <1>2
      <4>2. Coming(q)' = s \o <<>> /\ Coming(q) = s
        BY <3>1 DEF Coming
      <4>3. down'[q] = s
        BY <3>1
      <4> HIDE DEF s
      <4> QED
        BY <4>1, <4>2, <4>3, ConcatEmptySeq
    <3>3. <<>> \in Seq(ClientMessage) /\ NoTurn(<<>>)
      BY EmptySeq DEF NoTurn
    <3>4. Flushed'
      BY <3>1, <3>3 DEF Flushed
    <3>5. queued' \in [Ids -> Seq(ClientMessage)]
      BY <3>1, <3>3
    <3>6. down' \in [Ids -> Seq(ClientMessage)]
      BY <3>1, <3>2
    <3> QED
      BY <1>1, <3>2, <3>4, <3>5, <3>6 DEF PInv, ProtocolTypeOK
  <2>2. CASE ServerAbort
    <3>1. UNCHANGED <<down, queued>> /\ pc' = "aborted"
      BY <2>2 DEF ServerAbort, protocolVars, AbortOnScore
    <3> QED
      BY <1>1, <3>1 DEF PInv, ProtocolTypeOK, Flushed, Coming, Early
  <2> QED
    BY <2>1, <2>2
<1>4. ScoreIn(players') = ScoreIn(players) /\ IdsIn(players') = IdsIn(players)
  BY <1>1, ScoresKept DEF PInv, IInv
<1>5. Told'
  BY <1>1, <1>3, <1>4, ToldKept DEF PInv
<1>6. Asked'
  BY <1>1, <1>3, AskedKept DEF PInv
<1> QED
  BY <1>3, <1>5, <1>6

-----------------------------------------------------------------------------
(* Steps of the server the clients are told of.                            *)

\* The elements of a concatenation.
LEMMA CatElement ==
  ASSUME NEW M, NEW s \in Seq(M), NEW w \in Seq(M), NEW i \in 1 .. Len(s \o w)
  PROVE  \/ \E j \in 1 .. Len(s) : (s \o w)[i] = s[j]
         \/ \E j \in 1 .. Len(w) : (s \o w)[i] = w[j]
<1> DEFINE n == Len(s)
           k == Len(w)
           t == s \o w
<1>1. /\ n \in Nat /\ k \in Nat /\ Len(t) = n + k
      /\ \A j \in 1 .. n : t[j] = s[j]
      /\ \A j \in 1 .. k : t[n + j] = w[j]
  BY CatOf
<1>2. i \in 1 .. n + k
  BY <1>1
<1> HIDE DEF n, k, t
<1>3. i \in 1 .. n \/ (i - n \in 1 .. k /\ i = n + (i - n))
  BY <1>1, <1>2
<1>4. (\E j \in 1 .. n : t[i] = s[j]) \/ (\E j \in 1 .. k : t[i] = w[j])
  BY <1>1, <1>3
<1> QED
  BY <1>4 DEF n, k, t

LEMMA CatKnows ==
  ASSUME NEW M, NEW s \in Seq(M), NEW w \in Seq(M), NEW c
  PROVE  /\ NamedIn(s) /\ NamedIn(w) => NamedIn(s \o w)
         /\ \A map : None(w, "bonus_map") /\ KnowsMap(c, s, map) => KnowsMap(c, s \o w, map)
         /\ \A scores : None(w, "round_over") /\ KnowsScores(c, s, scores)
              => KnowsScores(c, s \o w, scores)
<1>1. NamedIn(s) /\ NamedIn(w) => NamedIn(s \o w)
  BY CatElement DEF NamedIn
<1>2. ASSUME NEW map, None(w, "bonus_map"), KnowsMap(c, s, map) PROVE KnowsMap(c, s \o w, map)
  <2>1. None(s \o w, "bonus_map") => None(s, "bonus_map")
    BY AddedTypes
  <2>2. \A i \in 1 .. Len(s \o w) : (s \o w)[i].type = "bonus_map" => (s \o w)[i].map = map
    <3> SUFFICES ASSUME NEW i \in 1 .. Len(s \o w), (s \o w)[i].type = "bonus_map"
                 PROVE  (s \o w)[i].map = map
      OBVIOUS
    <3>1. \/ \E j \in 1 .. Len(s) : (s \o w)[i] = s[j]
          \/ \E j \in 1 .. Len(w) : (s \o w)[i] = w[j]
      BY CatElement
    <3> QED
      BY <1>2, <3>1 DEF None, KnowsMap
  <2> QED
    BY <1>2, <2>1, <2>2 DEF KnowsMap
<1>3. ASSUME NEW scores, None(w, "round_over"), KnowsScores(c, s, scores)
      PROVE  KnowsScores(c, s \o w, scores)
  <2>1. None(s \o w, "round_over") => None(s, "round_over")
    BY AddedTypes
  <2>2. \A i \in 1 .. Len(s \o w) : (s \o w)[i].type = "round_over" => (s \o w)[i].scores = scores
    <3> SUFFICES ASSUME NEW i \in 1 .. Len(s \o w), (s \o w)[i].type = "round_over"
                 PROVE  (s \o w)[i].scores = scores
      OBVIOUS
    <3>1. \/ \E j \in 1 .. Len(s) : (s \o w)[i] = s[j]
          \/ \E j \in 1 .. Len(w) : (s \o w)[i] = w[j]
      BY CatElement
    <3> QED
      BY <1>3, <3>1 DEF None, KnowsScores
  <2> QED
    BY <1>3, <2>1, <2>2 DEF KnowsScores
<1> QED
  BY <1>1, <1>2, <1>3

LEMMA StaleNoTurn ==
  ASSUME NEW s, NEW type, Stale(s, type), NoTurn(s)
  PROVE  None(s, type)
BY DEF Stale, NoTurn, None, Turns

\* When the game is ready every client is a player.
LEMMA EveryoneIn ==
  ASSUME IInv, is_game_ready
  PROVE  IdsIn(players) = Ids
<1> USE ConstantsAssumption
<1>1. /\ players \in Seq(Player) /\ DOMAIN players = 1 .. Sessions
      /\ \A i \in 1 .. Sessions : players[i].id = i - 1
  <2>1. players \in Seq(Player) /\ Len(players) = Sessions
    BY DEF IInv, TypeOK, AllHere
  <2>2. \A i \in 1 .. Len(players) : players[i].id = i - 1
    BY DEF IInv, Arrival
  <2> QED
    BY <2>1, <2>2
<1>2. ASSUME NEW id \in Ids PROVE id \in IdsIn(players)
  <2>1. id + 1 \in 1 .. Sessions /\ (id + 1) - 1 = id
    BY DEF Ids
  <2>2. players[id + 1].id = id
    BY <1>1, <2>1
  <2> QED
    BY <1>1, <2>1, <2>2 DEF IdsIn
<1>3. ASSUME NEW id \in IdsIn(players) PROVE id \in Ids
  <2>1. PICK i \in 1 .. Sessions : players[i].id = id
    BY <1>1 DEF IdsIn
  <2> QED
    BY <1>1, <2>1 DEF Ids
<1> QED
  BY <1>2, <1>3

\* Messages that are no turn and open nothing leave the client in its phase.
LEMMA PhaseKept ==
  ASSUME NEW M, NEW s \in Seq(M), NEW w \in Seq(M), NoTurn(w), NEW c, NEW stage,
         InPhase(c, s, stage)
  PROVE  InPhase(c, s \o w, stage)
BY Added DEF InPhase

LEMMA NobodyPlays ==
  ASSUME Phases, Stops, fsm = "game_waiting"
  PROVE  \A id \in Ids : client[id].state # "game"
BY DEF Phases, Stops, InPhase

LEMMA SpawnStep ==
  ASSUME PInv, TypeOK', ServerTick, SpawnPlayer
  PROVE  ProtocolTypeOK' /\ Flushed' /\ Told' /\ Asked'
<1> DEFINE h == Head(newPlayers)
           w(q) == Written(sends'[q], players', maps')
<1>0. /\ Enqueue /\ UNCHANGED <<up, fsm, exploded, pressed, pc>> /\ players' \in Seq(Player)
      /\ h \in Ids /\ players' = Append(players, NewPlayer(h)) /\ players \in Seq(Player)
      /\ sends' = ToAll(players', <<Msg("player_connected", h)>>)
      /\ pc = "spawn"
  BY DEF ServerTick, SpawnPlayer, clientVars, TypeOK, PInv, IInv
<1>1. fsm = "game_waiting"
  BY NobodyComes DEF PInv, IInv, Hooked
<1>2. maps' = maps /\ maps' \in Maps
  BY <1>0, <1>1 DEF Enqueue, PInv, ProtocolTypeOK
<1>3. ASSUME NEW q \in Ids
      PROVE  /\ w(q) \in Seq(ClientMessage) /\ ReadyIn(sends'[q]) = {}
             /\ Single(w(q), "player_connected", h) \/ w(q) = <<>>
             /\ q \notin IdsIn(players') => w(q) = <<>>
  <2>1. CASE q \in IdsIn(players')
    <3>1. sends'[q] = <<Msg("player_connected", h)>>
      BY <1>0, <2>1 DEF ToAll
    <3>2. Single(w(q), "player_connected", h) /\ ReadyIn(sends'[q]) = {}
      BY <1>0, <1>2, <3>1, SingleWritten DEF Heard
    <3> QED
      BY <2>1, <3>2 DEF Single
  <2>2. CASE q \notin IdsIn(players')
    <3>1. sends'[q] = <<>>
      BY <1>0, <2>2 DEF ToAll
    <3>2. w(q) = <<>> /\ ReadyIn(sends'[q]) = {}
      BY <1>0, <1>2, <3>1, NothingWritten
    <3> QED
      BY <3>2, EmptySeq
  <2> QED
    BY <2>1, <2>2
<1>4. /\ ProtocolTypeOK' /\ UNCHANGED client
      /\ \A q \in Ids :
           /\ Coming(q) \in Seq(ClientMessage) /\ Coming(q)' = Coming(q) \o w(q)
           /\ queued[q] \in Seq(ClientMessage) /\ queued'[q] = queued[q] \o w(q)
  <2>1. up' \in [Ids -> Seq({"player_ready", "player_exploded"})]
    BY <1>0 DEF PInv, ProtocolTypeOK
  <2>2. /\ ProtocolTypeOK /\ Enqueue
        /\ \A q \in Ids : w(q) \in Seq(ClientMessage) /\ ReadyIn(sends'[q]) \subseteq Ids
    BY <1>0, <1>3 DEF PInv
  <2> QED
    BY <2>1, <2>2, Enqueued
<1>5. ASSUME NEW q \in Ids
      PROVE  /\ w(q) \in Seq(ClientMessage) /\ NoTurn(w(q)) /\ NamedIn(w(q))
             /\ None(w(q), "bonus_map")
  <2>1. CASE Single(w(q), "player_connected", h)
    <3>1. NoTurn(w(q)) /\ None(w(q), "bonus_map") /\ \A i \in 1 .. Len(w(q)) : i = 1
      BY <2>1, SingleSays DEF Turns
    <3>2. w(q)[1].player_id = h
      BY <2>1 DEF Single
    <3> QED
      BY <1>0, <1>3, <3>1, <3>2 DEF NamedIn
  <2>2. CASE w(q) = <<>>
    BY <1>3, <2>2 DEF NoTurn, NamedIn, None
  <2> QED
    BY <1>3, <2>1, <2>2
<1> HIDE DEF w, h
<1>6. Told /\ Flushed /\ Asked
  BY DEF PInv
<1>7. Phases' /\ Stops'
  BY <1>0, <1>4, <1>5, <1>6, PhaseKept DEF Told, Phases, Stops
<1>8. Named'
  BY <1>4, <1>5, <1>6, CatKnows DEF Told, Named
<1>9. Known'
  <2> SUFFICES ASSUME NEW q \in Ids \ IdsIn(players')
               PROVE  /\ client[q].state = "connection" /\ ~client[q].received_connected
                      /\ ~client[q].is_connected /\ Coming(q)' = <<>>
    BY <1>4 DEF Known
  <2>1. q \notin IdsIn(players)
    <3>1. Len(players') = Len(players) + 1 /\ \A i \in 1 .. Len(players) : players'[i] = players[i]
      BY <1>0
    <3>2. DOMAIN players = 1 .. Len(players) /\ DOMAIN players' = 1 .. Len(players')
          /\ Len(players) \in Nat
      BY <1>0
    <3>3. \A i \in 1 .. Len(players) : i \in 1 .. Len(players')
      BY <3>1, <3>2
    <3> QED
      BY <3>1, <3>2, <3>3 DEF IdsIn
  <2>2. w(q) = <<>>
    BY <1>3
  <2>3. /\ client[q].state = "connection" /\ ~client[q].received_connected
        /\ ~client[q].is_connected /\ Coming(q) = <<>>
    BY <1>6, <2>1 DEF Told, Known
  <2>4. Coming(q)' = <<>> \o <<>>
    BY <1>4, <2>2, <2>3
  <2> QED
    BY <2>3, <2>4
<1>10. Died'
  BY <1>0, <1>1, <1>4, <1>6, NobodyPlays DEF Told, Died
<1>11. MapsCome'
  <2>1. ASSUME NEW q \in Ids PROVE Stale(Coming(q)', "bonus_map")
    <3>1. Stale(Coming(q), "bonus_map")
      BY <1>6 DEF Told, MapsCome
    <3>2. Stale(Coming(q) \o w(q), "bonus_map")
      BY <1>4, <1>5, <3>1, AddedTypes
    <3> QED
      BY <1>4, <3>2
  <2> QED
    BY <1>0, <1>1, <2>1 DEF MapsCome
<1>12. ScoresCome'
  BY <1>0, <1>1 DEF ScoresCome
<1>13. Asked'
  BY <1>0, <1>1, <1>4, <1>6 DEF Asked, Reads, Sent, NoneYet
<1>14. Flushed'
  BY <1>0, <1>4, <1>5, <1>6, Added DEF Flushed, Early
<1> QED
  BY <1>4, <1>7, <1>8, <1>9, <1>10, <1>11, <1>12, <1>13, <1>14 DEF Told

-----------------------------------------------------------------------------
(* What the server has been sent.                                          *)

LEMMA UpTaken ==
  ASSUME NEW M, NEW u \in Seq(M), u # <<>>
  PROVE  /\ Has(u, Head(u))
         /\ \A type : Has(Tail(u), type) => Has(u, type)
         /\ \A type : AtMostOne(u, type) => AtMostOne(Tail(u), type)
         /\ \A type : AtMostOne(u, type) /\ Head(u) = type => ~Has(Tail(u), type)
<1> DEFINE n == Len(u)
           t == Tail(u)
<1>1. /\ n \in Nat \ {0} /\ Len(t) = n - 1 /\ Head(u) = u[1]
      /\ \A i \in 1 .. n - 1 : t[i] = u[i + 1]
  BY TailOf
<1>2. /\ 1 \in 1 .. n
      /\ \A i \in 1 .. n - 1 : i + 1 \in 1 .. n /\ i + 1 # 1
      /\ \A i, j \in 1 .. n - 1 : i + 1 = j + 1 => i = j
  BY <1>1
<1> HIDE DEF n, t
<1>3. Has(u, Head(u))
  BY <1>1, <1>2 DEF Has, n
<1>4. \A type : Has(t, type) => Has(u, type)
  BY <1>1, <1>2 DEF Has, n
<1>5. \A type : AtMostOne(u, type) => AtMostOne(t, type)
  BY <1>1, <1>2 DEF AtMostOne, n
<1>6. \A type : AtMostOne(u, type) /\ Head(u) = type => ~Has(t, type)
  BY <1>1, <1>2 DEF AtMostOne, Has, n
<1> QED
  BY <1>3, <1>4, <1>5, <1>6 DEF t

LEMMA UpPut ==
  ASSUME NEW M, NEW u \in Seq(M), NEW m \in M
  PROVE  /\ Append(u, m) \in Seq(M)
         /\ \A type : Has(Append(u, m), type) => Has(u, type) \/ type = m
         /\ \A type : AtMostOne(u, type) /\ (type # m \/ ~Has(u, type))
              => AtMostOne(Append(u, m), type)
<1> DEFINE n == Len(u)
           t == Append(u, m)
<1>1. /\ n \in Nat /\ t \in Seq(M) /\ Len(t) = n + 1 /\ t[n + 1] = m
      /\ \A i \in 1 .. n : t[i] = u[i]
  OBVIOUS
<1>2. \A i \in 1 .. n + 1 : i \in 1 .. n \/ i = n + 1
  BY <1>1
<1> HIDE DEF n, t
<1>3. \A type : Has(t, type) => Has(u, type) \/ type = m
  BY <1>1, <1>2 DEF Has, n
<1>4. \A type : AtMostOne(u, type) /\ (type # m \/ ~Has(u, type)) => AtMostOne(t, type)
  BY <1>1, <1>2 DEF AtMostOne, Has, n
<1> QED
  BY <1>1, <1>3, <1>4 DEF t

\* What a message handled by the server leaves of those sent.
LEMMA UpStep ==
  ASSUME ProtocolTypeOK, NEW id \in Ids, up[id] # <<>>, up' = [up EXCEPT ![id] = Tail(@)]
  PROVE  /\ up' \in [Ids -> Seq({"player_ready", "player_exploded"})]
         /\ Has(up[id], Head(up[id]))
         /\ \A type : \A q \in Ids : Has(up'[q], type) => Has(up[q], type)
         /\ \A type : \A q \in Ids : AtMostOne(up[q], type) => AtMostOne(up'[q], type)
         /\ \A type : AtMostOne(up[id], type) /\ Head(up[id]) = type => ~Has(up'[id], type)
<1>1. up \in [Ids -> Seq({"player_ready", "player_exploded"})]
  BY DEF ProtocolTypeOK
<1>2. up'[id] = Tail(up[id]) /\ \A q \in Ids : q # id => up'[q] = up[q]
  BY <1>1
<1>3. up[id] \in Seq({"player_ready", "player_exploded"})
  BY <1>1
<1>4. up' \in [Ids -> Seq({"player_ready", "player_exploded"})]
  <2>1. Tail(up[id]) \in Seq({"player_ready", "player_exploded"})
    BY <1>3
  <2> QED
    BY <1>1, <2>1
<1>5. /\ Has(up[id], Head(up[id]))
      /\ \A type : Has(Tail(up[id]), type) => Has(up[id], type)
      /\ \A type : AtMostOne(up[id], type) => AtMostOne(Tail(up[id]), type)
      /\ \A type : AtMostOne(up[id], type) /\ Head(up[id]) = type => ~Has(Tail(up[id]), type)
  BY <1>3, UpTaken
<1> QED
  BY <1>2, <1>4, <1>5

\* A READY is handled.
LEMMA ReceiveReadyStep ==
  ASSUME PInv, TypeOK', [Next]_vars, NEW id \in Ids, ServerReceive(id), ClientReadies(id)
  PROVE  ProtocolTypeOK' /\ Flushed' /\ Told' /\ Asked'
<1>0. /\ Enqueue /\ UNCHANGED <<fsm, exploded, pc>>
      /\ up[id] # <<>> /\ up' = [up EXCEPT ![id] = Tail(@)]
      /\ Head(up[id]) = "player_ready" /\ pressed' = pressed \cup {id}
      /\ sends' = ToOthers(id, Msg("player_ready", id))
      /\ ~SpawnPlayer /\ ~CloseRound
  BY DEF ServerReceive, ClientReadies, HandlePlayerReady, ClientExplodes,
    HandlePlayerExploded, SpawnPlayer, CloseRound
<1>1. ProtocolTypeOK /\ Told /\ Asked /\ Flushed
  BY DEF PInv
<1>2. players' \in Seq(Player) /\ maps' = maps /\ maps' \in Maps
  BY <1>0, <1>1 DEF TypeOK, Enqueue, ProtocolTypeOK
<1>3. ASSUME NEW q \in Ids
      PROVE  /\ Written(sends'[q], players', maps') = <<>>
             /\ ReadyIn(sends'[q]) \subseteq Ids
  <2>1. CASE q \in IdsIn(players) \ {id}
    <3>1. sends'[q] = <<Msg("player_ready", id)>>
      BY <1>0, <2>1 DEF ToOthers
    <3>2. /\ Written(<<Msg("player_ready", id)>>, players', maps') = <<>>
          /\ ReadyIn(<<Msg("player_ready", id)>>) = {id}
      BY ONLY ReadyWritten, id \in Ids
    <3>3. {id} \subseteq Ids
      OBVIOUS
    <3> QED
      BY <3>1, <3>2, <3>3
  <2>2. CASE q \notin IdsIn(players) \ {id}
    <3>1. sends'[q] = <<>>
      BY <1>0, <2>2 DEF ToOthers
    <3>2. Written(<<>>, players', maps') = <<>> /\ ReadyIn(<<>>) = {}
      BY <1>2, NothingWritten
    <3> QED
      BY <3>1, <3>2
  <2> QED
    BY <2>1, <2>2
<1>4. /\ up' \in [Ids -> Seq({"player_ready", "player_exploded"})]
      /\ Has(up[id], "player_ready") /\ ~Has(up'[id], "player_ready")
      /\ \A type : \A q \in Ids : Has(up'[q], type) => Has(up[q], type)
      /\ \A type : \A q \in Ids : AtMostOne(up[q], type) => AtMostOne(up'[q], type)
  <2>1. AtMostOne(up[id], "player_ready")
    BY <1>1 DEF Asked, Reads
  <2> QED
    BY <1>0, <1>1, <2>1, UpStep
<1>5. /\ ProtocolTypeOK' /\ UNCHANGED client
      /\ \A q \in Ids : Coming(q)' = Coming(q) /\ queued'[q] = queued[q]
  <2>1. <<>> \in Seq(ClientMessage)
    BY EmptySeq
  <2>2. \A q \in Ids : /\ Written(sends'[q], players', maps') \in Seq(ClientMessage)
                       /\ ReadyIn(sends'[q]) \subseteq Ids
    BY <1>3, <2>1
  <2>3. /\ ProtocolTypeOK' /\ UNCHANGED client
        /\ \A q \in Ids :
             /\ Coming(q) \in Seq(ClientMessage) /\ Coming(q)' = Coming(q) \o <<>>
             /\ queued[q] \in Seq(ClientMessage) /\ queued'[q] = queued[q] \o <<>>
    BY <1>0, <1>1, <1>3, <1>4, <2>2, Enqueued
  <2> QED
    BY <2>3, ConcatEmptySeq
<1>6. ScoreIn(players') = ScoreIn(players) /\ IdsIn(players') = IdsIn(players)
  BY <1>0, ScoresKept DEF PInv, IInv
<1>7. Told'
  BY <1>0, <1>1, <1>2, <1>5, <1>6, ToldKept
<1>8. Reads'
  BY <1>0, <1>1, <1>4, <1>5 DEF Asked, Reads
<1>9. Sent'
  BY <1>0, <1>1, <1>4, <1>5 DEF Asked, Sent
<1>10. NoneYet'
  BY <1>0, <1>1, <1>4, <1>5 DEF Asked, NoneYet
<1>11. Flushed'
  BY <1>0, <1>1, <1>5 DEF Flushed
<1> QED
  BY <1>5, <1>7, <1>8, <1>9, <1>10, <1>11 DEF Asked

\* An EXPLODED is handled.
LEMMA ReceiveExplodedStep ==
  ASSUME PInv, TypeOK', [Next]_vars, NEW id \in Ids, ServerReceive(id), ClientExplodes(id)
  PROVE  ProtocolTypeOK' /\ Flushed' /\ Told' /\ Asked'
<1>1. ProtocolTypeOK /\ Told /\ Asked /\ Flushed /\ IInv
  BY DEF PInv
<1>0. /\ Enqueue /\ UNCHANGED <<fsm, pressed, pc, players>>
      /\ up[id] # <<>> /\ up' = [up EXCEPT ![id] = Tail(@)]
      /\ Head(up[id]) = "player_exploded" /\ exploded' = exploded \cup {id}
      /\ sends' = ToOthers(id, Msg("player_exploded", id))
      /\ fsm # "game_waiting"
  <2>1. IsSender(id)
    BY <1>1, IndexIsId DEF ClientExplodes, Plays, IInv
  <2>2. Head(up[id]) # "player_ready" \/ ~ClientReadies(id)
    BY DEF ClientExplodes, HandlePlayerExploded, ClientReadies, HandlePlayerReady
  <2> QED
    BY <2>1 DEF ServerReceive, ClientExplodes, HandlePlayerExploded, ClientReadies,
      HandlePlayerReady, Plays
<1>2. players' \in Seq(Player) /\ maps' = maps /\ maps' \in Maps
  BY <1>0, <1>1 DEF TypeOK, Enqueue, ProtocolTypeOK
<1>3. IdsIn(players) = Ids
  BY <1>0, <1>1, EveryoneIn DEF IInv, Hooked
<1> DEFINE w(q) == Written(sends'[q], players', maps')
<1>4. ASSUME NEW q \in Ids
      PROVE  /\ w(q) \in Seq(ClientMessage) /\ ReadyIn(sends'[q]) \subseteq Ids
             /\ q # id => Single(w(q), "player_exploded", id)
             /\ q = id => w(q) = <<>>
  <2>1. CASE q # id
    <3>1. sends'[q] = <<Msg("player_exploded", id)>>
      BY <1>0, <1>3, <2>1 DEF ToOthers
    <3>2. Single(w(q), "player_exploded", id) /\ ReadyIn(sends'[q]) = {}
      BY <1>2, <3>1, SingleWritten DEF Heard
    <3> QED
      BY <2>1, <3>2 DEF Single
  <2>2. CASE q = id
    <3>1. sends'[q] = <<>>
      BY <1>0, <2>2 DEF ToOthers
    <3>2. w(q) = <<>> /\ ReadyIn(sends'[q]) = {}
      BY <1>2, <3>1, NothingWritten
    <3> QED
      BY <2>2, <3>2, EmptySeq
  <2> QED
    BY <2>1, <2>2
<1>5. /\ up' \in [Ids -> Seq({"player_ready", "player_exploded"})]
      /\ Has(up[id], "player_exploded") /\ ~Has(up'[id], "player_exploded")
      /\ \A type : \A q \in Ids : Has(up'[q], type) => Has(up[q], type)
      /\ \A type : \A q \in Ids : AtMostOne(up[q], type) => AtMostOne(up'[q], type)
  <2>1. AtMostOne(up[id], "player_exploded")
    BY <1>1 DEF Asked, Sent
  <2> QED
    BY <1>0, <1>1, <2>1, UpStep
<1>6. /\ ProtocolTypeOK' /\ UNCHANGED client
      /\ \A q \in Ids :
           /\ Coming(q) \in Seq(ClientMessage) /\ Coming(q)' = Coming(q) \o w(q)
           /\ queued[q] \in Seq(ClientMessage) /\ queued'[q] = queued[q] \o w(q)
  BY <1>0, <1>1, <1>4, <1>5, Enqueued
<1>7. ASSUME NEW q \in Ids
      PROVE  /\ w(q) \in Seq(ClientMessage) /\ NoTurn(w(q)) /\ NamedIn(w(q))
             /\ None(w(q), "bonus_map") /\ None(w(q), "round_over")
             /\ q # id => Deaths(w(q)) = {id}
             /\ q = id => Deaths(w(q)) = {}
  <2>1. CASE q # id
    <3>1. /\ NoTurn(w(q)) /\ None(w(q), "bonus_map") /\ None(w(q), "round_over")
          /\ Deaths(w(q)) = {id} /\ \A i \in 1 .. Len(w(q)) : i = 1
      BY <1>4, <2>1, SingleSays DEF Turns
    <3>2. w(q)[1].player_id = id
      BY <1>4, <2>1 DEF Single
    <3> QED
      BY <1>4, <2>1, <3>1, <3>2 DEF NamedIn
  <2>2. CASE q = id
    <3>1. w(q) = <<>> /\ w(q) \in Seq(ClientMessage)
      BY <1>4, <2>2
    <3> HIDE DEF w
    <3> QED
      BY <2>2, <3>1 DEF NoTurn, NamedIn, None, Deaths
  <2> QED
    BY <2>1, <2>2
<1> HIDE DEF w
<1>8. Phases' /\ Stops'
  <2>1. ASSUME NEW q \in Ids, InPhase(client[q], Coming(q), fsm)
        PROVE  InPhase(client[q], Coming(q)', fsm)
    <3>1. Coming(q) \in Seq(ClientMessage) /\ w(q) \in Seq(ClientMessage) /\ NoTurn(w(q))
      BY <1>6, <1>7
    <3>2. InPhase(client[q], Coming(q) \o w(q), fsm)
      BY ONLY <2>1, <3>1, PhaseKept
    <3> QED
      BY <1>6, <3>2
  <2> QED
    BY <1>0, <1>1, <1>6, <2>1 DEF Told, Phases, Stops
<1>9. Named'
  <2>1. ASSUME NEW q \in Ids PROVE NamedIn(Coming(q)')
    <3>1. /\ Coming(q) \in Seq(ClientMessage) /\ w(q) \in Seq(ClientMessage)
          /\ NamedIn(Coming(q)) /\ NamedIn(w(q))
      BY <1>1, <1>6, <1>7 DEF Told, Named
    <3>2. NamedIn(Coming(q) \o w(q))
      BY ONLY <3>1, CatKnows
    <3> QED
      BY <1>6, <3>2
  <2> QED
    BY <2>1 DEF Named
<1>10. Known'
  BY <1>0, <1>3 DEF Known
<1>11. Died'
  <2> SUFFICES ASSUME NEW q \in Ids, client[q].state = "game"
               PROVE  exploded' \ {q} =
                        (client[q].dead \cup client[q].events \cup Deaths(Coming(q)')) \ {q}
    BY <1>6 DEF Died
  <2>1. exploded \ {q} = (client[q].dead \cup client[q].events \cup Deaths(Coming(q))) \ {q}
    BY <1>1 DEF Told, Died
  <2>2. Deaths(Coming(q)') = Deaths(Coming(q)) \cup Deaths(w(q))
    <3>1. Coming(q) \in Seq(ClientMessage) /\ w(q) \in Seq(ClientMessage)
      BY <1>6, <1>7
    <3>2. Deaths(Coming(q) \o w(q)) = Deaths(Coming(q)) \cup Deaths(w(q))
      BY ONLY <3>1, AddedDeaths
    <3> QED
      BY <1>6, <3>2
  <2>3. CASE q = id
    BY <1>0, <1>7, <2>1, <2>2, <2>3
  <2>4. CASE q # id
    BY <1>0, <1>7, <2>1, <2>2, <2>4
  <2> QED
    BY <2>3, <2>4
<1>12. MapsCome'
  <2>1. ASSUME NEW q \in Ids
        PROVE  /\ Stale(Coming(q)', "bonus_map")
               /\ KnowsMap(client[q], Coming(q), maps) => KnowsMap(client[q], Coming(q)', maps)
    <3>1. Stale(Coming(q), "bonus_map")
      BY <1>1 DEF Told, MapsCome
    <3>2. Stale(Coming(q) \o w(q), "bonus_map")
      BY <1>6, <1>7, <3>1, AddedTypes
    <3>3. KnowsMap(client[q], Coming(q), maps) => KnowsMap(client[q], Coming(q) \o w(q), maps)
      BY <1>6, <1>7, CatKnows
    <3> QED
      BY <1>6, <3>2, <3>3
  <2> QED
    BY <1>0, <1>1, <1>2, <1>6, <2>1 DEF Told, MapsCome
<1>13. ScoresCome'
  <2>1. ASSUME NEW q \in Ids, KnowsScores(client[q], Coming(q), ScoreIn(players))
        PROVE  KnowsScores(client[q], Coming(q)', ScoreIn(players))
    <3>1. /\ Coming(q) \in Seq(ClientMessage) /\ w(q) \in Seq(ClientMessage)
          /\ None(w(q), "round_over")
      BY <1>6, <1>7
    <3>2. KnowsScores(client[q], Coming(q) \o w(q), ScoreIn(players))
      BY ONLY <2>1, <3>1, CatKnows
    <3> QED
      BY <1>6, <3>2
  <2> QED
    BY <1>0, <1>1, <1>6, <2>1 DEF Told, ScoresCome
<1>14. Reads'
  BY <1>0, <1>1, <1>5, <1>6 DEF Asked, Reads
<1>15. Sent'
  BY <1>0, <1>1, <1>5, <1>6 DEF Asked, Sent
<1>16. NoneYet'
  BY <1>0, <1>1, <1>5, <1>6 DEF Asked, NoneYet
<1>17. Flushed'
  BY <1>0, <1>1, <1>6, <1>7, Added DEF Flushed
<1> QED
  BY <1>6, <1>8, <1>9, <1>10, <1>11, <1>12, <1>13, <1>14, <1>15, <1>16, <1>17 DEF Told, Asked

\* The end of a round: every client plays it.
LEMMA CloseStep ==
  ASSUME Prompt, PInv, TypeOK', ServerCloseRound
  PROVE  ProtocolTypeOK' /\ Flushed' /\ Told' /\ Asked'
<1>1. ProtocolTypeOK /\ Told /\ Asked /\ Flushed /\ IInv
  BY DEF PInv
<1> DEFINE win == Winner(players)
           w(q) == Written(sends'[q], players', maps')
<1>0. /\ Enqueue /\ UNCHANGED <<up, exploded, pressed>>
      /\ fsm = "round_playing" /\ fsm' = "next_round_waiting" /\ pc' = "update"
      /\ sends' = ToAll(players, <<Msg("round_over", win)>>)
      /\ players' = Reset(Scored(players)) /\ players \in Seq(Player)
  <2>1. CloseRound /\ Enqueue /\ UNCHANGED up
    BY DEF ServerCloseRound
  <2>2. fsm = "round_playing"
    BY <1>1, <2>1 DEF CloseRound, IInv, Hooked, TypeOK, States
  <2> QED
    BY <1>1, <2>1, <2>2 DEF CloseRound, clientVars, IInv, TypeOK
<1>2. players' \in Seq(Player) /\ maps' = maps /\ maps' \in Maps /\ win \in Ids \cup {Nobody}
  BY <1>0, <1>1, ScoredType DEF TypeOK, Enqueue, ProtocolTypeOK
<1>3. IdsIn(players) = Ids /\ IdsIn(players') = Ids
  <2>1. IdsIn(players) = Ids
    BY <1>0, <1>1, EveryoneIn DEF IInv, Hooked
  <2>2. /\ Len(players') = Len(players)
        /\ \A j \in 1 .. Len(players) : players'[j].id = players[j].id
    BY <1>0, CloseEffect
  <2>3. DOMAIN players = 1 .. Len(players) /\ DOMAIN players' = 1 .. Len(players')
    BY <1>0, <1>2
  <2> QED
    BY <2>1, <2>2, <2>3 DEF IdsIn
<1>4. ASSUME NEW q \in Ids
      PROVE  /\ w(q) \in Seq(ClientMessage) /\ ReadyIn(sends'[q]) \subseteq Ids
             /\ Single(w(q), "round_over", win) /\ w(q)[1].scores = ScoreIn(players')
  <2>1. sends'[q] = <<Msg("round_over", win)>>
    BY <1>0, <1>3 DEF ToAll
  <2> HIDE DEF win
  <2>2. /\ Single(w(q), "round_over", win) /\ w(q)[1].scores = ScoreIn(players')
        /\ ReadyIn(sends'[q]) = {}
    BY <1>2, <2>1, SingleWritten DEF Heard
  <2> QED
    BY <2>2 DEF Single
<1> HIDE DEF win
<1>5. /\ ProtocolTypeOK' /\ UNCHANGED client
      /\ \A q \in Ids :
           /\ Coming(q) \in Seq(ClientMessage) /\ Coming(q)' = Coming(q) \o w(q)
  <2>1. up' \in [Ids -> Seq({"player_ready", "player_exploded"})]
    BY <1>0, <1>1 DEF ProtocolTypeOK
  <2> QED
    BY <1>0, <1>1, <1>4, <2>1, Enqueued
<1>6. ASSUME NEW q \in Ids
      PROVE  /\ w(q) \in Seq(ClientMessage) /\ OneTurn(w(q), "round_over") /\ NamedIn(w(q))
             /\ None(w(q), "bonus_map") /\ None(w(q), "player_exploded")
             /\ ~None(w(q), "round_over")
             /\ \A i \in 1 .. Len(w(q)) : w(q)[i].scores = ScoreIn(players')
  <2>1. /\ OneTurn(w(q), "round_over") /\ None(w(q), "bonus_map")
        /\ None(w(q), "player_exploded") /\ \A i \in 1 .. Len(w(q)) : i = 1
    BY <1>4, SingleSays DEF Turns
  <2>2. /\ w(q)[1].type = "round_over" /\ w(q)[1].scores = ScoreIn(players') /\ Len(w(q)) = 1
        /\ 1 \in 1 .. 1 /\ w(q) \in Seq(ClientMessage)
    BY <1>4 DEF Single
  <2> HIDE DEF w
  <2> QED
    BY <2>1, <2>2 DEF NamedIn, None
<1> HIDE DEF w
<1>7. ASSUME NEW q \in Ids, ~client[q].stopped
      PROVE  client[q].state = "game" /\ NoTurn(Coming(q)) /\ client[q].is_round_playing
  <2>1. client[q].state = "game"
    BY <1>3, <1>7 DEF ServerCloseRound, HasStarted
  <2>2. InPhase(client[q], Coming(q), "round_playing")
    BY <1>0, <1>1, <1>7 DEF Told, Phases
  <2> QED
    BY <2>1, <2>2 DEF InPhase
<1>8. Phases'
  <2>1. ASSUME NEW q \in Ids, ~client[q].stopped
        PROVE  InPhase(client[q], Coming(q)', "next_round_waiting")
    <3>1. /\ Coming(q) \in Seq(ClientMessage) /\ w(q) \in Seq(ClientMessage)
          /\ NoTurn(Coming(q)) /\ OneTurn(w(q), "round_over")
      BY <1>5, <1>6, <1>7, <2>1
    <3>2. OneTurn(Coming(q) \o w(q), "round_over")
      BY ONLY <3>1, Added
    <3> QED
      BY <1>5, <1>7, <2>1, <3>2 DEF InPhase
  <2> QED
    BY <1>0, <1>5, <2>1 DEF Phases
<1>9. Named' /\ Stops'
  <2>1. ASSUME NEW q \in Ids PROVE NamedIn(Coming(q)')
    <3>1. /\ Coming(q) \in Seq(ClientMessage) /\ w(q) \in Seq(ClientMessage)
          /\ NamedIn(Coming(q)) /\ NamedIn(w(q))
      BY <1>1, <1>5, <1>6 DEF Told, Named
    <3>2. NamedIn(Coming(q) \o w(q))
      BY ONLY <3>1, CatKnows
    <3> QED
      BY <1>5, <3>2
  <2> QED
    BY <1>1, <1>5, <2>1 DEF Named, Told, Stops
<1>10. Known'
  BY <1>3 DEF Known
<1>11. Died'
  <2>1. ASSUME NEW q \in Ids PROVE Deaths(Coming(q)') = Deaths(Coming(q))
    <3>1. Coming(q) \in Seq(ClientMessage) /\ w(q) \in Seq(ClientMessage) /\ Deaths(w(q)) = {}
      BY <1>5, <1>6, NoDeaths
    <3>2. Deaths(Coming(q) \o w(q)) = Deaths(Coming(q)) \cup Deaths(w(q))
      BY ONLY <3>1, AddedDeaths
    <3> QED
      BY <1>5, <3>1, <3>2
  <2> QED
    BY <1>0, <1>1, <1>5, <2>1 DEF Told, Died
<1>12. MapsCome'
  <2>1. ASSUME NEW q \in Ids PROVE Stale(Coming(q)', "bonus_map")
    <3>1. /\ Coming(q) \in Seq(ClientMessage) /\ w(q) \in Seq(ClientMessage)
          /\ Stale(Coming(q), "bonus_map") /\ None(w(q), "bonus_map")
      BY <1>1, <1>5, <1>6 DEF Told, MapsCome
    <3>2. Stale(Coming(q) \o w(q), "bonus_map")
      BY ONLY <3>1, AddedTypes
    <3> QED
      BY <1>5, <3>2
  <2> QED
    BY <1>0, <2>1 DEF MapsCome
<1>13. ScoresCome'
  <2>1. ASSUME NEW q \in Ids, ~client[q].stopped
        PROVE  KnowsScores(client[q], Coming(q)', ScoreIn(players'))
    <3>0. Coming(q) \in Seq(ClientMessage) /\ w(q) \in Seq(ClientMessage)
      BY <1>5, <1>6
    <3>1. None(Coming(q) \o w(q), "round_over") => FALSE
      <4> SUFFICES ASSUME None(Coming(q) \o w(q), "round_over") PROVE FALSE
        OBVIOUS
      <4>1. PICK i \in 1 .. Len(w(q)) : w(q)[i].type = "round_over"
        BY <1>6 DEF None
      <4>2. /\ (Coming(q) \o w(q))[Len(Coming(q)) + i] = w(q)[i]
            /\ Len(Coming(q) \o w(q)) = Len(Coming(q)) + Len(w(q))
        BY <3>0, CatOf
      <4>3. Len(Coming(q)) + i \in 1 .. Len(Coming(q)) + Len(w(q))
        BY <3>0
      <4> QED
        BY <4>1, <4>2, <4>3 DEF None
    <3>2. ASSUME NEW i \in 1 .. Len(Coming(q) \o w(q)),
                 (Coming(q) \o w(q))[i].type = "round_over"
          PROVE  (Coming(q) \o w(q))[i].scores = ScoreIn(players')
      <4>1. \/ \E j \in 1 .. Len(Coming(q)) : (Coming(q) \o w(q))[i] = Coming(q)[j]
            \/ \E j \in 1 .. Len(w(q)) : (Coming(q) \o w(q))[i] = w(q)[j]
        BY <3>0, CatElement
      <4>2. \A j \in 1 .. Len(Coming(q)) : Coming(q)[j].type # "round_over"
        BY <1>7, <2>1 DEF NoTurn, Turns
      <4> QED
        BY <1>6, <3>2, <4>1, <4>2
    <3> QED
      BY <1>5, <3>1, <3>2 DEF KnowsScores
  <2> QED
    BY <1>5, <2>1 DEF ScoresCome
<1>14. Asked'
  BY <1>0, <1>1, <1>5 DEF Asked, Reads, Sent, NoneYet
<1>15. Flushed'
  BY <1>0 DEF Flushed, Early
<1> QED
  BY <1>5, <1>8, <1>9, <1>10, <1>11, <1>12, <1>13, <1>14, <1>15 DEF Told

\* The beginning of a round: every client is back on the scores, or has been in
\* the lobby all along.
LEMMA OpenStep ==
  ASSUME Prompt, PInv, TypeOK', ServerNextRound \/ ServerGameReady
  PROVE  ProtocolTypeOK' /\ Flushed' /\ Told' /\ Asked'
<1>1. ProtocolTypeOK /\ Told /\ Asked /\ Flushed /\ IInv /\ AllPressed
  BY DEF PInv
<1> DEFINE w(q) == Written(sends'[q], players', maps')
<1>0. PICK before \in {<<>>, <<Msg("game_ready", Nobody)>>} :
      /\ Enqueue /\ UNCHANGED <<up, pressed, players>> /\ exploded' = {}
      /\ fsm # "round_playing" /\ fsm' = "round_playing" /\ pc' \notin Early
      /\ sends' = ToAll(players, before \o <<Msg("bonus_map", Nobody), Msg("round_start", Nobody)>>)
      /\ is_game_ready
  <2>1. CASE ServerNextRound
    <3>1. NextRound /\ Enqueue /\ UNCHANGED up
      BY <2>1 DEF ServerNextRound
    <3>2. fsm = "next_round_waiting" /\ is_game_ready
      BY <1>1, <3>1 DEF NextRound, IInv, Hooked, TypeOK, States
    <3> QED
      BY <3>1, <3>2 DEF NextRound, EnterRoundPlaying, Early
  <2>2. CASE ServerGameReady
    <3>1. GameReady /\ Enqueue /\ UNCHANGED up
      BY <2>2 DEF ServerGameReady
    <3>2. fsm = "game_waiting" /\ is_game_ready
      BY <1>1, <3>1 DEF GameReady, IInv, Hooked
    <3> QED
      BY <3>1, <3>2 DEF GameReady, EnterRoundPlaying, Early
  <2> QED
    BY <2>1, <2>2
<1>2. players' \in Seq(Player) /\ maps' \in Maps /\ IdsIn(players) = Ids /\ IdsIn(players') = Ids
  <2>1. players' \in Seq(Player) /\ maps' \in Maps
    BY <1>0, <1>1 DEF TypeOK, Enqueue, ProtocolTypeOK, Maps, NextMap
  <2>2. IdsIn(players) = Ids
    BY <1>0, <1>1, EveryoneIn
  <2> QED
    BY <1>0, <2>1, <2>2
<1>3. ASSUME NEW q \in Ids
      PROVE  Opening(w(q), maps') /\ ReadyIn(sends'[q]) = {}
  <2>1. sends'[q] = before \o <<Msg("bonus_map", Nobody), Msg("round_start", Nobody)>>
    BY <1>0, <1>2 DEF ToAll
  <2>2. /\ players' \in Seq(Player) /\ maps' \in Maps
        /\ before \in {<<>>, <<Msg("game_ready", Nobody)>>}
    BY <1>0, <1>2
  <2>3. LET out == before \o <<Msg("bonus_map", Nobody), Msg("round_start", Nobody)>>
        IN  Opening(Written(out, players', maps'), maps') /\ ReadyIn(out) = {}
    BY ONLY <2>2, OpeningWritten
  <2> QED
    BY <2>1, <2>3
<1>4. ASSUME NEW q \in Ids
      PROVE  w(q) \in Seq(ClientMessage) /\ ReadyIn(sends'[q]) \subseteq Ids
  BY <1>3 DEF Opening
<1>5. /\ ProtocolTypeOK' /\ UNCHANGED client
      /\ \A q \in Ids :
           /\ Coming(q) \in Seq(ClientMessage) /\ Coming(q)' = Coming(q) \o w(q)
  <2>1. up' \in [Ids -> Seq({"player_ready", "player_exploded"})]
    BY <1>0, <1>1 DEF ProtocolTypeOK
  <2> QED
    BY <1>0, <1>1, <1>4, <2>1, Enqueued
<1> HIDE DEF w
<1>6. ASSUME NEW q \in Ids, ~client[q].stopped
      PROVE  /\ client[q].state \in {"lobby", "score"} /\ NoTurn(Coming(q))
             /\ ~client[q].is_round_playing
  <2>1. InPhase(client[q], Coming(q), fsm)
    BY <1>1, <1>6 DEF Told, Phases
  <2>2. CASE ServerNextRound
    <3>1. client[q].state = "score"
      BY <1>2, <1>6, <2>2 DEF ServerNextRound, HasPaused
    <3> QED
      BY <1>0, <2>1, <3>1 DEF InPhase
  <2>3. CASE ServerGameReady
    <3>1. fsm = "game_waiting"
      BY <2>3 DEF ServerGameReady, GameReady
    <3>2. client[q].state # "connection"
      BY <1>0, <1>1 DEF AllPressed, Asked, Reads
    <3> QED
      BY <2>1, <3>1, <3>2 DEF InPhase
  <2> QED
    BY <2>2, <2>3
<1>7. ASSUME NEW q \in Ids
      PROVE  ~Has(up[q], "player_exploded") /\ client[q].state # "game"
  <2>1. client[q].state # "game"
    BY <1>1, <1>6 DEF Told, Stops
  <2>2. CASE ServerNextRound
    <3>1. CASE client[q].stopped
      BY <1>1, <3>1 DEF Told, Stops, Asked, Sent
    <3>2. CASE ~client[q].stopped
      <4>1. up[q] = <<>>
        BY <1>2, <2>2, <3>2 DEF ServerNextRound, HasPaused
      <4> QED
        BY <2>1, <4>1 DEF Has
    <3> QED
      BY <2>1, <3>1, <3>2
  <2>3. CASE ServerGameReady
    BY <1>1, <2>1, <2>3 DEF ServerGameReady, GameReady, Asked, Sent
  <2> QED
    BY <2>1, <2>2, <2>3
<1>8. ASSUME NEW q \in Ids
      PROVE  /\ ~client[q].stopped => OneTurn(Coming(q)', "round_start")
             /\ Stale(Coming(q)', "bonus_map") /\ Stale(Coming(q)', "player_exploded")
             /\ NamedIn(Coming(q)')
             /\ ~client[q].stopped => KnowsMap(client[q], Coming(q)', maps')
  <2> DEFINE s == Coming(q)
             v == w(q)
  <2>1. s \in Seq(ClientMessage) /\ v \in Seq(ClientMessage) /\ Opening(v, maps')
    BY <1>3, <1>5 DEF Opening, w
  <2>2. Coming(q)' = s \o v
    BY <1>5
  <2>3. ~client[q].stopped => NoTurn(s)
    BY <1>6
  <2>4. NamedIn(s) /\ Stale(s, "bonus_map")
    BY <1>1 DEF Told, Named, MapsCome
  <2> HIDE DEF s, v
  <2>5. NoTurn(s) => OneTurn(s \o v, "round_start")
    BY <2>1, Added DEF Opening
  <2>6. Stale(s \o v, "bonus_map") /\ Stale(s \o v, "player_exploded")
    BY <2>1, AddedTypes DEF Opening
  <2>7. NamedIn(s \o v)
    <3>1. NamedIn(v)
      BY <2>1 DEF Opening, NamedIn, None
    <3> QED
      BY <2>1, <2>4, <3>1, CatKnows
  <2>8. ASSUME NoTurn(s) PROVE KnowsMap(client[q], s \o v, maps')
    <3>1. None(s, "bonus_map")
      BY <2>4, <2>8, StaleNoTurn
    <3>2. ASSUME NEW i \in 1 .. Len(s \o v), (s \o v)[i].type = "bonus_map"
          PROVE  (s \o v)[i].map = maps'
      <4>0. s \in Seq(ClientMessage) /\ v \in Seq(ClientMessage)
        BY <2>1
      <4>1. \A k \in 1 .. Len(s \o v) :
              \/ \E j \in 1 .. Len(s) : (s \o v)[k] = s[j]
              \/ \E j \in 1 .. Len(v) : (s \o v)[k] = v[j]
        BY ONLY <4>0, CatElement
      <4> QED
        BY <2>1, <3>1, <3>2, <4>1 DEF None, Opening
    <3>3. ~None(s \o v, "bonus_map")
      <4> SUFFICES ASSUME None(s \o v, "bonus_map") PROVE FALSE
        OBVIOUS
      <4>1. PICK i \in 1 .. Len(v) : v[i].type = "bonus_map"
        BY <2>1 DEF Opening, None
      <4>2. (s \o v)[Len(s) + i] = v[i] /\ Len(s \o v) = Len(s) + Len(v)
        BY <2>1, CatOf
      <4>3. Len(s) + i \in 1 .. Len(s) + Len(v)
        BY <2>1
      <4> QED
        BY <4>1, <4>2, <4>3 DEF None
    <3> QED
      BY <3>2, <3>3 DEF KnowsMap
  <2> QED
    BY <2>2, <2>3, <2>5, <2>6, <2>7, <2>8
<1>9. Phases' /\ Stops'
  BY <1>0, <1>1, <1>5, <1>6, <1>8 DEF Told, Phases, Stops, InPhase
<1>10. Named' /\ Known'
  BY <1>2, <1>8 DEF Named, Known
<1>11. Died' /\ ScoresCome'
  BY <1>0, <1>5, <1>7 DEF Died, ScoresCome
<1>12. MapsCome'
  BY <1>5, <1>8 DEF MapsCome
<1>13. Reads'
  BY <1>0, <1>1, <1>5 DEF Asked, Reads
<1>14. Sent'
  BY <1>0, <1>1, <1>5, <1>7 DEF Asked, Sent
<1>15. NoneYet'
  BY <1>0, <1>5, <1>7, <1>8 DEF NoneYet
<1>16. Flushed'
  BY <1>0 DEF Flushed
<1> QED
  BY <1>5, <1>9, <1>10, <1>11, <1>12, <1>13, <1>14, <1>15, <1>16 DEF Told, Asked

-----------------------------------------------------------------------------
(* The clients.                                                            *)

\* What is invariant of one client, what is coming to it and what it has sent.
ToldOne(id, c, s) ==
  /\ ~c.stopped => InPhase(c, s, fsm)
  /\ NamedIn(s)
  /\ c.stopped => c.state = "lobby"
  /\ id \notin IdsIn(players) =>
       c.state = "connection" /\ ~c.received_connected /\ ~c.is_connected /\ s = <<>>
  /\ c.state = "game" => exploded \ {id} = (c.dead \cup c.events \cup Deaths(s)) \ {id}
  /\ Stale(s, "bonus_map")
  /\ fsm = "round_playing" /\ ~c.stopped => KnowsMap(c, s, maps)
  /\ fsm = "next_round_waiting" /\ ~c.stopped => KnowsScores(c, s, ScoreIn(players))

AskedOne(id, c, u) ==
  /\ c.is_local_player_ready => c.state # "connection"
  /\ id \in pressed => c.is_local_player_ready
  /\ Has(u, "player_ready") => c.is_local_player_ready /\ id \notin pressed
  /\ AtMostOne(u, "player_ready")
  /\ Has(u, "player_exploded") =>
       /\ fsm # "game_waiting" /\ id \notin exploded
       /\ c.state \in {"game", "score"}
       /\ c.state = "game" => id \in c.dead
  /\ c.state = "game" /\ id \in exploded => id \in c.dead
  /\ AtMostOne(u, "player_exploded")

\* Whether a client is still to enter the round.
Out(c) == ~c.stopped /\ c.state # "game"

LEMMA ToldIs == Told <=> \A q \in Ids : ToldOne(q, client[q], Coming(q))
<1>1. Told => \A q \in Ids : ToldOne(q, client[q], Coming(q))
  BY DEF Told, ToldOne, Named, Phases, Stops, Known, Died, MapsCome, ScoresCome
<1>2. ASSUME \A q \in Ids : ToldOne(q, client[q], Coming(q)) PROVE Told
  <2>1. Named /\ Phases /\ Stops /\ Known
    BY <1>2 DEF ToldOne, Named, Phases, Stops, Known
  <2>2. Died /\ MapsCome /\ ScoresCome
    BY <1>2 DEF ToldOne, Died, MapsCome, ScoresCome
  <2> QED
    BY <2>1, <2>2 DEF Told
<1> QED
  BY <1>1, <1>2

LEMMA AskedIs == Reads /\ Sent <=> \A q \in Ids : AskedOne(q, client[q], up[q])
BY DEF Reads, Sent, AskedOne

\* Only what a client does itself changes what is invariant of it.
LEMMA ClientStep ==
  ASSUME PInv, NEW id \in Ids, NEW d \in Client, client' = [client EXCEPT ![id] = d],
         UNCHANGED <<vars, queued, maps>>,
         up' \in [Ids -> Seq({"player_ready", "player_exploded"})],
         down' \in [Ids -> Seq(ClientMessage)], readies' \in [Ids -> SUBSET Ids],
         \A q \in Ids \ {id} : down'[q] = down[q] /\ up'[q] = up[q],
         ToldOne(id, d, Coming(id)'), AskedOne(id, d, up'[id]),
         fsm = "round_playing" /\ Out(d)
           => Out(client[id]) /\ Stale(Coming(id)', "player_exploded"),
         fsm = "round_playing" /\ Has(up'[id], "player_exploded")
           => \/ Has(up[id], "player_exploded")
              \/ ~Out(d) /\ \A q \in Ids \ {id} : ~Out(client[q])
  PROVE  ProtocolTypeOK' /\ Flushed' /\ Told' /\ Asked'
<1>1. ProtocolTypeOK /\ Flushed /\ Told /\ Asked
  BY DEF PInv
<1>2. client'[id] = d /\ \A q \in Ids \ {id} : client'[q] = client[q]
  BY <1>1 DEF ProtocolTypeOK
<1>3. \A q \in Ids \ {id} : Coming(q)' = Coming(q)
  BY DEF Coming
<1>4. UNCHANGED <<fsm, players, exploded, pressed, pc, queued, maps>>
  BY DEF vars, serverVars, clientVars
<1>5. ProtocolTypeOK'
  BY <1>1, <1>4 DEF ProtocolTypeOK
<1>6. Flushed'
  BY <1>1, <1>4 DEF Flushed
<1>7. \A q \in Ids : ToldOne(q, client'[q], Coming(q)')
  <2>1. \A q \in Ids : ToldOne(q, client[q], Coming(q))
    BY <1>1, ToldIs
  <2>2. ASSUME NEW q \in Ids PROVE ToldOne(q, client'[q], Coming(q)')
    <3>1. CASE q = id
      BY <1>2, <3>1
    <3>2. CASE q # id
      BY <1>2, <1>3, <2>1, <3>2
    <3> QED
      BY <3>1, <3>2
  <2> QED
    BY <2>2
<1>8. Told'
  <2>1. Named' /\ Phases' /\ Stops' /\ Known'
    BY <1>4, <1>7 DEF ToldOne, Named, Phases, Stops, Known
  <2>2. Died' /\ MapsCome' /\ ScoresCome'
    BY <1>4, <1>7 DEF ToldOne, Died, MapsCome, ScoresCome
  <2> QED
    BY <2>1, <2>2 DEF Told
<1>9. \A q \in Ids : AskedOne(q, client'[q], up'[q])
  <2>1. \A q \in Ids : AskedOne(q, client[q], up[q])
    BY <1>1, AskedIs DEF Asked
  <2>2. ASSUME NEW q \in Ids PROVE AskedOne(q, client'[q], up'[q])
    <3>1. CASE q = id
      BY <1>2, <3>1
    <3>2. CASE q # id
      BY <1>2, <2>1, <3>2
    <3> QED
      BY <3>1, <3>2
  <2> QED
    BY <2>2
<1>10. Reads' /\ Sent'
  BY <1>4, <1>9 DEF Reads, Sent, AskedOne
<1>11. NoneYet'
  <2> SUFFICES ASSUME fsm = "round_playing", NEW q \in Ids, Out(client'[q])
               PROVE  /\ exploded = {} /\ \A p \in Ids : ~Has(up'[p], "player_exploded")
                      /\ Stale(Coming(q)', "player_exploded")
    BY <1>4 DEF NoneYet, Out
  <2>1. Out(client[q]) /\ Stale(Coming(q)', "player_exploded")
    <3>1. CASE q = id
      BY <1>2, <3>1
    <3>2. CASE q # id
      BY <1>1, <1>2, <1>3, <3>2 DEF Asked, NoneYet, Out
    <3> QED
      BY <3>1, <3>2
  <2>2. exploded = {} /\ \A p \in Ids : ~Has(up[p], "player_exploded")
    BY <1>1, <2>1 DEF Asked, NoneYet, Out
  <2>3. ASSUME NEW p \in Ids PROVE ~Has(up'[p], "player_exploded")
    <3>1. CASE p # id
      BY <2>2, <3>1
    <3>2. CASE p = id
      <4>1. CASE q = id
        BY <1>2, <2>2, <3>2, <4>1
      <4>2. CASE q # id
        BY <2>1, <2>2, <3>2, <4>2
      <4> QED
        BY <4>1, <4>2
    <3> QED
      BY <3>1, <3>2
  <2> QED
    BY <2>1, <2>2, <2>3
<1> QED
  BY <1>5, <1>6, <1>8, <1>10, <1>11 DEF Asked

\* What is known of a client before its step.
LEMMA ClientIs ==
  ASSUME PInv, NEW id \in Ids
  PROVE  /\ client[id] \in Client /\ Coming(id) \in Seq(ClientMessage)
         /\ up[id] \in Seq({"player_ready", "player_exploded"})
         /\ down[id] \in Seq(ClientMessage) /\ queued[id] \in Seq(ClientMessage)
         /\ ToldOne(id, client[id], Coming(id)) /\ AskedOne(id, client[id], up[id])
         /\ fsm = "round_playing" /\ Out(client[id]) =>
              /\ Stale(Coming(id), "player_exploded") /\ exploded = {}
              /\ \A q \in Ids : ~Has(up[q], "player_exploded")
         /\ fsm \in States /\ exploded \subseteq Ids
<1>1. ProtocolTypeOK /\ Told /\ Asked /\ TypeOK
  BY DEF PInv, IInv
<1>2. down[id] \in Seq(ClientMessage) /\ queued[id] \in Seq(ClientMessage)
  BY <1>1 DEF ProtocolTypeOK
<1>3. Coming(id) \in Seq(ClientMessage)
  BY <1>2 DEF Coming
<1>4. ToldOne(id, client[id], Coming(id)) /\ AskedOne(id, client[id], up[id])
  BY <1>1, ToldIs, AskedIs DEF Asked
<1> QED
  BY <1>1, <1>2, <1>3, <1>4 DEF ProtocolTypeOK, Asked, NoneYet, Out, TypeOK

\* What the invariant says of a client lets aside whether its channels are open.
LEMMA OpenChannelsStep ==
  ASSUME PInv, NEW id \in Ids, OpenChannels(id)
  PROVE  ProtocolTypeOK' /\ Flushed' /\ Told' /\ Asked'
<1> DEFINE c == client[id]
           d == [c EXCEPT !.channels_ready = TRUE]
<1>1. /\ c \in Client /\ ToldOne(id, c, Coming(id)) /\ AskedOne(id, c, up[id])
      /\ fsm = "round_playing" /\ Out(c) => Stale(Coming(id), "player_exploded")
  BY ClientIs
<1>2. d \in Client /\ Out(d) = Out(c) /\ ToldOne(id, d, Coming(id)) /\ AskedOne(id, d, up[id])
  BY <1>1 DEF Client, Out, ToldOne, AskedOne, InPhase, KnowsMap, KnowsScores
<1>3. client' = [client EXCEPT ![id] = d]
  BY DEF OpenChannels
<1>4. UNCHANGED <<vars, channelVars, maps>> /\ Coming(id)' = Coming(id)
  BY DEF OpenChannels, channelVars, Coming
<1> HIDE DEF d
<1>5. /\ up' \in [Ids -> Seq({"player_ready", "player_exploded"})]
      /\ down' \in [Ids -> Seq(ClientMessage)] /\ readies' \in [Ids -> SUBSET Ids]
  BY <1>4 DEF PInv, ProtocolTypeOK, channelVars
<1> QED
  BY <1>1, <1>2, <1>3, <1>4, <1>5, ClientStep DEF channelVars

\* A READY may stop a client in the lobby.
LEMMA ForwardedReadyStep ==
  ASSUME PInv, NEW id \in Ids, NEW player \in Ids,
         ClientReceiveReady(id, player) \/ LoseReady(id, player)
  PROVE  ProtocolTypeOK' /\ Flushed' /\ Told' /\ Asked'
<1> DEFINE c == client[id]
<1>1. /\ c \in Client /\ ToldOne(id, c, Coming(id)) /\ AskedOne(id, c, up[id])
      /\ fsm = "round_playing" /\ Out(c) => Stale(Coming(id), "player_exploded")
  BY ClientIs
<1>0. client \in [Ids -> Client]
  BY DEF PInv, ProtocolTypeOK
<1>2. PICK d \in Client :
        /\ client' = [client EXCEPT ![id] = d] /\ (Out(d) => Out(c))
        /\ ToldOne(id, d, Coming(id)) /\ AskedOne(id, d, up[id])
  <2>1. CASE UNCHANGED client
    <3>1. client' = [client EXCEPT ![id] = c]
      BY <1>0, <2>1
    <3> QED
      BY <1>1, <3>1
  <2>2. CASE ~UNCHANGED client
    <3>1. PICK stops \in BOOLEAN :
            c.state = "lobby" /\ ~c.stopped
            /\ client' = [client EXCEPT ![id] = [c EXCEPT !.stopped = stops]]
      BY <2>2 DEF ClientReceiveReady, LoseReady, MayStop
    <3> DEFINE d == [c EXCEPT !.stopped = stops]
    <3>2. d \in Client /\ (Out(d) => Out(c)) /\ ToldOne(id, d, Coming(id)) /\ AskedOne(id, d, up[id])
      BY <1>1, <3>1 DEF Client, Out, ToldOne, AskedOne, InPhase, KnowsMap, KnowsScores
    <3> QED
      BY <3>1, <3>2
  <2> QED
    BY <2>1, <2>2
<1>4. UNCHANGED <<vars, up, queued, down, maps>> /\ Coming(id)' = Coming(id)
  BY DEF ClientReceiveReady, LoseReady, Coming
<1>5. /\ up' \in [Ids -> Seq({"player_ready", "player_exploded"})]
      /\ down' \in [Ids -> Seq(ClientMessage)] /\ readies' \in [Ids -> SUBSET Ids]
  BY <1>4 DEF PInv, ProtocolTypeOK, ClientReceiveReady, LoseReady
<1> QED
  BY <1>1, <1>2, <1>4, <1>5, ClientStep

\* What a client is after its transition.
LEMMA MovedIs ==
  ASSUME NEW id \in Ids, NEW c \in Client
  PROVE  LET m == Moved(id, c)
         IN  /\ m \in Client /\ m.stopped = c.stopped
             /\ m.received_connected = c.received_connected /\ m.is_connected = c.is_connected
             /\ m.is_round_playing = c.is_round_playing /\ m.scores = c.scores
             /\ m.is_local_player_ready = c.is_local_player_ready
             /\ \/ m = c /\ ~(c.state = "connection" /\ c.is_connected)
                   /\ ~(c.state \in {"lobby", "score"} /\ c.is_round_playing)
                   /\ ~(c.state = "game" /\ ~c.is_round_playing)
                \/ /\ m.state = "lobby" /\ c.state = "connection" /\ c.is_connected
                   /\ m.map = c.map
                \/ /\ m.state = "game" /\ c.state \in {"lobby", "score"} /\ c.is_round_playing
                   /\ m.map = c.map /\ m.dead = {} /\ m.events = {}
                \/ /\ m.state = "score" /\ c.state = "game" /\ ~c.is_round_playing
<1>1. CASE c.state = "connection" /\ c.is_connected
  <2> DEFINE l == (0 .. id) \ c.ready_players
             m == [c EXCEPT !.state = "lobby", !.lobby = l]
  <2>1. Moved(id, c) = m
    BY <1>1 DEF Moved, EnterLobby
  <2>2. l \in SUBSET Ids
    BY ConstantsAssumption DEF Ids
  <2> HIDE DEF l
  <2>3. /\ m \in Client /\ m.stopped = c.stopped /\ m.state = "lobby" /\ m.map = c.map
        /\ m.received_connected = c.received_connected /\ m.is_connected = c.is_connected
        /\ m.is_round_playing = c.is_round_playing /\ m.scores = c.scores
        /\ m.is_local_player_ready = c.is_local_player_ready
    BY <2>2 DEF Client, ClientStates
  <2> QED
    BY <1>1, <2>1, <2>3
<1>2. CASE c.state \in {"lobby", "score"} /\ c.is_round_playing
  <2> DEFINE m == [c EXCEPT !.state = "game", !.lobby = {}, !.saved_map = c.map,
                            !.events = {}, !.dead = {}]
  <2>1. Moved(id, c) = m
    BY <1>2 DEF Moved, EnterGame
  <2>2. /\ m \in Client /\ m.stopped = c.stopped /\ m.state = "game" /\ m.map = c.map
        /\ m.received_connected = c.received_connected /\ m.is_connected = c.is_connected
        /\ m.is_round_playing = c.is_round_playing /\ m.scores = c.scores
        /\ m.is_local_player_ready = c.is_local_player_ready
        /\ m.dead = {} /\ m.events = {}
    BY DEF Client, ClientStates
  <2> QED
    BY <1>2, <2>1, <2>2
<1>3. CASE c.state = "game" /\ ~c.is_round_playing
  <2> DEFINE m == [c EXCEPT !.state = "score", !.map = c.saved_map, !.events = {}, !.dead = {}]
  <2>1. Moved(id, c) = m
    BY <1>3 DEF Moved, LeaveGame
  <2>2. /\ m \in Client /\ m.stopped = c.stopped /\ m.state = "score"
        /\ m.received_connected = c.received_connected /\ m.is_connected = c.is_connected
        /\ m.is_round_playing = c.is_round_playing /\ m.scores = c.scores
        /\ m.is_local_player_ready = c.is_local_player_ready
    BY DEF Client, ClientStates
  <2> QED
    BY <1>3, <2>1, <2>2
<1>4. CASE /\ ~(c.state = "connection" /\ c.is_connected)
           /\ ~(c.state \in {"lobby", "score"} /\ c.is_round_playing)
           /\ ~(c.state = "game" /\ ~c.is_round_playing)
  <2>1. Moved(id, c) = c
    BY <1>4 DEF Moved
  <2> QED
    BY <1>4, <2>1
<1> QED
  BY <1>1, <1>2, <1>3, <1>4

\* A transition keeps what is invariant of a client.
LEMMA MovedKeeps ==
  ASSUME NEW id \in Ids, NEW c \in Client, NEW s, NEW u,
         ToldOne(id, c, s), AskedOne(id, c, u), ~c.stopped,
         fsm = "round_playing" /\ Out(c) =>
           /\ Stale(s, "player_exploded") /\ exploded = {} /\ ~Has(u, "player_exploded")
  PROVE  LET m == Moved(id, c)
         IN  /\ ToldOne(id, m, s) /\ AskedOne(id, m, u)
             /\ fsm = "round_playing" /\ Out(m) => Out(c)
<1> DEFINE m == Moved(id, c)
<1> SUFFICES /\ ToldOne(id, m, s) /\ AskedOne(id, m, u)
             /\ fsm = "round_playing" /\ Out(m) => Out(c)
  OBVIOUS
<1>1. /\ m \in Client /\ m.stopped = c.stopped
      /\ m.received_connected = c.received_connected /\ m.is_connected = c.is_connected
      /\ m.is_round_playing = c.is_round_playing /\ m.scores = c.scores
      /\ m.is_local_player_ready = c.is_local_player_ready
  BY MovedIs
<1>2. \/ m = c
      \/ m.state = "lobby" /\ c.state = "connection" /\ c.is_connected /\ m.map = c.map
      \/ /\ m.state = "game" /\ c.state \in {"lobby", "score"} /\ c.is_round_playing
         /\ m.map = c.map /\ m.dead = {} /\ m.events = {}
      \/ m.state = "score" /\ c.state = "game" /\ ~c.is_round_playing
  BY MovedIs
<1> HIDE DEF m
<1>3. InPhase(c, s, fsm)
  BY DEF ToldOne
<1>4. CASE m = c
  BY <1>4
<1>5. CASE m.state = "lobby" /\ c.state = "connection" /\ c.is_connected /\ m.map = c.map
  <2>1. fsm = "game_waiting" /\ InPhase(m, s, fsm)
    BY <1>1, <1>3, <1>5 DEF InPhase
  <2> QED
    BY <1>1, <1>5, <2>1 DEF ToldOne, AskedOne
<1>6. CASE /\ m.state = "game" /\ c.state \in {"lobby", "score"} /\ c.is_round_playing
           /\ m.map = c.map /\ m.dead = {} /\ m.events = {}
  <2>1. fsm = "round_playing" /\ NoTurn(s) /\ InPhase(m, s, fsm)
    BY <1>1, <1>3, <1>6 DEF InPhase
  <2>2. Out(c)
    BY <1>6 DEF Out
  <2>3. exploded = {} /\ Deaths(s) = {} /\ ~Has(u, "player_exploded")
    BY <2>1, <2>2, StaleNoTurn, NoDeaths
  <2>4. exploded \ {id} = (m.dead \cup m.events \cup Deaths(s)) \ {id}
    BY <1>6, <2>3
  <2>5. KnowsMap(c, s, maps) => KnowsMap(m, s, maps)
    BY <1>6 DEF KnowsMap
  <2>6. ToldOne(id, m, s)
    BY <1>1, <1>6, <2>1, <2>4, <2>5 DEF ToldOne
  <2>7. AskedOne(id, m, u)
    BY <1>1, <1>6, <2>3 DEF AskedOne
  <2> QED
    BY <1>6, <2>6, <2>7 DEF Out
<1>7. CASE m.state = "score" /\ c.state = "game" /\ ~c.is_round_playing
  <2>1. fsm = "next_round_waiting" /\ InPhase(m, s, fsm)
    BY <1>1, <1>3, <1>7 DEF InPhase
  <2>2. KnowsScores(c, s, ScoreIn(players)) => KnowsScores(m, s, ScoreIn(players))
    BY <1>1 DEF KnowsScores
  <2> QED
    BY <1>1, <1>7, <2>1, <2>2 DEF ToldOne, AskedOne
<1> QED
  BY <1>2, <1>4, <1>5, <1>6, <1>7

\* The transition of a client, with what was known of it.
LEMMA UpdateIs ==
  ASSUME PInv, NEW id \in Ids, NEW state, Reaches(id, state)
  PROVE  LET m == Moved(id, client[id])
         IN  /\ m \in Client /\ m.state = state /\ ~m.stopped
             /\ ToldOne(id, m, Coming(id)) /\ AskedOne(id, m, up[id])
             /\ fsm = "round_playing" /\ Out(m) =>
                  Out(client[id]) /\ Stale(Coming(id), "player_exploded")
             /\ UNCHANGED <<vars, queued, down, readies, maps>> /\ Coming(id)' = Coming(id)
             /\ down' \in [Ids -> Seq(ClientMessage)] /\ readies' \in [Ids -> SUBSET Ids]
             /\ up[id] \in Seq({"player_ready", "player_exploded"})
             /\ up \in [Ids -> Seq({"player_ready", "player_exploded"})]
<1> DEFINE c == client[id]
           m == Moved(id, c)
<1>1. /\ c \in Client /\ ToldOne(id, c, Coming(id)) /\ AskedOne(id, c, up[id])
      /\ fsm = "round_playing" /\ Out(c) =>
           /\ Stale(Coming(id), "player_exploded") /\ exploded = {}
           /\ ~Has(up[id], "player_exploded")
      /\ up[id] \in Seq({"player_ready", "player_exploded"})
  BY ClientIs
<1>2. ~c.stopped /\ m.state = state /\ UNCHANGED <<vars, queued, down, readies, maps>>
  BY DEF Reaches
<1>3. m \in Client /\ m.stopped = c.stopped
  BY <1>1, MovedIs
<1>4. /\ ToldOne(id, m, Coming(id)) /\ AskedOne(id, m, up[id])
      /\ fsm = "round_playing" /\ Out(m) => Out(c)
  BY <1>1, <1>2, MovedKeeps
<1>5. Coming(id)' = Coming(id)
  BY <1>2 DEF Coming
<1>6. /\ down' \in [Ids -> Seq(ClientMessage)] /\ readies' \in [Ids -> SUBSET Ids]
      /\ up \in [Ids -> Seq({"player_ready", "player_exploded"})]
  BY <1>2 DEF PInv, ProtocolTypeOK
<1> QED
  BY <1>1, <1>2, <1>3, <1>4, <1>5, <1>6

LEMMA UpdateConnectionStep ==
  ASSUME PInv, NEW id \in Ids, UpdateConnection(id)
  PROVE  ProtocolTypeOK' /\ Flushed' /\ Told' /\ Asked'
<1> DEFINE c == client[id]
           b == c.is_connected \/ (c.channels_ready /\ c.received_connected)
           d == [c EXCEPT !.is_connected = b]
<1>0. Reaches(id, "connection") /\ up' = up
  BY DEF UpdateConnection
<1>1. /\ c \in Client /\ ToldOne(id, c, Coming(id)) /\ AskedOne(id, c, up[id])
      /\ fsm = "round_playing" /\ Out(c) => Stale(Coming(id), "player_exploded")
  BY ClientIs
<1>2. /\ UNCHANGED <<vars, queued, down, readies, maps>> /\ Coming(id)' = Coming(id)
      /\ down' \in [Ids -> Seq(ClientMessage)] /\ readies' \in [Ids -> SUBSET Ids]
      /\ up' \in [Ids -> Seq({"player_ready", "player_exploded"})]
  BY <1>0, UpdateIs
<1>3. b \in BOOLEAN /\ (~c.received_connected /\ ~c.is_connected => ~b)
  BY <1>1 DEF Client
<1>4. client' = [client EXCEPT ![id] = d]
  BY DEF UpdateConnection
<1> HIDE DEF b
<1>5. d \in Client /\ Out(d) = Out(c) /\ ToldOne(id, d, Coming(id)) /\ AskedOne(id, d, up[id])
  BY <1>1, <1>3 DEF Client, Out, ToldOne, AskedOne, InPhase, KnowsMap, KnowsScores
<1> HIDE DEF d
<1> QED
  BY <1>0, <1>1, <1>2, <1>4, <1>5, ClientStep

LEMMA UpdateScoreStep ==
  ASSUME PInv, NEW id \in Ids, UpdateScore(id)
  PROVE  ProtocolTypeOK' /\ Flushed' /\ Told' /\ Asked'
<1> DEFINE m == Moved(id, client[id])
<1>0. Reaches(id, "score") /\ up' = up /\ client' = [client EXCEPT ![id] = m]
  BY DEF UpdateScore
<1>1. /\ m \in Client
      /\ ToldOne(id, m, Coming(id)) /\ AskedOne(id, m, up[id])
      /\ fsm = "round_playing" /\ Out(m) =>
           Out(client[id]) /\ Stale(Coming(id), "player_exploded")
      /\ UNCHANGED <<vars, queued, down, readies, maps>> /\ Coming(id)' = Coming(id)
      /\ down' \in [Ids -> Seq(ClientMessage)] /\ readies' \in [Ids -> SUBSET Ids]
      /\ up' \in [Ids -> Seq({"player_ready", "player_exploded"})]
  BY <1>0, UpdateIs
<1> HIDE DEF m
<1> QED
  BY <1>0, <1>1, ClientStep

LEMMA UpdateLobbyStep ==
  ASSUME PInv, NEW id \in Ids, UpdateLobby(id)
  PROVE  ProtocolTypeOK' /\ Flushed' /\ Told' /\ Asked'
<1> DEFINE m == Moved(id, client[id])
           u == up[id]
           v == Append(u, "player_ready")
<1>0. Reaches(id, "lobby")
  BY DEF UpdateLobby
<1>1. /\ m \in Client /\ m.state = "lobby" /\ ~m.stopped
      /\ ToldOne(id, m, Coming(id)) /\ AskedOne(id, m, u)
      /\ fsm = "round_playing" /\ Out(m) =>
           Out(client[id]) /\ Stale(Coming(id), "player_exploded")
      /\ UNCHANGED <<vars, queued, down, readies, maps>> /\ Coming(id)' = Coming(id)
      /\ down' \in [Ids -> Seq(ClientMessage)] /\ readies' \in [Ids -> SUBSET Ids]
      /\ up \in [Ids -> Seq({"player_ready", "player_exploded"})]
      /\ u \in Seq({"player_ready", "player_exploded"})
  BY <1>0, UpdateIs
<1>2. \/ client' = [client EXCEPT ![id] = m] /\ up' = up
      \/ \E stops \in BOOLEAN :
           /\ ~m.is_local_player_ready
           /\ client' = [client EXCEPT ![id] =
                [m EXCEPT !.stopped = stops, !.is_local_player_ready = ~stops]]
           /\ up' = IF stops THEN up ELSE [up EXCEPT ![id] = v]
  BY DEF UpdateLobby, PressReady, MayStop
<1>3. /\ v \in Seq({"player_ready", "player_exploded"})
      /\ \A type : Has(v, type) => Has(u, type) \/ type = "player_ready"
      /\ \A type : AtMostOne(u, type) /\ (type # "player_ready" \/ ~Has(u, type))
           => AtMostOne(v, type)
  <2>1. u \in Seq({"player_ready", "player_exploded"})
    BY <1>1
  <2> HIDE DEF u
  <2> QED
    BY ONLY <2>1, UpPut
<1> HIDE DEF m, v
<1>4. CASE client' = [client EXCEPT ![id] = m] /\ up' = up
  BY <1>1, <1>4, ClientStep
<1>5. ASSUME NEW stops \in BOOLEAN, ~m.is_local_player_ready,
             client' = [client EXCEPT ![id] =
               [m EXCEPT !.stopped = stops, !.is_local_player_ready = ~stops]],
             up' = IF stops THEN up ELSE [up EXCEPT ![id] = v]
      PROVE  ProtocolTypeOK' /\ Flushed' /\ Told' /\ Asked'
  <2> DEFINE d == [m EXCEPT !.stopped = stops, !.is_local_player_ready = ~stops]
  <2>1. d \in Client /\ ToldOne(id, d, Coming(id)) /\ (Out(d) => Out(m))
    BY <1>1 DEF Client, Out, ToldOne, InPhase, KnowsMap, KnowsScores
  <2>2. d.state = "lobby" /\ d.is_local_player_ready = ~stops
    BY <1>1 DEF Client
  <2>3. id \notin pressed /\ ~Has(u, "player_ready")
    BY <1>1, <1>5 DEF AskedOne
  <2> HIDE DEF d
  <2>4. ~Has(u, "player_exploded") /\ ~Has(v, "player_exploded")
    BY <1>1, <1>3 DEF AskedOne
  <2>5. AskedOne(id, d, v) \/ stops
    BY <1>1, <1>3, <2>2, <2>3, <2>4 DEF AskedOne
  <2>6. AskedOne(id, d, u) \/ ~stops
    BY <1>1, <2>2, <2>3, <2>4 DEF AskedOne
  <2>7. /\ up' \in [Ids -> Seq({"player_ready", "player_exploded"})]
        /\ \A q \in Ids \ {id} : up'[q] = up[q]
        /\ up'[id] = IF stops THEN u ELSE v
    BY <1>1, <1>3, <1>5
  <2>8. AskedOne(id, d, up'[id]) /\ ~Has(up'[id], "player_exploded")
    BY <2>4, <2>5, <2>6, <2>7
  <2>9. client' = [client EXCEPT ![id] = d]
    BY <1>5 DEF d
  <2> QED
    BY <1>1, <2>1, <2>7, <2>8, <2>9, ClientStep
<1> QED
  BY <1>2, <1>4, <1>5

LEMMA UpdateGameStep ==
  ASSUME Prompt, PInv, NEW id \in Ids, UpdateGame(id)
  PROVE  ProtocolTypeOK' /\ Flushed' /\ Told' /\ Asked'
<1> DEFINE m == Moved(id, client[id])
           u == up[id]
           v == Append(u, "player_exploded")
<1>0. Reaches(id, "game")
  BY DEF UpdateGame
<1>1. /\ m \in Client /\ m.state = "game" /\ ~m.stopped
      /\ ToldOne(id, m, Coming(id)) /\ AskedOne(id, m, u)
      /\ UNCHANGED <<vars, queued, down, readies, maps>> /\ Coming(id)' = Coming(id)
      /\ down' \in [Ids -> Seq(ClientMessage)] /\ readies' \in [Ids -> SUBSET Ids]
      /\ up \in [Ids -> Seq({"player_ready", "player_exploded"})]
      /\ u \in Seq({"player_ready", "player_exploded"})
  BY <1>0, UpdateIs
<1>2. PICK hit \in {{}, {id}} :
        /\ hit # {} => \A p \in IdsIn(players) : HasStarted(p)
        /\ client' = [client EXCEPT ![id] =
             [m EXCEPT !.dead = m.dead \cup m.events \cup hit, !.events = {}]]
        /\ up' = IF hit \subseteq m.dead THEN up ELSE [up EXCEPT ![id] = v]
  <2>1. \E hit \in {{}, {id}} :
        /\ Prompt /\ hit # {} => \A p \in IdsIn(players) : HasStarted(p)
        /\ client' = [client EXCEPT ![id] =
             [m EXCEPT !.dead = @ \cup m.events \cup hit, !.events = {}]]
        /\ up' = IF hit \subseteq m.dead THEN up ELSE [up EXCEPT ![id] = v]
    BY DEF UpdateGame
  <2> HIDE DEF m, v
  <2> QED
    BY <2>1
<1>3. /\ v \in Seq({"player_ready", "player_exploded"})
      /\ \A type : Has(v, type) => Has(u, type) \/ type = "player_exploded"
      /\ \A type : AtMostOne(u, type) /\ (type # "player_exploded" \/ ~Has(u, type))
           => AtMostOne(v, type)
  <2>1. u \in Seq({"player_ready", "player_exploded"})
    BY <1>1
  <2> HIDE DEF u
  <2> QED
    BY ONLY <2>1, UpPut
<1> HIDE DEF m, v
<1> DEFINE dead == m.dead \cup m.events \cup hit
           d == [m EXCEPT !.dead = dead, !.events = {}]
<1>4. dead \in SUBSET Ids
  BY <1>1 DEF Client
<1>5. m.dead \subseteq dead /\ dead \ {id} = (m.dead \cup m.events) \ {id} /\ hit \subseteq dead
  BY <1>2
<1> HIDE DEF dead
<1>6. /\ d \in Client /\ d.dead = dead /\ d.events = {} /\ d.state = "game" /\ ~d.stopped
      /\ d.is_round_playing = m.is_round_playing /\ d.map = m.map /\ d.scores = m.scores
      /\ d.is_local_player_ready = m.is_local_player_ready
  BY <1>1, <1>4 DEF Client
<1>7. client' = [client EXCEPT ![id] = d]
  BY <1>2 DEF dead
<1> HIDE DEF d
<1>8. fsm # "game_waiting"
  BY <1>1 DEF ToldOne, InPhase
<1>9. ToldOne(id, d, Coming(id))
  <2>1. InPhase(d, Coming(id), fsm)
    BY <1>1, <1>6 DEF ToldOne, InPhase
  <2>2. exploded \ {id} = (d.dead \cup d.events \cup Deaths(Coming(id))) \ {id}
    <3>1. exploded \ {id} = (m.dead \cup m.events \cup Deaths(Coming(id))) \ {id}
      BY <1>1 DEF ToldOne
    <3> QED
      BY <1>5, <1>6, <3>1
  <2> QED
    BY <1>1, <1>6, <2>1, <2>2 DEF ToldOne, KnowsMap, KnowsScores
<1>10. AskedOne(id, d, u)
  BY <1>1, <1>5, <1>6 DEF AskedOne
<1>11. CASE hit \subseteq m.dead
  <2>1. up' = up
    BY <1>2, <1>11
  <2> QED
    BY <1>1, <1>6, <1>7, <1>9, <1>10, <2>1, ClientStep DEF Out
<1>12. CASE ~(hit \subseteq m.dead)
  <2>1. up' = [up EXCEPT ![id] = v] /\ id \notin m.dead /\ id \in dead
        /\ \A p \in IdsIn(players) : HasStarted(p)
    BY <1>2, <1>5, <1>12
  <2>2. id \notin exploded /\ ~Has(u, "player_exploded")
    BY <1>1, <2>1 DEF AskedOne
  <2>3. \A q \in Ids : ~Out(client[q])
    <3>1. IdsIn(players) = Ids
      BY <1>8, EveryoneIn DEF PInv, IInv, Hooked
    <3> QED
      BY <2>1, <3>1 DEF HasStarted, Out
  <2>4. AskedOne(id, d, v)
    BY <1>3, <1>6, <1>8, <1>10, <2>1, <2>2 DEF AskedOne
  <2>5. /\ up' \in [Ids -> Seq({"player_ready", "player_exploded"})]
        /\ \A q \in Ids \ {id} : up'[q] = up[q]
        /\ up'[id] = v
    BY <1>1, <1>3, <2>1
  <2>6. ~Out(d)
    BY <1>6 DEF Out
  <2> QED
    BY <1>1, <1>6, <1>7, <1>9, <2>3, <2>4, <2>5, <2>6, ClientStep
<1> QED
  BY <1>11, <1>12

-----------------------------------------------------------------------------
(* A client handles the message that came in first.                        *)

LEMMA KnowsTaken ==
  ASSUME NEW M, NEW s \in Seq(M), s # <<>>, NEW c
  PROVE  /\ NamedIn(s) =>
              /\ NamedIn(Tail(s))
              /\ Head(s).type \in {"player_connected", "player_exploded"}
                   => Head(s).player_id \in Ids
         /\ \A map : KnowsMap(c, s, map) =>
              /\ Head(s).type # "bonus_map" => KnowsMap(c, Tail(s), map)
              /\ Head(s).type = "bonus_map" =>
                   Head(s).map = map /\ \A e : e.map = map => KnowsMap(e, Tail(s), map)
         /\ \A scores : KnowsScores(c, s, scores) =>
              /\ Head(s).type # "round_over" => KnowsScores(c, Tail(s), scores)
              /\ Head(s).type = "round_over" =>
                   /\ Head(s).scores = scores
                   /\ \A e : e.scores = scores => KnowsScores(e, Tail(s), scores)
<1> DEFINE t == Tail(s)
<1>1. /\ \A i \in 1 .. Len(t) : i + 1 \in 1 .. Len(s) /\ t[i] = s[i + 1]
      /\ Head(s) = s[1] /\ 1 \in 1 .. Len(s)
  BY TakenTypes
<1>2. \A type : None(t, type) /\ Head(s).type # type => None(s, type)
  BY TakenTypes
<1> HIDE DEF t
<1>3. NamedIn(s) => /\ NamedIn(t)
                    /\ Head(s).type \in {"player_connected", "player_exploded"}
                         => Head(s).player_id \in Ids
  BY <1>1 DEF NamedIn
<1>4. ASSUME NEW map, KnowsMap(c, s, map)
      PROVE  /\ Head(s).type # "bonus_map" => KnowsMap(c, t, map)
             /\ Head(s).type = "bonus_map" =>
                  Head(s).map = map /\ \A e : e.map = map => KnowsMap(e, t, map)
  BY <1>1, <1>2, <1>4 DEF KnowsMap
<1>5. ASSUME NEW scores, KnowsScores(c, s, scores)
      PROVE  /\ Head(s).type # "round_over" => KnowsScores(c, t, scores)
             /\ Head(s).type = "round_over" =>
                  Head(s).scores = scores /\ \A e : e.scores = scores => KnowsScores(e, t, scores)
  BY <1>1, <1>2, <1>5 DEF KnowsScores
<1> QED
  BY <1>3, <1>4, <1>5 DEF t

LEMMA PhaseTaken ==
  ASSUME NEW M, NEW s \in Seq(M), s # <<>>, NEW c, NEW stage, InPhase(c, s, stage)
  PROVE  /\ Head(s).type \notin Turns => InPhase(c, Tail(s), stage)
         /\ Head(s).type = "round_start" =>
              /\ stage = "round_playing" /\ NoTurn(Tail(s))
              /\ c.state \in {"lobby", "score"} /\ ~c.is_round_playing
         /\ Head(s).type = "round_over" =>
              /\ stage = "next_round_waiting" /\ NoTurn(Tail(s))
              /\ c.state = "game" /\ c.is_round_playing
<1>1. /\ NoTurn(s) => NoTurn(Tail(s)) /\ Head(s).type \notin Turns
      /\ \A turn \in Turns : OneTurn(s, turn) /\ Head(s).type \notin Turns => OneTurn(Tail(s), turn)
      /\ \A turn : OneTurn(s, turn) /\ Head(s).type \in Turns
           => Head(s).type = turn /\ NoTurn(Tail(s))
  BY Taken
<1>2. "round_start" \in Turns /\ "round_over" \in Turns
  BY DEF Turns
<1> QED
  BY <1>1, <1>2 DEF InPhase

\* What a client is after a message.
LEMMA HandledIs ==
  ASSUME NEW id \in Ids, NEW c \in Client, NEW m \in ClientMessage,
         m.type \in {"player_connected", "player_exploded"} => m.player_id \in Ids
  PROVE  LET d == Handled(id, c, m)
         IN  /\ d \in Client /\ d.state = c.state /\ d.stopped = c.stopped /\ d.dead = c.dead
             /\ d.is_local_player_ready = c.is_local_player_ready
             /\ d.is_connected = c.is_connected
             /\ d.map = IF m.type = "bonus_map" THEN m.map ELSE c.map
             /\ d.events = c.events \cup
                  IF c.state = "game" /\ m.type = "player_exploded" THEN {m.player_id} ELSE {}
             /\ d.is_round_playing =
                  IF c.state \in {"lobby", "score"} /\ m.type = "round_start" THEN TRUE
                  ELSE IF c.state = "game" /\ m.type = "round_over" THEN FALSE
                  ELSE c.is_round_playing
             /\ d.scores =
                  IF c.state = "game" /\ m.type = "round_over" THEN m.scores ELSE c.scores
<1>1. m.ready \in SUBSET Ids /\ m.scores \in [Ids -> Nat] /\ m.map \in Maps
  BY DEF ClientMessage
<1>2. CASE m.type = "bonus_map"
  <2>1. Handled(id, c, m) = [c EXCEPT !.map = m.map]
    BY <1>2 DEF Handled
  <2> QED
    BY <1>1, <1>2, <2>1 DEF Client
<1>3. CASE m.type # "bonus_map" /\ c.state = "connection"
  <2>1. Handled(id, c, m) = InConnection(id, c, m)
    BY <1>3 DEF Handled
  <2>2. CASE m.type = "player_connected" /\ m.player_id = id
    <3>1. Handled(id, c, m) = [c EXCEPT !.received_connected = TRUE, !.ready_players = m.ready]
      BY <2>1, <2>2 DEF InConnection
    <3> QED
      BY <1>1, <1>3, <2>2, <3>1 DEF Client
  <2>3. CASE ~(m.type = "player_connected" /\ m.player_id = id)
    <3>1. Handled(id, c, m) = c
      BY <2>1, <2>3 DEF InConnection
    <3> QED
      BY <1>3, <3>1
  <2> QED
    BY <2>2, <2>3
<1>4. CASE m.type # "bonus_map" /\ c.state = "lobby"
  <2>1. Handled(id, c, m) = InLobby(c, m)
    BY <1>4 DEF Handled
  <2>2. CASE m.type = "player_connected"
    <3>1. Handled(id, c, m) = [c EXCEPT !.lobby = c.lobby \cup {m.player_id}]
      BY <2>1, <2>2 DEF InLobby
    <3>2. c.lobby \cup {m.player_id} \in SUBSET Ids
      BY <2>2 DEF Client
    <3> QED
      BY <1>1, <1>4, <2>2, <3>1, <3>2 DEF Client
  <2>3. CASE m.type = "round_start"
    <3>1. Handled(id, c, m) = [c EXCEPT !.is_round_playing = TRUE]
      BY <2>1, <2>3 DEF InLobby
    <3> QED
      BY <1>4, <2>3, <3>1 DEF Client
  <2>4. CASE m.type \notin {"player_connected", "round_start"}
    <3>1. Handled(id, c, m) = c
      BY <2>1, <2>4 DEF InLobby
    <3> QED
      BY <1>4, <2>4, <3>1
  <2> QED
    BY <2>2, <2>3, <2>4
<1>5. CASE m.type # "bonus_map" /\ c.state = "game"
  <2>1. Handled(id, c, m) = InGame(c, m)
    BY <1>5 DEF Handled
  <2>2. CASE m.type = "round_over"
    <3>1. Handled(id, c, m) = [c EXCEPT !.is_round_playing = FALSE, !.scores = m.scores]
      BY <2>1, <2>2 DEF InGame, UpdateScores
    <3> QED
      BY <1>1, <1>5, <2>2, <3>1 DEF Client
  <2>3. CASE m.type = "player_exploded"
    <3>1. Handled(id, c, m) = [c EXCEPT !.events = c.events \cup {m.player_id}]
      BY <2>1, <2>3 DEF InGame
    <3>2. c.events \cup {m.player_id} \in SUBSET Ids
      BY <2>3 DEF Client
    <3> QED
      BY <1>5, <2>3, <3>1, <3>2 DEF Client
  <2>4. CASE m.type \notin {"round_over", "player_exploded"}
    <3>1. Handled(id, c, m) = c
      BY <2>1, <2>4 DEF InGame
    <3> QED
      BY <1>5, <2>4, <3>1
  <2> QED
    BY <2>2, <2>3, <2>4
<1>6. CASE m.type # "bonus_map" /\ c.state = "score"
  <2>1. Handled(id, c, m) = InScore(c, m)
    BY <1>6 DEF Handled
  <2>2. CASE m.type = "round_start"
    <3>1. Handled(id, c, m) = [c EXCEPT !.is_round_playing = TRUE]
      BY <2>1, <2>2 DEF InScore
    <3> QED
      BY <1>6, <2>2, <3>1 DEF Client
  <2>3. CASE m.type # "round_start"
    <3>1. Handled(id, c, m) = c
      BY <2>1, <2>3 DEF InScore
    <3> QED
      BY <1>6, <2>3, <3>1
  <2> QED
    BY <2>2, <2>3
<1> QED
  BY <1>2, <1>3, <1>4, <1>5, <1>6 DEF Client, ClientStates

LEMMA ReceiveStep ==
  ASSUME PInv, NEW id \in Ids, ClientReceive(id)
  PROVE  ProtocolTypeOK' /\ Flushed' /\ Told' /\ Asked'
<1> DEFINE c == client[id]
           s == Coming(id)
           t == Tail(s)
           h == Head(s)
           d == Handled(id, c, h)
<1>1. /\ c \in Client /\ ToldOne(id, c, s) /\ AskedOne(id, c, up[id])
      /\ s \in Seq(ClientMessage) /\ down[id] \in Seq(ClientMessage)
      /\ queued[id] \in Seq(ClientMessage)
      /\ fsm = "round_playing" /\ Out(c) => Stale(s, "player_exploded")
  BY ClientIs
<1>2. s # <<>> /\ Tail(down[id]) \o queued[id] = t /\ Head(down[id]) = h /\ ~c.stopped
  <2>1. down[id] # <<>> /\ ~c.stopped
    BY DEF ClientReceive
  <2>2. /\ down[id] \o queued[id] # <<>>
        /\ Tail(down[id]) \o queued[id] = Tail(down[id] \o queued[id])
        /\ Head(down[id]) = Head(down[id] \o queued[id])
    BY <1>1, <2>1, TailCat
  <2> QED
    BY <2>1, <2>2 DEF Coming
<1>3. /\ UNCHANGED <<vars, up, queued, readies, maps>>
      /\ client' = [client EXCEPT ![id] = d]
      /\ down' = [down EXCEPT ![id] = Tail(down[id])]
  BY <1>2 DEF ClientReceive
<1>4. /\ down \in [Ids -> Seq(ClientMessage)]
      /\ up' \in [Ids -> Seq({"player_ready", "player_exploded"})]
      /\ readies' \in [Ids -> SUBSET Ids]
  BY <1>3 DEF PInv, ProtocolTypeOK
<1>5. down' \in [Ids -> Seq(ClientMessage)] /\ down'[id] = Tail(down[id])
      /\ \A q \in Ids \ {id} : down'[q] = down[q]
  <2>1. Tail(down[id]) \in Seq(ClientMessage)
    BY <1>1 DEF ClientReceive
  <2> QED
    BY <1>3, <1>4, <2>1
<1>6. Coming(id)' = t
  BY <1>2, <1>3, <1>5 DEF Coming
<1>7. /\ h \in ClientMessage
      /\ h.type \in {"player_connected", "player_exploded"} => h.player_id \in Ids
      /\ NamedIn(t)
  <2>1. h \in ClientMessage
    BY <1>1, <1>2
  <2>2. NamedIn(s)
    BY <1>1 DEF ToldOne
  <2> QED
    BY <1>1, <1>2, <2>1, <2>2, KnowsTaken
<1>8. /\ d \in Client /\ d.state = c.state /\ d.stopped = c.stopped /\ d.dead = c.dead
      /\ d.is_local_player_ready = c.is_local_player_ready
      /\ d.is_connected = c.is_connected
      /\ d.map = IF h.type = "bonus_map" THEN h.map ELSE c.map
      /\ d.events = c.events \cup
           IF c.state = "game" /\ h.type = "player_exploded" THEN {h.player_id} ELSE {}
      /\ d.is_round_playing =
           IF c.state \in {"lobby", "score"} /\ h.type = "round_start" THEN TRUE
           ELSE IF c.state = "game" /\ h.type = "round_over" THEN FALSE
           ELSE c.is_round_playing
      /\ d.scores = IF c.state = "game" /\ h.type = "round_over" THEN h.scores ELSE c.scores
  BY <1>1, <1>7, HandledIs
<1>9. InPhase(c, s, fsm)
  BY <1>1, <1>2 DEF ToldOne
<1>10. /\ h.type \notin Turns => InPhase(c, t, fsm)
       /\ h.type = "round_start" =>
            /\ fsm = "round_playing" /\ NoTurn(t)
            /\ c.state \in {"lobby", "score"} /\ ~c.is_round_playing
       /\ h.type = "round_over" =>
            /\ fsm = "next_round_waiting" /\ NoTurn(t)
            /\ c.state = "game" /\ c.is_round_playing
  BY <1>1, <1>2, <1>9, PhaseTaken
<1>11. /\ Stale(s, "bonus_map") => Stale(t, "bonus_map")
       /\ Stale(s, "player_exploded") => Stale(t, "player_exploded")
  BY <1>1, <1>2, TakenTypes
<1>12. Deaths(s) = Deaths(t) \cup
         IF h.type = "player_exploded" THEN {h.player_id} ELSE {}
  BY <1>1, <1>2, TakenDeaths
<1>13. \A map : KnowsMap(c, s, map) =>
         /\ h.type # "bonus_map" => KnowsMap(c, t, map)
         /\ h.type = "bonus_map" =>
              h.map = map /\ \A e : e.map = map => KnowsMap(e, t, map)
  BY <1>1, <1>2, KnowsTaken
<1>14. \A scores : KnowsScores(c, s, scores) =>
         /\ h.type # "round_over" => KnowsScores(c, t, scores)
         /\ h.type = "round_over" =>
              h.scores = scores /\ \A e : e.scores = scores => KnowsScores(e, t, scores)
  BY <1>1, <1>2, KnowsTaken
<1> HIDE DEF d, t, h
<1>15. InPhase(d, t, fsm)
  <2>1. CASE h.type \notin Turns
    <3>1. d.is_round_playing = c.is_round_playing
      BY <1>8, <2>1 DEF Turns
    <3> QED
      BY <1>8, <1>10, <2>1, <3>1 DEF InPhase
  <2>2. CASE h.type = "round_start"
    BY <1>8, <1>10, <2>2 DEF InPhase
  <2>3. CASE h.type = "round_over"
    BY <1>8, <1>10, <2>3 DEF InPhase
  <2> QED
    BY <2>1, <2>2, <2>3 DEF Turns
<1>16. d.state = "game" =>
         exploded \ {id} = (d.dead \cup d.events \cup Deaths(t)) \ {id}
  <2> SUFFICES ASSUME c.state = "game"
               PROVE  exploded \ {id} = (d.dead \cup d.events \cup Deaths(t)) \ {id}
    BY <1>8
  <2>1. exploded \ {id} = (c.dead \cup c.events \cup Deaths(s)) \ {id}
    BY <1>1 DEF ToldOne
  <2>2. CASE h.type = "player_exploded"
    BY <1>8, <1>12, <2>1, <2>2
  <2>3. CASE h.type # "player_exploded"
    <3>1. d.events = c.events /\ d.dead = c.dead /\ Deaths(t) = Deaths(s)
      BY <1>8, <1>12, <2>3
    <3> QED
      BY <2>1, <3>1
  <2> QED
    BY <2>2, <2>3
<1>17. fsm = "round_playing" => KnowsMap(d, t, maps)
  <2> SUFFICES ASSUME fsm = "round_playing" PROVE KnowsMap(d, t, maps)
    OBVIOUS
  <2>1. KnowsMap(c, s, maps)
    BY <1>1, <1>2 DEF ToldOne
  <2>2. CASE h.type = "bonus_map"
    BY <1>8, <1>13, <2>1, <2>2
  <2>3. CASE h.type # "bonus_map"
    BY <1>8, <1>13, <2>1, <2>3 DEF KnowsMap
  <2> QED
    BY <2>2, <2>3
<1>18. fsm = "next_round_waiting" => KnowsScores(d, t, ScoreIn(players))
  <2> SUFFICES ASSUME fsm = "next_round_waiting" PROVE KnowsScores(d, t, ScoreIn(players))
    OBVIOUS
  <2>1. KnowsScores(c, s, ScoreIn(players))
    BY <1>1, <1>2 DEF ToldOne
  <2>2. CASE h.type = "round_over"
    <3>1. d.scores = h.scores
      BY <1>8, <1>10, <2>2
    <3> QED
      BY <1>14, <2>1, <2>2, <3>1
  <2>3. CASE h.type # "round_over"
    <3>1. d.scores = c.scores
      BY <1>8, <2>3
    <3> QED
      BY <1>14, <2>1, <2>3, <3>1 DEF KnowsScores
  <2> QED
    BY <2>2, <2>3
<1>19. ToldOne(id, d, t)
  <2>1. id \in IdsIn(players) /\ Stale(t, "bonus_map")
    BY <1>1, <1>2, <1>11 DEF ToldOne
  <2>2. d.stopped => d.state = "lobby"
    BY <1>2, <1>8
  <2> QED
    BY <1>7, <1>15, <1>16, <1>17, <1>18, <2>1, <2>2 DEF ToldOne
<1>20. AskedOne(id, d, up[id])
  BY <1>1, <1>8 DEF AskedOne
<1>21. fsm = "round_playing" /\ Out(d) => Out(c) /\ Stale(t, "player_exploded")
  BY <1>1, <1>8, <1>11 DEF Out
<1> QED
  BY <1>3, <1>4, <1>5, <1>6, <1>8, <1>19, <1>20, <1>21, ClientStep

-----------------------------------------------------------------------------
(* The invariant holds.                                                    *)

LEMMA PInvInit ==
  ASSUME InitProtocol
  PROVE  PInv
<1>1. Init
  BY DEF InitProtocol
<1>2. IInv
  <2>1. TypeOK
    BY <1>1, TypeInit
  <2> QED
    BY <1>1, <2>1, ConstantsAssumption DEF Init, IInv, Arrival, Hooked, AllHere, LobbyAlive,
      Survivors, Consumed, DeadKnown
<1>3. NoScores \in [Ids -> Nat]
  BY DEF NoScores
<1>4. InitClient \in Client
  BY <1>3 DEF InitClient, Client, ClientStates, Maps
<1>5. /\ InitClient.state = "connection" /\ ~InitClient.stopped /\ ~InitClient.is_round_playing
      /\ ~InitClient.received_connected /\ ~InitClient.is_connected
      /\ ~InitClient.is_local_player_ready
  BY DEF InitClient
<1>6. <<>> \in Seq(ClientMessage) /\ <<>> \in Seq({"player_ready", "player_exploded"})
      /\ Len(<<>>) = 0 /\ 1 .. 0 = {}
  <2>1. \A M : <<>> \in Seq(M)
    BY EmptySeq
  <2> QED
    BY <2>1
<1>7. ProtocolTypeOK
  <2>1. client \in [Ids -> Client]
    BY <1>4 DEF InitProtocol
  <2>2. /\ up \in [Ids -> Seq({"player_ready", "player_exploded"})]
        /\ queued \in [Ids -> Seq(ClientMessage)] /\ down \in [Ids -> Seq(ClientMessage)]
    BY <1>6 DEF InitProtocol
  <2> QED
    BY <2>1, <2>2 DEF InitProtocol, ProtocolTypeOK, Maps
<1>8. \A q \in Ids : client[q] = InitClient /\ up[q] = <<>> /\ queued[q] = <<>>
                     /\ Coming(q) = <<>>
  BY DEF InitProtocol, Coming
<1>9. /\ fsm = "game_waiting" /\ pressed = {} /\ exploded = {} /\ players = <<>> /\ ~is_game_ready
  BY <1>1 DEF Init
<1>10. ReadyPressed /\ AllPressed
  BY <1>6, <1>9 DEF ReadyPressed, AllPressed
<1>11. NoTurn(<<>>) /\ NamedIn(<<>>) /\ Stale(<<>>, "bonus_map")
  BY <1>6 DEF NoTurn, NamedIn, Stale
<1>12. \A type : ~Has(<<>>, type) /\ AtMostOne(<<>>, type)
  BY <1>6 DEF Has, AtMostOne
<1>13. Flushed
  BY <1>8, <1>11 DEF Flushed
<1>14. Told
  <2>1. \A q \in Ids : ToldOne(q, client[q], Coming(q))
    BY <1>5, <1>8, <1>9, <1>11 DEF ToldOne, InPhase
  <2> QED
    BY <2>1, ToldIs
<1>15. Asked
  <2>1. \A q \in Ids : AskedOne(q, client[q], up[q])
    BY <1>5, <1>8, <1>9, <1>12 DEF AskedOne
  <2> QED
    BY <1>9, <2>1, AskedIs DEF Asked, NoneYet
<1> QED
  BY <1>2, <1>7, <1>10, <1>13, <1>14, <1>15 DEF PInv

\* The invariant says what is on its way to the server.
LEMMA SendAsAssumed ==
  ASSUME PInv
  PROVE  ClientsSendAsAssumed
<1> SUFFICES ASSUME NEW id \in Ids, up[id] # <<>>
             PROVE  \/ Head(up[id]) = "player_ready" /\ id \in IdsIn(players) \ pressed
                    \/ Head(up[id]) = "player_exploded" /\ Plays(id) /\ id \notin exploded
  BY DEF ClientsSendAsAssumed
<1>1. /\ up[id] \in Seq({"player_ready", "player_exploded"})
      /\ ToldOne(id, client[id], Coming(id)) /\ AskedOne(id, client[id], up[id])
  BY ClientIs
<1>2. Has(up[id], Head(up[id])) /\ Head(up[id]) \in {"player_ready", "player_exploded"}
  BY <1>1, UpTaken
<1>3. client[id].state # "connection" => id \in IdsIn(players)
  BY <1>1 DEF ToldOne
<1> QED
  BY <1>1, <1>2, <1>3 DEF AskedOne, Plays

\* What the invariant says of the channels and the clients, step by step.
LEMMA ProtocolStep ==
  ASSUME Prompt, PInv, TypeOK', [Next]_vars, [NextProtocol]_allVars
  PROVE  ProtocolTypeOK' /\ Flushed' /\ Told' /\ Asked'
<1>1. CASE ServerTick
  BY <1>1, SpawnStep, QuietStep
<1>2. CASE ServerGameReady \/ ServerNextRound
  BY <1>2, OpenStep
<1>3. CASE ServerFlush \/ ServerAbort
  BY <1>3, FlushStep
<1>4. CASE ServerCloseRound
  BY <1>4, CloseStep
<1>5. ASSUME NEW id \in Ids, ServerSessionReady(id)
      PROVE  ProtocolTypeOK' /\ Flushed' /\ Told' /\ Asked'
  BY <1>5, QuietStep
<1>6. ASSUME NEW id \in Ids, ServerReceive(id)
      PROVE  ProtocolTypeOK' /\ Flushed' /\ Told' /\ Asked'
  <2>1. ClientReadies(id) \/ ClientExplodes(id)
    BY <1>6, SendAsAssumed, Received
  <2> QED
    BY <1>6, <2>1, ReceiveReadyStep, ReceiveExplodedStep
<1>7. ASSUME NEW id \in Ids, ClientReceive(id) \/ OpenChannels(id)
      PROVE  ProtocolTypeOK' /\ Flushed' /\ Told' /\ Asked'
  BY <1>7, ReceiveStep, OpenChannelsStep
<1>8. ASSUME NEW id \in Ids, Update(id)
      PROVE  ProtocolTypeOK' /\ Flushed' /\ Told' /\ Asked'
  BY <1>8, UpdateConnectionStep, UpdateLobbyStep, UpdateGameStep, UpdateScoreStep DEF Update
<1>9. ASSUME NEW id \in Ids, NEW player \in Ids,
             ClientReceiveReady(id, player) \/ LoseReady(id, player)
      PROVE  ProtocolTypeOK' /\ Flushed' /\ Told' /\ Asked'
  BY <1>9, ForwardedReadyStep
<1>10. CASE UNCHANGED allVars
  <2>1. UNCHANGED <<vars, client, up, queued, down, readies, maps>>
    BY <1>10 DEF allVars, protocolVars
  <2>2. /\ UNCHANGED <<fsm, exploded, pressed, players, pc>>
        /\ \A q \in Ids : Coming(q)' = Coming(q)
    BY <2>1 DEF vars, serverVars, clientVars, Coming
  <2>3. Told'
    BY <2>1, <2>2, ToldKept DEF PInv
  <2>4. Asked'
    BY <2>1, <2>2, AskedKept DEF PInv
  <2> QED
    BY <2>1, <2>2, <2>3, <2>4 DEF PInv, ProtocolTypeOK, Flushed
<1> QED
  BY <1>1, <1>2, <1>3, <1>4, <1>5, <1>6, <1>7, <1>8, <1>9, <1>10 DEF NextProtocol

LEMMA ProtocolInvariance ==
  ASSUME InOrder, Prompt, ExpectedPlayers = Sessions
  PROVE  ProtocolSpec => []PInv
<1>1. InitProtocol => PInv
  BY PInvInit
<1>2. PInv /\ [NextProtocol]_allVars => PInv'
  <2> SUFFICES ASSUME PInv, [NextProtocol]_allVars PROVE PInv'
    OBVIOUS
  <2>1. [Next]_vars
    BY SendAsAssumed, StepOfServer
  <2>2. IInv /\ ReadyPressed /\ AllPressed
    BY DEF PInv
  <2>3. IInv'
    BY <2>1, <2>2, TypeStep, ArrivalStep, HookedStep, AllHereStep, LobbyAliveStep, SurvivorsStep,
      ConsumedStep, DeadKnownStep DEF IInv
  <2>4. ReadyPressed' /\ AllPressed'
    BY <2>1, <2>2, PressedStep DEF IInv
  <2>5. ProtocolTypeOK' /\ Flushed' /\ Told' /\ Asked'
    <3>1. TypeOK'
      BY <2>3 DEF IInv
    <3> QED
      BY <2>1, <3>1, ProtocolStep
  <2> QED
    BY <2>3, <2>4, <2>5 DEF PInv
<1> QED
  BY <1>1, <1>2, PTL DEF ProtocolSpec

\* Whatever their updates and the channels do, the clients make the server take only
\* the steps GameManager's environment lets it take: every theorem of GameManager
\* holds of the server among them.  The handlers act on whatever arrives; that
\* nothing else arrives is the invariant.
THEOREM ServerIsGameManager ==
  ASSUME InOrder, Prompt, ExpectedPlayers = Sessions
  PROVE  ProtocolSpec => Spec
<1>1. InitProtocol => Init
  BY DEF InitProtocol
<1>2. PInv /\ [NextProtocol]_allVars => [Next]_vars
  BY SendAsAssumed, StepOfServer
<1> QED
  BY <1>1, <1>2, ProtocolInvariance, PTL DEF ProtocolSpec, Spec

-----------------------------------------------------------------------------
(* The properties.                                                         *)

\* The clients, the channels and the map drawn have their types, whatever the
\* interleaving.
THEOREM ProtocolTypeCorrect ==
  ASSUME InOrder, Prompt, ExpectedPlayers = Sessions
  PROVE  ProtocolSpec => []ProtocolTypeOK
<1>1. PInv => ProtocolTypeOK
  BY DEF PInv
<1> QED
  BY <1>1, ProtocolInvariance, PTL

\* What is coming says when the rounds begin and end, and every client takes
\* notice of it: it never misses a ROUND_START or a ROUND_OVER because of the
\* state it is in.
THEOREM RoundsNoticed ==
  ASSUME InOrder, Prompt, ExpectedPlayers = Sessions
  PROVE  ProtocolSpec => []RoundsAreNoticed
<1>1. PInv => RoundsAreNoticed
  <2> SUFFICES ASSUME PInv, NEW id \in IdsIn(players), ~client[id].stopped
               PROVE  (IF TurnsOf(id) = {} THEN client[id].is_round_playing
                       ELSE Coming(id)[LastOf(TurnsOf(id))].type = "round_start")
                        <=> fsm = "round_playing"
    BY DEF RoundsAreNoticed
  <2>1. id \in Ids
    <3>1. players \in Seq(Player)
      BY DEF PInv, IInv, TypeOK
    <3>2. \A i \in DOMAIN players : players[i] \in Player
      BY <3>1
    <3> QED
      BY <3>2 DEF IdsIn, Player
  <2> DEFINE s == Coming(id)
             c == client[id]
  <2>2. s \in Seq(ClientMessage) /\ c \in Client
    BY <2>1, ClientIs
  <2>3. InPhase(c, s, fsm)
    BY <2>1 DEF PInv, Told, Phases
  <2>4. TurnsOf(id) = {i \in 1 .. Len(s) : s[i].type \in Turns}
    BY <2>2 DEF TurnsOf, Turns
  <2> HIDE DEF s
  <2>5. NoTurn(s) => TurnsOf(id) = {}
    BY <2>4 DEF NoTurn
  <2>6. ASSUME NEW turn \in Turns, OneTurn(s, turn)
        PROVE  TurnsOf(id) # {} /\ s[LastOf(TurnsOf(id))].type = turn
    <3>1. PICK i \in 1 .. Len(s) :
            s[i].type = turn /\ \A j \in 1 .. Len(s) : s[j].type \in Turns => j = i
      BY <2>6 DEF OneTurn
    <3>2. TurnsOf(id) = {i}
      BY <2>4, <3>1
    <3>3. i <= i
      BY <3>1, <2>2
    <3>4. LastOf({i}) = i
      BY <3>3 DEF LastOf
    <3> QED
      BY <3>1, <3>2, <3>4
  <2>7. (IF TurnsOf(id) = {} THEN c.is_round_playing
         ELSE s[LastOf(TurnsOf(id))].type = "round_start") <=> fsm = "round_playing"
    <3>1. "round_start" \in Turns /\ "round_over" \in Turns
      BY DEF Turns
    <3>2. c.is_round_playing \in BOOLEAN
      BY <2>2 DEF Client
    <3>3. CASE NoTurn(s)
      <4>1. ~OneTurn(s, "round_start") /\ ~OneTurn(s, "round_over")
        BY <2>5, <2>6, <3>1, <3>3
      <4>2. c.is_round_playing <=> fsm = "round_playing"
        BY <2>3, <3>2, <4>1 DEF InPhase
      <4> QED
        BY <2>5, <3>3, <4>2
    <3>4. CASE OneTurn(s, "round_start") /\ ~NoTurn(s)
      <4>1. ~OneTurn(s, "round_over")
        BY <2>6, <3>1, <3>4
      <4> QED
        BY <2>3, <2>6, <3>1, <3>4, <4>1 DEF InPhase
    <3>5. CASE OneTurn(s, "round_over") /\ ~NoTurn(s)
      <4>1. ~OneTurn(s, "round_start")
        BY <2>6, <3>1, <3>5
      <4> QED
        BY <2>3, <2>6, <3>1, <3>5, <4>1 DEF InPhase
    <3> QED
      BY <2>3, <3>3, <3>4, <3>5 DEF InPhase
  <2> QED
    BY <2>7 DEF s
<1> QED
  BY <1>1, ProtocolInvariance, PTL

\* The clients send READY once they are players and once only, and EXPLODED
\* once in a round while they play it: what GameManager takes them to do.
THEOREM ClientsBehave ==
  ASSUME InOrder, Prompt, ExpectedPlayers = Sessions
  PROVE  ProtocolSpec => []ClientsSendAsAssumed
<1>1. PInv => ClientsSendAsAssumed
  BY SendAsAssumed
<1> QED
  BY <1>1, ProtocolInvariance, PTL

\* A client that has handled what it was told shows as dead, of the others,
\* exactly those that have exploded in this round.
THEOREM DeathsAgree ==
  ASSUME InOrder, Prompt, ExpectedPlayers = Sessions
  PROVE  ProtocolSpec => []SameDeaths
<1>1. PInv => SameDeaths
  <2> SUFFICES ASSUME PInv, NEW id \in Ids, Synchronised(id), client[id].state = "game",
                      client[id].events = {}
               PROVE  client[id].dead \ {id} = exploded \ {id}
    BY DEF SameDeaths
  <2>1. exploded \ {id} = (client[id].dead \cup client[id].events \cup Deaths(Coming(id))) \ {id}
    BY DEF PInv, Told, Died
  <2>2. Deaths(Coming(id)) = {}
    BY DEF Synchronised, Deaths
  <2> QED
    BY <2>1, <2>2
<1> QED
  BY <1>1, ProtocolInvariance, PTL

\* The score screen of a client that has handled what it was told shows the
\* scores of the server.
THEOREM ScoresAgree ==
  ASSUME InOrder, Prompt, ExpectedPlayers = Sessions
  PROVE  ProtocolSpec => []SameScores
<1>1. PInv => SameScores
  <2> SUFFICES ASSUME PInv, NEW id \in Ids, Synchronised(id), client[id].state = "score"
               PROVE  client[id].scores = [p \in Ids |-> ScoreOf(p)]
    BY DEF SameScores
  <2>1. ~client[id].stopped /\ Coming(id) = <<>> /\ ~client[id].is_round_playing
    BY DEF Synchronised
  <2>2. InPhase(client[id], Coming(id), fsm)
    BY <2>1 DEF PInv, Told, Phases
  <2>3. ~OneTurn(<<>>, "round_start") /\ None(<<>>, "round_over")
    BY DEF OneTurn, None
  <2>4. fsm = "next_round_waiting"
    BY <2>1, <2>2, <2>3 DEF InPhase
  <2>5. client[id].scores = ScoreIn(players)
    BY <2>1, <2>3, <2>4 DEF PInv, Told, ScoresCome, KnowsScores
  <2>6. [p \in Ids |-> ScoreOf(p)] = ScoreIn(players)
    BY ViewOfState DEF PInv, IInv
  <2> QED
    BY <2>5, <2>6
<1> QED
  BY <1>1, ProtocolInvariance, PTL

\* A client plays a round on the map the server drew for it, not on that of an
\* earlier round.
THEOREM MapsAgree ==
  ASSUME InOrder, Prompt, ExpectedPlayers = Sessions
  PROVE  ProtocolSpec => []SameMap
<1>1. PInv => SameMap
  <2> SUFFICES ASSUME PInv, NEW id \in Ids, Synchronised(id), client[id].state = "game"
               PROVE  client[id].map = maps
    BY DEF SameMap
  <2>1. ~client[id].stopped /\ Coming(id) = <<>> /\ client[id].is_round_playing
    BY DEF Synchronised
  <2>2. InPhase(client[id], Coming(id), fsm)
    BY <2>1 DEF PInv, Told, Phases
  <2>3. ~OneTurn(<<>>, "round_over") /\ None(<<>>, "bonus_map")
    BY DEF OneTurn, None
  <2>4. fsm = "round_playing"
    BY <2>1, <2>2, <2>3 DEF InPhase
  <2> QED
    BY <2>1, <2>3, <2>4 DEF PInv, Told, MapsCome, KnowsMap
<1> QED
  BY <1>1, ProtocolInvariance, PTL
===============================================================================
