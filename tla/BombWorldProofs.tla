---------------------------- MODULE BombWorldProofs ----------------------------
(***************************************************************************)
(* Proofs about the game world of a client, for any map, any number of     *)
(* bombs, messages, ranges and bonuses.                                    *)
(***************************************************************************)
EXTENDS BombWorld, BoundedNumbers

-----------------------------------------------------------------------------
(* The order of the systems.                                               *)

SystemNames == {Systems[i] : i \in 1 .. 10}

\* The systems that come after the one that makes bombs of the drops.
AfterSpawn == {"bonuses", "kicks", "lifetimes", "bombs", "players", "end"}

LEMMA SystemsAre ==
  /\ Len(Systems) = 10 /\ DOMAIN Systems = 1 .. 10
  /\ Systems[1] = "movement" /\ Systems[2] = "contacts" /\ Systems[3] = "blasts"
  /\ Systems[4] = "spawn" /\ Systems[5] = "bonuses" /\ Systems[6] = "kicks"
  /\ Systems[7] = "lifetimes" /\ Systems[8] = "bombs" /\ Systems[9] = "players"
  /\ Systems[10] = "end"
PROOF BY DEF Systems

\* A system has one place in the order.
LEMMA OnePlace ==
  ASSUME NEW i \in 1 .. 10, NEW j \in 1 .. 10, Systems[i] = Systems[j]
  PROVE  i = j
PROOF
<1> i \in {1, 2, 3, 4, 5, 6, 7, 8, 9, 10} /\ j \in {1, 2, 3, 4, 5, 6, 7, 8, 9, 10}
  OBVIOUS
<1> QED BY SystemsAre

\* The update goes on with the first system that has work.
LEMMA GoOnIs ==
  ASSUME NEW k \in 1 .. 10, GoOn(Systems[k])
  PROVE  \E i \in k .. 10 :
           /\ pc' = Systems[i] /\ HasWork(Systems[i])'
           /\ \A j \in k .. i - 1 : ~ HasWork(Systems[j])'
PROOF
<1> DEFINE S == {i \in k .. 10 : HasWork(Systems[i])'}
<1>1. k = CHOOSE i \in DOMAIN Systems : Systems[i] = Systems[k]
  BY OnePlace, SystemsAre
<1>2. pc' = Systems[Min(S)]
  BY <1>1, SystemsAre DEF GoOn, From
<1>3. HasWork(Systems[10])' BY SystemsAre DEF HasWork
<1>4. S \in SUBSET (1 .. 10) /\ S # {}
  BY <1>3
<1>5. PICK i \in S : i = Min(S) /\ \A j \in S : i <= j
  <2> HIDE DEF S
  <2> QED BY <1>4, MinIsLeast
<1>6. \A j \in k .. i - 1 : j \notin S /\ j \in k .. 10
  BY <1>4, <1>5
<1>7. \A j \in k .. i - 1 : ~ HasWork(Systems[j])'
  BY <1>6
<1>8. i \in k .. 10 /\ HasWork(Systems[i])' /\ pc' = Systems[i]
  BY <1>2, <1>5
<1> QED BY <1>7, <1>8

\* What is known of the events when a system is next.
LEMMA GoOnEffects ==
  ASSUME NEW k \in 1 .. 10, GoOn(Systems[k])
  PROVE  /\ pc' \in SystemNames
         /\ pc' = "spawn" => dropEvents' # <<>>
         /\ pc' = "bonuses" => bonusEvents' # <<>>
         /\ pc' = "kicks" => kickEvents' # <<>>
         /\ pc' = "players" => explodedEvents' # <<>>
         /\ k <= 4 /\ pc' \in AfterSpawn => dropEvents' = <<>>
PROOF
<1>1. PICK i \in k .. 10 :
        /\ pc' = Systems[i] /\ HasWork(Systems[i])'
        /\ \A j \in k .. i - 1 : ~ HasWork(Systems[j])'
  BY GoOnIs
<1>2. pc' \in SystemNames BY <1>1 DEF SystemNames
<1>3. HasWork("spawn")' => dropEvents' # <<>> BY DEF HasWork
<1>4. HasWork("bonuses")' => bonusEvents' # <<>> BY DEF HasWork
<1>5. HasWork("kicks")' => kickEvents' # <<>> BY DEF HasWork
<1>6. HasWork("players")' => explodedEvents' # <<>> BY DEF HasWork
<1>7. ~ HasWork("spawn")' => dropEvents' = <<>> BY DEF HasWork
<1>8. ASSUME k <= 4, pc' \in AfterSpawn PROVE dropEvents' = <<>>
  <2>1. i \in 1 .. 10 /\ i # 1 /\ i # 2 /\ i # 3 /\ i # 4
    BY <1>1, <1>8, SystemsAre DEF AfterSpawn
  <2>2. 4 \in k .. i - 1 BY <2>1, <1>8
  <2> QED BY <1>1, <1>7, <2>2, SystemsAre
<1> QED BY <1>1, <1>2, <1>3, <1>4, <1>5, <1>6, <1>8

-----------------------------------------------------------------------------
(* Types.                                                                  *)

\* A system is next only if it has work, and drops become bombs before the
\* bonuses are looked at.
Control ==
  /\ pc = "spawn" => dropEvents # <<>>
  /\ pc = "bonuses" => bonusEvents # <<>>
  /\ pc = "kicks" => kickEvents # <<>>
  /\ pc = "players" => explodedEvents # <<>>
  /\ pc \in AfterSpawn => dropEvents = <<>>

\* There is a bomb left for every drop, and it has not been used.
Fresh ==
  /\ made + Len(dropEvents) <= MaxDrops
  /\ \A b \in Drops : b > made => bombs[b].state = "none"

TypeInv == TypeOK /\ Control /\ Fresh

LEMMA InteriorIs ==
  /\ Interior \subseteq Int \X Int /\ AnyCell \in Interior
  /\ \A c \in Interior : c \in Ground \/ c \in DestWalls
  /\ StrayCells \subseteq Interior /\ StrayRanges \subseteq 0 .. MaxRange
  /\ MaxRange \in Nat /\ MaxDrops \in Nat
PROOF BY ConstantsAssumption DEF Interior, AnyCell

LEMMA NoBombType == NoBomb \in Bomb /\ NoBomb.state = "none" /\ NoBomb.explosions = 0
PROOF BY InteriorIs DEF NoBomb, Bomb

LEMMA NoBlastType == NoBlast \in Explosion
PROOF BY InteriorIs DEF NoBlast, Explosion

\* How far a blast reaches is within its range.
LEMMA ReachIs ==
  ASSUME NEW c, NEW d, NEW range \in Nat
  PROVE  /\ Reach(c, d, range) \in 0 .. range
         /\ \A i \in 1 .. Reach(c, d, range) : CellAt(Ahead(c, d, i)) = "ground"
         /\ \A n \in 0 .. range :
              (\A i \in 1 .. n : CellAt(Ahead(c, d, i)) = "ground") => n <= Reach(c, d, range)
PROOF
<1> DEFINE S == {n \in 0 .. range : \A i \in 1 .. n : CellAt(Ahead(c, d, i)) = "ground"}
<1>1. S \in SUBSET (0 .. range) OBVIOUS
<1>2. 0 \in S OBVIOUS
<1>3. Max(S) \in S /\ \A j \in S : Max(S) >= j
  <2> HIDE DEF S
  <2> QED BY <1>1, <1>2, MaxIsGreatest
<1>4. Reach(c, d, range) = Max(S) BY DEF Reach
<1> QED BY <1>3, <1>4

LEMMA NewBlastType ==
  ASSUME NEW c \in Interior, NEW range \in 0 .. MaxRange
  PROVE  NewBlast(c, range) \in Explosion
PROOF
<1>1. \A d \in Dirs : Reach(c, d, range) \in 0 .. MaxRange
  BY ReachIs, InteriorIs
<1> QED BY <1>1 DEF NewBlast, Explosion

-----------------------------------------------------------------------------
(* What the steps do to the bombs.                                         *)

\* The first element of a sequence, and the others.
LEMMA HeadOfSeq ==
  ASSUME NEW S, NEW s \in Seq(S), s # <<>>
  PROVE  /\ Head(s) \in S /\ Tail(s) \in Seq(S) /\ Len(Tail(s)) = Len(s) - 1
         /\ Len(s) \in Nat /\ Len(s) > 0
PROOF OBVIOUS

\* The fields of a bomb.
LEMMA BombIs ==
  ASSUME NEW bomb \in Bomb
  PROVE  /\ bomb.state \in {"none", "fresh", "live", "marked", "gone"}
         /\ bomb.local \in BOOLEAN /\ bomb.pos \in Interior /\ bomb.range \in 0 .. MaxRange
         /\ bomb.is_kicked \in BOOLEAN /\ bomb.still \in BOOLEAN
         /\ bomb.rolls \in SUBSET Dirs /\ bomb.explosions \in Nat
PROOF BY DEF Bomb

\* bomb_explode marks one bomb, makes its blast and frees its cell.
LEMMA BombExplodeIs ==
  ASSUME TypeOK, NEW b \in Drops, BombExplode(b)
  PROVE  /\ bombs' \in [Drops -> Bomb]
         /\ \A x \in Drops : x # b => bombs'[x] = bombs[x]
         /\ bombs'[b].state = "marked" /\ bombs'[b].explosions = bombs[b].explosions + 1
         /\ blasts' \in [Drops -> Explosion]
         /\ bombs[b].pos \in Interior
         /\ cells' = [cells EXCEPT ![bombs[b].pos] = "ground"]
         /\ cells' \in [Interior -> {"ground", "dest_wall", "bomb"}]
PROOF
<1>1. PICK bomb \in Bomb : bomb = bombs[b] BY DEF TypeOK
<1>2. PICK marked : marked = [bomb EXCEPT !.state = "marked", !.explosions = @ + 1]
  OBVIOUS
<1>3. bombs' = [bombs EXCEPT ![b] = marked]
  BY <1>1, <1>2 DEF BombExplode
<1>4. marked \in Bomb /\ marked.state = "marked" /\ marked.explosions = bomb.explosions + 1
  <2>1. marked.state = "marked" /\ marked.explosions = bomb.explosions + 1
    BY <1>2 DEF Bomb
  <2>2. bomb.explosions + 1 \in Nat BY BombIs
  <2>3. marked = [bomb EXCEPT !.state = "marked", !.explosions = bomb.explosions + 1]
    BY <1>2
  <2>4. marked \in Bomb BY <2>2, <2>3 DEF Bomb
  <2> QED BY <2>1, <2>4
<1>5. bombs \in [Drops -> Bomb] /\ blasts \in [Drops -> Explosion]
      /\ cells \in [Interior -> {"ground", "dest_wall", "bomb"}]
  BY DEF TypeOK
<1>6. NewBlast(bomb.pos, bomb.range) \in Explosion
  BY <1>1, NewBlastType, BombIs
<1>7. blasts' \in [Drops -> Explosion]
  BY <1>1, <1>5, <1>6 DEF BombExplode
<1>8. bomb.pos \in Interior BY <1>1, BombIs
<1>9. cells' = [cells EXCEPT ![bomb.pos] = "ground"]
  BY <1>1 DEF BombExplode
<1> HIDE DEF TypeOK
<1> QED BY <1>1, <1>3, <1>4, <1>5, <1>7, <1>8, <1>9

\* A bomb that moved is where it may be, and otherwise the same but for where it
\* rolls.
LEMMA RolledIs ==
  ASSUME NEW bomb \in Bomb, NEW d \in Dirs
  PROVE  LET r == Rolled(bomb, d)
         IN  /\ r \in Bomb /\ r.state = bomb.state /\ r.local = bomb.local
             /\ r.explosions = bomb.explosions /\ r.still = bomb.still
             /\ r.is_kicked = bomb.is_kicked /\ r.rolls \subseteq bomb.rolls
PROOF
<1> DEFINE c == Ahead(bomb.pos, d, 1)
           free == c \in Ground \/ (c \in DestWalls /\ walls[c] = "gone")
<1>1. CASE free
  <2>1. c \in Interior BY <1>1 DEF Interior
  <2>2. Rolled(bomb, d) = [bomb EXCEPT !.pos = c] BY <1>1 DEF Rolled
  <2> HIDE DEF c
  <2> QED BY <2>1, <2>2 DEF Bomb
<1>2. CASE ~ free
  <2>1. Rolled(bomb, d) = [bomb EXCEPT !.rolls = @ \ {d}] BY <1>2 DEF Rolled
  <2> QED BY <2>1 DEF Bomb
<1> QED BY <1>1, <1>2

\* Only bombs that roll are moved.
LEMMA MoveBombsIs ==
  ASSUME TypeOK, MoveBombs
  PROVE  /\ bombs' \in [Drops -> Bomb]
         /\ \A b \in Drops :
              LET r == bombs'[b]
              IN  /\ r.state = bombs[b].state /\ r.local = bombs[b].local
                  /\ r.explosions = bombs[b].explosions /\ r.still = bombs[b].still
                  /\ r.rolls \subseteq bombs[b].rolls
                  /\ bombs[b].rolls = {} => r = bombs[b]
PROOF
<1>1. PICK moves \in [BombsGroup -> Dirs \cup {"stay"}] :
        /\ \A b \in BombsGroup : moves[b] \in bombs[b].rolls \cup {"stay"}
        /\ bombs' = [b \in Drops |->
             IF b \in BombsGroup /\ moves[b] # "stay" THEN Rolled(bombs[b], moves[b]) ELSE bombs[b]]
  BY DEF MoveBombs
<1>2. ASSUME NEW b \in Drops
      PROVE  LET r == bombs'[b]
             IN  /\ r \in Bomb
                 /\ r.state = bombs[b].state /\ r.local = bombs[b].local
                 /\ r.explosions = bombs[b].explosions /\ r.still = bombs[b].still
                 /\ r.rolls \subseteq bombs[b].rolls
                 /\ bombs[b].rolls = {} => r = bombs[b]
  <2>1. PICK bomb \in Bomb : bomb = bombs[b] BY DEF TypeOK
  <2>2. CASE b \in BombsGroup /\ moves[b] # "stay"
    <3>1. moves[b] \in Dirs /\ moves[b] \in bomb.rolls BY <1>1, <2>1, <2>2
    <3>2. bombs'[b] = Rolled(bomb, moves[b]) BY <1>1, <2>1, <2>2
    <3> QED BY <2>1, <3>1, <3>2, RolledIs
  <2>3. CASE ~ (b \in BombsGroup /\ moves[b] # "stay")
    <3>1. bombs'[b] = bomb BY <1>1, <2>1, <2>3
    <3> QED BY <2>1, <3>1
  <2> QED BY <2>2, <2>3
<1>3. bombs' \in [Drops -> Bomb] BY <1>1, <1>2
<1> QED BY <1>2, <1>3

\* The player kicks one bomb.
LEMMA TouchBombIs ==
  ASSUME TypeOK, NEW b \in Drops, NEW dirs \in Kicks(bombs[b].pos), TouchBomb(b, dirs)
  PROVE  /\ bombs' \in [Drops -> Bomb]
         /\ \A x \in Drops :
              LET r == bombs'[x]
              IN  /\ r.state = bombs[x].state /\ r.local = bombs[x].local
                  /\ r.explosions = bombs[x].explosions /\ r.still = bombs[x].still
                  /\ r.rolls = bombs[x].rolls /\ r.pos = bombs[x].pos
         /\ kickEvents' \in Seq([pos : Interior, dirs : SUBSET Dirs])
PROOF
<1>1. PICK bomb \in Bomb : bomb = bombs[b] BY DEF TypeOK
<1>2. PICK kicked : kicked = [bomb EXCEPT !.is_kicked = TRUE] OBVIOUS
<1>3. bombs' = [bombs EXCEPT ![b] = kicked] BY <1>1, <1>2 DEF TouchBomb
<1>4. /\ kicked \in Bomb /\ kicked.state = bomb.state /\ kicked.local = bomb.local
      /\ kicked.explosions = bomb.explosions /\ kicked.still = bomb.still
      /\ kicked.rolls = bomb.rolls /\ kicked.pos = bomb.pos
  BY <1>2 DEF Bomb
<1>5. bombs \in [Drops -> Bomb] BY DEF TypeOK
<1>6. kickEvents' \in Seq([pos : Interior, dirs : SUBSET Dirs])
  <2>1. [pos |-> bomb.pos, dirs |-> dirs] \in [pos : Interior, dirs : SUBSET Dirs]
    BY BombIs DEF Kicks
  <2> QED BY <1>1, <2>1 DEF TouchBomb, TypeOK
<1> QED BY <1>1, <1>3, <1>4, <1>5, <1>6

\* A drop makes one fresh bomb of the bombs that are left.
LEMMA SpawnBombIs ==
  ASSUME TypeInv, SpawnBomb
  PROVE  LET ev == Head(dropEvents)
             n == made + 1
         IN  /\ n \in Drops /\ made' = n
             /\ ev \in [player : Players, pos : Interior]
             /\ dropEvents' = Tail(dropEvents) /\ dropEvents # <<>>
             /\ bombs' \in [Drops -> Bomb]
             /\ \A x \in Drops : x # n => bombs'[x] = bombs[x]
             /\ bombs'[n].state = "fresh" /\ bombs'[n].pos = ev.pos /\ bombs'[n].still
             /\ bombs'[n].rolls = {} /\ bombs'[n].explosions = 0
             /\ bombs'[n].local = (ev.player = "local")
             /\ cells' = [cells EXCEPT ![ev.pos] = "bomb"]
             /\ bombs[n].state = "none"
PROOF
<1> DEFINE ev == Head(dropEvents)
           n == made + 1
<1>1. dropEvents # <<>> /\ dropEvents \in Seq([player : Players, pos : Interior])
  BY DEF SpawnBomb, TypeInv, TypeOK, Control
<1>2. ev \in [player : Players, pos : Interior] BY <1>1, HeadOfSeq
<1>3. made \in Nat /\ Len(dropEvents) \in Nat /\ Len(dropEvents) > 0 /\ MaxDrops \in Nat
  BY <1>1, InteriorIs DEF TypeInv, TypeOK
<1>4. n \in Drops BY <1>3 DEF TypeInv, Fresh, Drops
<1>5. bombs[n].state = "none" BY <1>3, <1>4 DEF TypeInv, Fresh
<1> HIDE DEF ev
<1>6. PICK range \in 0 .. MaxRange :
        bombs' = [bombs EXCEPT ![n] =
          [NoBomb EXCEPT !.state = "fresh", !.local = ev.player = "local",
                         !.pos = ev.pos, !.range = range]]
  <2>1. PICK range \in IF HasTag(ev.player) THEN {gear[ev.player].explosion_range} ELSE StrayRanges :
          bombs' = [bombs EXCEPT ![n] =
            [NoBomb EXCEPT !.state = "fresh", !.local = ev.player = "local",
                           !.pos = ev.pos, !.range = range]]
    BY DEF SpawnBomb, ev
  <2>2. range \in 0 .. MaxRange
    <3>1. ev.player \in Players BY <1>2
    <3>2. gear[ev.player].explosion_range \in 0 .. MaxRange
      BY <3>1 DEF TypeInv, TypeOK
    <3> QED BY <2>1, <3>2, InteriorIs
  <2> QED BY <2>1, <2>2
<1>7. PICK bomb : bomb = [NoBomb EXCEPT !.state = "fresh", !.local = ev.player = "local",
                                        !.pos = ev.pos, !.range = range]
  OBVIOUS
<1>8. /\ bomb \in Bomb /\ bomb.state = "fresh" /\ bomb.pos = ev.pos /\ bomb.still
      /\ bomb.rolls = {} /\ bomb.explosions = 0 /\ bomb.local = (ev.player = "local")
  <2>1. ev.pos \in Interior BY <1>2
  <2> QED BY <1>7, <2>1, InteriorIs DEF NoBomb, Bomb
<1>9. bombs \in [Drops -> Bomb] /\ bombs' = [bombs EXCEPT ![n] = bomb]
  BY <1>6, <1>7 DEF TypeInv, TypeOK
<1>10. /\ bombs' \in [Drops -> Bomb] /\ bombs'[n] = bomb
       /\ \A x \in Drops : x # n => bombs'[x] = bombs[x]
  <2> HIDE DEF n
  <2> QED BY <1>4, <1>8, <1>9
<1>11. /\ made' = n /\ dropEvents' = Tail(dropEvents)
       /\ cells' = [cells EXCEPT ![ev.pos] = "bomb"]
  BY DEF SpawnBomb, ev
<1> QED BY <1>1, <1>2, <1>4, <1>5, <1>8, <1>10, <1>11 DEF ev

\* A kick sets one bomb of the group rolling and frees a cell of the map: that of
\* the bomb, or any other.
LEMMA KickBombIs ==
  ASSUME TypeInv, KickBomb
  PROVE  /\ bombs' \in [Drops -> Bomb]
         /\ cells' \in [Interior -> {"ground", "dest_wall", "bomb"}]
         /\ kickEvents' \in Seq([pos : Interior, dirs : SUBSET Dirs])
         /\ \A x \in Drops :
              /\ bombs'[x].state = bombs[x].state /\ bombs'[x].local = bombs[x].local
              /\ bombs'[x].explosions = bombs[x].explosions /\ bombs'[x].pos = bombs[x].pos
         /\ \/ bombs' = bombs /\ \A c \in Interior : cells'[c] # cells[c] => cells'[c] = "ground"
            \/ \E b \in Drops :
                 /\ ~ bombs'[b].still /\ \A x \in Drops : x # b => bombs'[x] = bombs[x]
                 /\ cells' = [cells EXCEPT ![bombs[b].pos] = "ground"]
PROOF
<1>1. kickEvents # <<>> /\ kickEvents \in Seq([pos : Interior, dirs : SUBSET Dirs])
  BY DEF KickBomb, TypeInv, TypeOK, Control
<1>2. PICK ev \in [pos : Interior, dirs : SUBSET Dirs] : ev = Head(kickEvents)
  BY <1>1, HeadOfSeq
<1>3. kickEvents' \in Seq([pos : Interior, dirs : SUBSET Dirs])
  BY <1>1, HeadOfSeq DEF KickBomb
<1>4. /\ cells \in [Interior -> {"ground", "dest_wall", "bomb"}] /\ bombs \in [Drops -> Bomb]
      /\ ev.pos \in Interior /\ ev.dirs \in SUBSET Dirs
  BY <1>2 DEF TypeInv, TypeOK
<1>5. \A c \in Interior :
        Cleared(c) \in [Interior -> {"ground", "dest_wall", "bomb"}]
        /\ \A d \in Interior : Cleared(c)[d] # cells[d] => Cleared(c)[d] = "ground"
  BY <1>4 DEF Cleared
<1>6. CASE BombsAt(ev.pos) # {}
  <2>1. PICK b \in BombsAt(ev.pos) : b = Min(BombsAt(ev.pos))
    <3>1. BombsAt(ev.pos) \in SUBSET (1 .. MaxDrops) BY DEF BombsAt, BombsGroup, Drops
    <3> QED BY <1>6, <3>1, MinIsLeast, InteriorIs
  <2>2. b \in Drops /\ bombs[b].pos = ev.pos BY <2>1 DEF BombsAt, BombsGroup
  <2>3. PICK bomb \in Bomb : bomb = bombs[b] BY <1>4, <2>2
  <2>4. PICK kicked : kicked = [bomb EXCEPT !.still = FALSE, !.rolls = ev.dirs] OBVIOUS
  <2>5. bombs' = [bombs EXCEPT ![b] = kicked] /\ cells' = Cleared(ev.pos)
    BY <1>2, <1>6, <2>1, <2>3, <2>4 DEF KickBomb
  <2>6. /\ kicked \in Bomb /\ kicked.state = bomb.state /\ kicked.local = bomb.local
        /\ kicked.explosions = bomb.explosions /\ kicked.pos = bomb.pos /\ ~ kicked.still
    BY <1>4, <2>4 DEF Bomb
  <2> QED BY <1>3, <1>4, <1>5, <2>2, <2>3, <2>5, <2>6 DEF Cleared
<1>7. CASE BombsAt(ev.pos) = {}
  <2>1. /\ bombs' = bombs
        /\ (\E c \in StrayCells : cells' = Cleared(c)) \/ cells' = cells
    BY <1>2, <1>7 DEF KickBomb
  <2> QED BY <1>3, <1>4, <1>5, <2>1, InteriorIs
<1> QED BY <1>6, <1>7

\* At the end of an update fresh bombs are live and marked ones are gone.
LEMMA EndUpdateIs ==
  ASSUME TypeOK, EndUpdate
  PROVE  /\ bombs' \in [Drops -> Bomb] /\ blasts' \in [Drops -> Explosion]
         /\ \A b \in Drops :
              /\ bombs'[b].explosions = bombs[b].explosions
              /\ bombs[b].state \in {"fresh", "live"} =>
                   /\ bombs'[b].state = "live" /\ bombs'[b].local = bombs[b].local
                   /\ bombs'[b].pos = bombs[b].pos /\ bombs'[b].still = bombs[b].still
                   /\ bombs'[b].rolls = bombs[b].rolls
              /\ bombs[b].state \in {"marked", "gone"} => bombs'[b].state = "gone"
              /\ bombs[b].state \in {"none", "gone"} => bombs'[b] = bombs[b]
              /\ bombs[b].state = "marked" => bombs'[b].still /\ bombs'[b].rolls = {}
PROOF
<1>1. ASSUME NEW b \in Drops
      PROVE  /\ bombs'[b] \in Bomb
             /\ bombs'[b].explosions = bombs[b].explosions
             /\ bombs[b].state \in {"fresh", "live"} =>
                  /\ bombs'[b].state = "live" /\ bombs'[b].local = bombs[b].local
                  /\ bombs'[b].pos = bombs[b].pos /\ bombs'[b].still = bombs[b].still
                  /\ bombs'[b].rolls = bombs[b].rolls
             /\ bombs[b].state \in {"marked", "gone"} => bombs'[b].state = "gone"
             /\ bombs[b].state \in {"none", "gone"} => bombs'[b] = bombs[b]
             /\ bombs[b].state = "marked" => bombs'[b].still /\ bombs'[b].rolls = {}
  <2>1. PICK bomb \in Bomb : bomb = bombs[b] BY DEF TypeOK
  <2>2. bombs'[b] = CASE bomb.state = "fresh" -> [bomb EXCEPT !.state = "live"]
                      [] bomb.state = "marked" ->
                           [NoBomb EXCEPT !.state = "gone", !.explosions = bomb.explosions]
                      [] OTHER -> bomb
    BY <2>1 DEF EndUpdate
  <2>3. CASE bomb.state = "fresh"
    <3>1. bombs'[b] = [bomb EXCEPT !.state = "live"] BY <2>2, <2>3
    <3> QED BY <2>1, <2>3, <3>1 DEF Bomb
  <2>4. CASE bomb.state = "marked"
    <3>1. PICK gone : gone = [NoBomb EXCEPT !.state = "gone", !.explosions = bomb.explosions]
      OBVIOUS
    <3>2. gone.state = "gone" /\ gone.explosions = bomb.explosions
          /\ gone.still /\ gone.rolls = {}
      BY <3>1 DEF NoBomb
    <3>3. bomb.explosions \in Nat BY BombIs
    <3>4. gone \in Bomb
      <4>1. PICK none \in Bomb : none = NoBomb BY NoBombType
      <4>2. gone = [none EXCEPT !.state = "gone", !.explosions = bomb.explosions]
        BY <3>1, <4>1
      <4> QED BY <3>3, <4>2 DEF Bomb
    <3>5. bombs'[b] = gone BY <2>2, <2>4, <3>1
    <3> QED BY <2>1, <2>4, <3>2, <3>4, <3>5
  <2>5. CASE bomb.state \notin {"fresh", "marked"}
    <3>1. bombs'[b] = bomb BY <2>2, <2>5
    <3> QED BY <2>1, <2>5, <3>1, BombIs
  <2> QED BY <2>3, <2>4, <2>5
<1>2. ASSUME NEW s \in Drops PROVE blasts'[s] \in Explosion
  <2>1. PICK blast \in Explosion : blast = blasts[s] BY DEF TypeOK
  <2>2. blasts'[s] = CASE blast.state = "fresh" -> [blast EXCEPT !.state = "burning"]
                       [] blast.state = "marked" -> [NoBlast EXCEPT !.state = "gone"]
                       [] OTHER -> blast
    BY <2>1 DEF EndUpdate
  <2>3. [blast EXCEPT !.state = "burning"] \in Explosion
        /\ [NoBlast EXCEPT !.state = "gone"] \in Explosion
    BY InteriorIs DEF Explosion, NoBlast
  <2> QED BY <2>1, <2>2, <2>3
<1>3. bombs' \in [Drops -> Bomb] /\ blasts' \in [Drops -> Explosion]
  <2>1. /\ bombs' = [b \in Drops |-> bombs'[b]] /\ blasts' = [b \in Drops |-> blasts'[b]]
    BY DEF EndUpdate
  <2> QED BY <1>1, <1>2, <2>1
<1> QED BY <1>1, <1>3

-----------------------------------------------------------------------------
(* Types.                                                                  *)

\* Going on keeps the control.
LEMMA ControlGoes ==
  ASSUME NEW k \in 1 .. 10, GoOn(Systems[k]) \/ pc' \in {"idle", "stopped"},
         k > 4 => dropEvents' = <<>>
  PROVE  /\ Control'
         /\ pc' \in {"idle", "stopped"} \cup {Systems[i] : i \in DOMAIN Systems}
PROOF
<1>1. CASE pc' \in {"idle", "stopped"}
  BY <1>1 DEF Control, AfterSpawn
<1>2. CASE GoOn(Systems[k])
  <2>1. /\ pc' \in SystemNames
        /\ pc' = "spawn" => dropEvents' # <<>>
        /\ pc' = "bonuses" => bonusEvents' # <<>>
        /\ pc' = "kicks" => kickEvents' # <<>>
        /\ pc' = "players" => explodedEvents' # <<>>
        /\ k <= 4 /\ pc' \in AfterSpawn => dropEvents' = <<>>
    BY <1>2, GoOnEffects
  <2> QED BY <2>1, SystemsAre DEF Control, SystemNames
<1> QED BY <1>1, <1>2

LEMMA TypeInit == Init => TypeInv
PROOF
<1> SUFFICES ASSUME Init PROVE TypeInv OBVIOUS
<1>1. /\ cells \in [Interior -> {"ground", "dest_wall", "bomb"}]
      /\ walls \in [DestWalls -> {"standing", "lit", "burning", "gone"}]
      /\ players \in [Players -> {"alive", "dead", "gone"}]
      /\ received = 0 /\ made = 0 /\ reported = 0 /\ pc = "idle"
  BY DEF Init
<1>2. bombs \in [Drops -> Bomb] /\ \A b \in Drops : bombs[b].state = "none"
  BY NoBombType DEF Init
<1>3. blasts \in [Drops -> Explosion] BY NoBlastType DEF Init
<1>4. gear \in [Players -> [bombs_count : 0 .. MaxBombsCount, explosion_range : 0 .. MaxRange,
                            can_kick : BOOLEAN]]
  BY ConstantsAssumption DEF Init
<1>5. /\ dropEvents = <<>> /\ bonusEvents = <<>> /\ kickEvents = <<>> /\ explodedEvents = <<>>
      /\ MaxMessages \in Nat /\ MaxDrops \in Nat
  BY ConstantsAssumption DEF Init
<1> QED BY <1>1, <1>2, <1>3, <1>4, <1>5 DEF TypeInv, TypeOK, Control, Fresh, AfterSpawn

\* A bonus only adds to the gear.
LEMMA ApplyBonusIs ==
  ASSUME TypeOK, Control, ApplyBonus
  PROVE  /\ gear' \in [Players -> [bombs_count : 0 .. MaxBombsCount,
                                   explosion_range : 0 .. MaxRange, can_kick : BOOLEAN]]
         /\ gear'["local"].bombs_count >= gear["local"].bombs_count
PROOF
<1> DEFINE Gear == [bombs_count : 0 .. MaxBombsCount, explosion_range : 0 .. MaxRange,
                    can_kick : BOOLEAN]
<1>1. MaxBombsCount \in Nat /\ MaxRange \in Nat BY ConstantsAssumption
<1>2. gear \in [Players -> Gear] /\ "local" \in Players BY DEF TypeOK, Players
<1>3. PICK ev \in [player : Players, bonus : Bonuses] : ev = Head(bonusEvents)
  <2>1. bonusEvents # <<>> /\ bonusEvents \in Seq([player : Players, bonus : Bonuses])
    BY DEF ApplyBonus, TypeOK, Control
  <2> QED BY <2>1, HeadOfSeq
<1>4. ASSUME NEW p, NEW g \in Gear, NEW bonus
      PROVE  Equipped(p, g, bonus) \in Gear /\ Equipped(p, g, bonus).bombs_count >= g.bombs_count
  <2>1. /\ g.bombs_count \in 0 .. MaxBombsCount /\ g.explosion_range \in 0 .. MaxRange
        /\ AtMost(g.explosion_range + 1, MaxRange) \in 0 .. MaxRange
        /\ AtMost(g.explosion_range + MaxRange, MaxRange) \in 0 .. MaxRange
        /\ AtMost(g.bombs_count + 1, MaxBombsCount) \in 0 .. MaxBombsCount
        /\ AtMost(g.bombs_count + 1, MaxBombsCount) >= g.bombs_count
    BY <1>1 DEF AtMost
  <2>2. PICK wider : wider = [g EXCEPT !.explosion_range = AtMost(g.explosion_range + 1, MaxRange)]
    OBVIOUS
  <2>3. PICK widest : widest = [g EXCEPT !.explosion_range = AtMost(g.explosion_range + MaxRange, MaxRange)]
    OBVIOUS
  <2>4. PICK more : more = [g EXCEPT !.bombs_count = AtMost(g.bombs_count + 1, MaxBombsCount)]
    OBVIOUS
  <2>5. PICK kicks : kicks = [g EXCEPT !.can_kick = TRUE] OBVIOUS
  <2>6. PICK r : r = Equipped(p, g, bonus) OBVIOUS
  <2>7. r = wider \/ r = widest \/ r = more \/ r = kicks \/ r = g
    BY <2>2, <2>3, <2>4, <2>5, <2>6 DEF Equipped
  <2>8. /\ wider \in Gear /\ wider.bombs_count = g.bombs_count
        /\ widest \in Gear /\ widest.bombs_count = g.bombs_count
        /\ more \in Gear /\ more.bombs_count = AtMost(g.bombs_count + 1, MaxBombsCount)
        /\ kicks \in Gear /\ kicks.bombs_count = g.bombs_count
    BY <2>1, <2>2, <2>3, <2>4, <2>5
  <2>9. g.bombs_count \in Int BY <2>1
  <2> HIDE DEF Gear
  <2> QED BY <2>1, <2>6, <2>7, <2>8, <2>9
<1>5. ev.player \in Players /\ gear[ev.player] \in Gear BY <1>2, <1>3
<1>6. gear' = IF HasTag(ev.player)
                THEN [gear EXCEPT ![ev.player] = Equipped(ev.player, gear[ev.player], ev.bonus)]
                ELSE gear
  BY <1>3 DEF ApplyBonus
<1>7. \A g \in Gear : g.bombs_count \in Int OBVIOUS
<1> HIDE DEF Gear
<1>8. gear' \in [Players -> Gear] BY <1>2, <1>4, <1>5, <1>6
<1>9. gear'["local"].bombs_count >= gear["local"].bombs_count
  <2>1. gear["local"] \in Gear /\ gear["local"].bombs_count \in Int BY <1>2, <1>7
  <2> QED BY <1>2, <1>4, <1>5, <1>6, <2>1
<1> QED BY <1>8, <1>9 DEF Gear

\* Fresh bombs stay where no bomb was made and no bomb changes.
LEMMA FreshKept ==
  ASSUME TypeInv, UNCHANGED made, Len(dropEvents') <= Len(dropEvents),
         Len(dropEvents') \in Nat,
         \A b \in Drops : bombs[b].state = "none" => bombs'[b].state = "none"
  PROVE  Fresh'
PROOF
<1>1. made \in Nat /\ Len(dropEvents) \in Nat /\ MaxDrops \in Nat
  BY InteriorIs DEF TypeInv, TypeOK
<1> QED BY <1>1 DEF TypeInv, Fresh

\* A message leaves all but its events alone.
LEMMA ReceiveType ==
  ASSUME TypeInv, Receive
  PROVE  /\ received' \in 0 .. MaxMessages /\ pc' = "idle"
         /\ UNCHANGED <<cells, walls, bombs, blasts, players, gear, made, reported>>
PROOF
<1>1. MaxMessages \in Nat BY ConstantsAssumption
<1> QED BY <1>1 DEF Receive, TypeInv, TypeOK

LEMMA TypeStep == TypeInv /\ [Next]_vars => TypeInv'
PROOF
<1> SUFFICES ASSUME TypeInv, [Next]_vars PROVE TypeInv' OBVIOUS
<1>0. /\ TypeOK /\ Control /\ Fresh
      /\ dropEvents \in Seq([player : Players, pos : Interior])
      /\ bonusEvents \in Seq([player : Players, bonus : Bonuses])
      /\ kickEvents \in Seq([pos : Interior, dirs : SUBSET Dirs])
      /\ explodedEvents \in Seq(Players)
      /\ Len(dropEvents) \in Nat
  BY DEF TypeInv, TypeOK
<1>1. ASSUME NEW c \in Interior, ReceiveDropBomb(c) PROVE TypeInv'
  <2>1. /\ received' \in 0 .. MaxMessages /\ pc' = "idle"
        /\ UNCHANGED <<cells, walls, bombs, blasts, players, gear, made, reported>>
        /\ UNCHANGED <<bonusEvents, kickEvents, explodedEvents>>
        /\ dropEvents' = Append(dropEvents, [player |-> "remote", pos |-> c])
        /\ made + Len(dropEvents) < MaxDrops
    BY <1>1, ReceiveType DEF ReceiveDropBomb
  <2>2. dropEvents' \in Seq([player : Players, pos : Interior])
        /\ Len(dropEvents') = Len(dropEvents) + 1
    <3>1. [player |-> "remote", pos |-> c] \in [player : Players, pos : Interior]
      BY DEF Players
    <3> QED BY <1>0, <2>1, <3>1
  <2>3. TypeOK' BY <2>1, <2>2 DEF TypeInv, TypeOK
  <2>4. Control' BY <2>1 DEF Control, AfterSpawn
  <2>5. Fresh'
    <3>1. made \in Nat /\ MaxDrops \in Nat BY InteriorIs DEF TypeInv, TypeOK
    <3> QED BY <1>0, <2>1, <2>2, <3>1 DEF Fresh
  <2> QED BY <2>3, <2>4, <2>5 DEF TypeInv
<1>2. ASSUME NEW c \in Interior, NEW dirs \in SentKicks(c), ReceiveKickBomb(c, dirs)
      PROVE  TypeInv'
  <2>1. /\ received' \in 0 .. MaxMessages /\ pc' = "idle"
        /\ UNCHANGED <<cells, walls, bombs, blasts, players, gear, made, reported>>
        /\ UNCHANGED <<dropEvents, bonusEvents, explodedEvents>>
        /\ kickEvents' = Append(kickEvents, [pos |-> c, dirs |-> dirs])
    BY <1>2, ReceiveType DEF ReceiveKickBomb
  <2>2. kickEvents' \in Seq([pos : Interior, dirs : SUBSET Dirs])
    <3>1. [pos |-> c, dirs |-> dirs] \in [pos : Interior, dirs : SUBSET Dirs]
      BY DEF SentKicks, Kicks
    <3> QED BY <1>0, <2>1, <3>1
  <2>3. TypeOK' BY <2>1, <2>2 DEF TypeInv, TypeOK
  <2>4. Control' BY <2>1 DEF Control, AfterSpawn
  <2>5. Fresh' BY <1>0, <2>1 DEF Fresh
  <2> QED BY <2>3, <2>4, <2>5 DEF TypeInv
<1>3. ASSUME NEW p \in Players, NEW bonus \in Bonuses, ReceiveApplyBonus(p, bonus)
      PROVE  TypeInv'
  <2>1. /\ received' \in 0 .. MaxMessages /\ pc' = "idle"
        /\ UNCHANGED <<cells, walls, bombs, blasts, players, gear, made, reported>>
        /\ UNCHANGED <<dropEvents, kickEvents, explodedEvents>>
        /\ bonusEvents' = Append(bonusEvents, [player |-> p, bonus |-> bonus])
    BY <1>3, ReceiveType DEF ReceiveApplyBonus
  <2>2. bonusEvents' \in Seq([player : Players, bonus : Bonuses])
    <3>1. [player |-> p, bonus |-> bonus] \in [player : Players, bonus : Bonuses]
      OBVIOUS
    <3> QED BY <1>0, <2>1, <3>1
  <2>3. TypeOK' BY <2>1, <2>2 DEF TypeInv, TypeOK
  <2>4. Control' BY <2>1 DEF Control, AfterSpawn
  <2>5. Fresh' BY <1>0, <2>1 DEF Fresh
  <2> QED BY <2>3, <2>4, <2>5 DEF TypeInv
<1>4. CASE ReceiveExploded
  <2>1. /\ received' \in 0 .. MaxMessages /\ pc' = "idle"
        /\ UNCHANGED <<cells, walls, bombs, blasts, players, gear, made, reported>>
        /\ UNCHANGED <<dropEvents, bonusEvents, kickEvents>>
        /\ explodedEvents' = <<"remote">>
    BY <1>4, ReceiveType DEF ReceiveExploded
  <2>2. explodedEvents' \in Seq(Players) BY <2>1 DEF Players
  <2>3. TypeOK' BY <2>1, <2>2 DEF TypeInv, TypeOK
  <2>4. Control' BY <2>1 DEF Control, AfterSpawn
  <2>5. Fresh' BY <1>0, <2>1 DEF Fresh
  <2> QED BY <2>3, <2>4, <2>5 DEF TypeInv
<1>5. CASE ReadInputs
  <2>1. GoOn(Systems[1]) BY <1>5, SystemsAre DEF ReadInputs
  <2>2. Control' /\ pc' \in {"idle", "stopped"} \cup {Systems[i] : i \in DOMAIN Systems}
    BY <2>1, ControlGoes
  <2>3. /\ UNCHANGED <<cells, walls, bombs, blasts, players, gear, bonusEvents, kickEvents,
                       explodedEvents, made, received, reported>>
        /\ \/ UNCHANGED dropEvents
           \/ \E c \in Interior :
                /\ made + Len(dropEvents) < MaxDrops
                /\ dropEvents' = Append(dropEvents, [player |-> "local", pos |-> c])
    BY <1>5 DEF ReadInputs, MayDrop
  <2>4. /\ dropEvents' \in Seq([player : Players, pos : Interior])
        /\ Fresh'
    <3>1. made \in Nat /\ MaxDrops \in Nat BY InteriorIs DEF TypeInv, TypeOK
    <3>2. CASE UNCHANGED dropEvents BY <1>0, <2>3, <3>2 DEF Fresh
    <3>3. ASSUME NEW c \in Interior, made + Len(dropEvents) < MaxDrops,
                 dropEvents' = Append(dropEvents, [player |-> "local", pos |-> c])
          PROVE  dropEvents' \in Seq([player : Players, pos : Interior]) /\ Fresh'
      <4>1. [player |-> "local", pos |-> c] \in [player : Players, pos : Interior]
        BY DEF Players
      <4>2. dropEvents' \in Seq([player : Players, pos : Interior])
            /\ Len(dropEvents') = Len(dropEvents) + 1
        BY <1>0, <3>3, <4>1
      <4> QED BY <1>0, <2>3, <3>1, <3>3, <4>2 DEF Fresh
    <3> QED BY <2>3, <3>2, <3>3
  <2>5. TypeOK' BY <2>2, <2>3, <2>4 DEF TypeInv, TypeOK
  <2> QED BY <2>2, <2>4, <2>5 DEF TypeInv
<1>6. CASE MoveBombs
  <2>1. GoOn(Systems[2]) BY <1>6, SystemsAre DEF MoveBombs
  <2>2. Control' /\ pc' \in {"idle", "stopped"} \cup {Systems[i] : i \in DOMAIN Systems}
    BY <2>1, ControlGoes
  <2>3. /\ UNCHANGED <<cells, walls, blasts, players, gear, made, received, reported>>
        /\ UNCHANGED <<dropEvents, bonusEvents, kickEvents, explodedEvents>>
    BY <1>6 DEF MoveBombs, events
  <2>4. bombs' \in [Drops -> Bomb] /\ \A b \in Drops : bombs'[b].state = bombs[b].state
    BY <1>0, <1>6, MoveBombsIs
  <2>5. Fresh' BY <1>0, <2>3, <2>4, FreshKept
  <2>6. TypeOK' BY <2>2, <2>3, <2>4 DEF TypeInv, TypeOK
  <2> QED BY <2>2, <2>5, <2>6 DEF TypeInv
<1>7. ASSUME NEW b \in Drops, NEW dirs \in Kicks(bombs[b].pos), TouchBomb(b, dirs)
      PROVE  TypeInv'
  <2>1. GoOn(Systems[2]) BY <1>7, SystemsAre DEF TouchBomb
  <2>2. Control' /\ pc' \in {"idle", "stopped"} \cup {Systems[i] : i \in DOMAIN Systems}
    BY <2>1, ControlGoes
  <2>3. UNCHANGED <<cells, walls, blasts, players, gear, dropEvents, bonusEvents,
                    explodedEvents, made, received, reported>>
    BY <1>7 DEF TouchBomb
  <2>4. /\ bombs' \in [Drops -> Bomb] /\ \A x \in Drops : bombs'[x].state = bombs[x].state
        /\ kickEvents' \in Seq([pos : Interior, dirs : SUBSET Dirs])
    BY <1>0, <1>7, TouchBombIs
  <2>5. Fresh' BY <1>0, <2>3, <2>4, FreshKept
  <2>6. TypeOK' BY <2>2, <2>3, <2>4 DEF TypeInv, TypeOK
  <2> QED BY <2>2, <2>5, <2>6 DEF TypeInv
<1>8. CASE EndContacts
  <2>1. GoOn(Systems[3]) BY <1>8, SystemsAre DEF EndContacts
  <2>2. Control' /\ pc' \in {"idle", "stopped"} \cup {Systems[i] : i \in DOMAIN Systems}
    BY <2>1, ControlGoes
  <2>3. /\ UNCHANGED <<cells, walls, bombs, blasts, players, gear, made, received, reported>>
        /\ UNCHANGED <<dropEvents, bonusEvents, kickEvents, explodedEvents>>
    BY <1>8 DEF EndContacts, events
  <2>4. Fresh' BY <1>0, <2>3, FreshKept
  <2>5. TypeOK' BY <2>2, <2>3 DEF TypeInv, TypeOK
  <2> QED BY <2>2, <2>4, <2>5 DEF TypeInv
<1>9. ASSUME NEW b \in Drops, HitBomb(b) PROVE TypeInv'
  <2>1. GoOn(Systems[3]) \/ pc' = "stopped" BY <1>9, SystemsAre DEF HitBomb, GoOnIf
  <2>2. Control' /\ pc' \in {"idle", "stopped"} \cup {Systems[i] : i \in DOMAIN Systems}
    BY <2>1, ControlGoes
  <2>3. /\ UNCHANGED <<walls, players, gear, made, received, reported>>
        /\ UNCHANGED <<dropEvents, bonusEvents, kickEvents, explodedEvents>>
        /\ BombExplode(b) /\ bombs[b].state # "none"
    BY <1>9 DEF HitBomb, events, BombsGroup
  <2>4. /\ bombs' \in [Drops -> Bomb] /\ blasts' \in [Drops -> Explosion]
        /\ cells' \in [Interior -> {"ground", "dest_wall", "bomb"}]
        /\ \A x \in Drops : bombs[x].state = "none" => bombs'[x].state = "none"
    BY <1>0, <2>3, BombExplodeIs
  <2>5. Fresh' BY <1>0, <2>3, <2>4, FreshKept
  <2>6. TypeOK' BY <2>2, <2>3, <2>4 DEF TypeInv, TypeOK
  <2> QED BY <2>2, <2>5, <2>6 DEF TypeInv
<1>10. CASE EndBlasts
  <2>1. GoOn(Systems[4]) BY <1>10, SystemsAre DEF EndBlasts
  <2>2. Control' /\ pc' \in {"idle", "stopped"} \cup {Systems[i] : i \in DOMAIN Systems}
    BY <2>1, ControlGoes
  <2>3. UNCHANGED <<cells, bombs, blasts, players, gear, dropEvents, bonusEvents,
                    kickEvents, made, received, reported>>
    BY <1>10 DEF EndBlasts
  <2>4. walls' \in [DestWalls -> {"standing", "lit", "burning", "gone"}]
    BY <1>10 DEF EndBlasts, TypeInv, TypeOK
  <2>5. explodedEvents' \in Seq(Players)
    <3>1. PICK hits \in 0 .. 2 : explodedEvents' = explodedEvents \o [i \in 1 .. hits |-> "local"]
      BY <1>10 DEF EndBlasts
    <3>2. [i \in 1 .. hits |-> "local"] \in Seq(Players) BY DEF Players
    <3> QED BY <1>0, <3>1, <3>2
  <2>6. Fresh' BY <1>0, <2>3, FreshKept
  <2>7. TypeOK' BY <2>2, <2>3, <2>4, <2>5 DEF TypeInv, TypeOK
  <2> QED BY <2>2, <2>6, <2>7 DEF TypeInv
<1>11. CASE SpawnBomb
  <2>1. GoOn(Systems[4]) \/ pc' = "stopped" BY <1>11, SystemsAre DEF SpawnBomb, GoOnIf
  <2>2. Control' /\ pc' \in {"idle", "stopped"} \cup {Systems[i] : i \in DOMAIN Systems}
    BY <2>1, ControlGoes
  <2>3. UNCHANGED <<walls, blasts, players, gear, bonusEvents, kickEvents,
                    explodedEvents, received, reported>>
    BY <1>11 DEF SpawnBomb
  <2>4. /\ made + 1 \in Drops /\ made' = made + 1
        /\ Head(dropEvents) \in [player : Players, pos : Interior]
        /\ dropEvents' = Tail(dropEvents) /\ dropEvents # <<>>
        /\ bombs' \in [Drops -> Bomb]
        /\ \A x \in Drops : x # made + 1 => bombs'[x] = bombs[x]
        /\ cells' = [cells EXCEPT ![Head(dropEvents).pos] = "bomb"]
    BY <1>11, SpawnBombIs
  <2>5. cells' \in [Interior -> {"ground", "dest_wall", "bomb"}]
    BY <2>4 DEF TypeInv, TypeOK
  <2>6. /\ dropEvents' \in Seq([player : Players, pos : Interior])
        /\ Len(dropEvents') = Len(dropEvents) - 1
    BY <1>0, <2>4, HeadOfSeq
  <2>7. made \in Nat /\ MaxDrops \in Nat /\ made' \in 0 .. MaxDrops
    BY <2>4, InteriorIs DEF TypeInv, TypeOK, Drops
  <2>8. Fresh'
    <3>1. made' + Len(dropEvents') <= MaxDrops
      <4>1. made + Len(dropEvents) <= MaxDrops BY <1>0 DEF Fresh
      <4>2. made' = made + 1 BY <2>4
      <4> QED BY ONLY <4>1, <4>2, <1>0, <2>6, <2>7
    <3>2. ASSUME NEW x \in Drops, x > made' PROVE bombs'[x].state = "none"
      <4>1. x \in Nat BY DEF Drops
      <4>2. x # made + 1 /\ x > made BY <2>4, <2>7, <3>2, <4>1
      <4>3. bombs[x].state = "none" BY <1>0, <4>2 DEF Fresh
      <4> QED BY <2>4, <4>2, <4>3
    <3> QED BY <3>1, <3>2 DEF Fresh
  <2>9. TypeOK' BY <2>2, <2>3, <2>4, <2>5, <2>6, <2>7 DEF TypeInv, TypeOK
  <2> QED BY <2>2, <2>8, <2>9 DEF TypeInv
<1>12. CASE ApplyBonus
  <2>0. pc = "bonuses" /\ dropEvents = <<>> /\ bonusEvents # <<>>
    BY <1>0, <1>12 DEF ApplyBonus, Control, AfterSpawn
  <2>1. GoOn(Systems[5]) \/ pc' = "stopped" BY <1>12, SystemsAre DEF ApplyBonus, GoOnIf
  <2>3. UNCHANGED <<cells, walls, bombs, blasts, players, dropEvents, kickEvents,
                    explodedEvents, made, received, reported>>
    BY <1>12 DEF ApplyBonus
  <2>2. Control' /\ pc' \in {"idle", "stopped"} \cup {Systems[i] : i \in DOMAIN Systems}
    BY <2>0, <2>1, <2>3, ControlGoes
  <2>4. bonusEvents' \in Seq([player : Players, bonus : Bonuses])
    BY <1>0, <1>12, <2>0, HeadOfSeq DEF ApplyBonus
  <2>5. gear' \in [Players -> [bombs_count : 0 .. MaxBombsCount, explosion_range : 0 .. MaxRange,
                               can_kick : BOOLEAN]]
    BY <1>12, ApplyBonusIs DEF TypeInv
  <2>6. Fresh' BY <1>0, <2>3, FreshKept
  <2>7. TypeOK' BY <2>2, <2>3, <2>4, <2>5 DEF TypeInv, TypeOK
  <2> QED BY <2>2, <2>6, <2>7 DEF TypeInv
<1>13. CASE KickBomb
  <2>0. pc = "kicks" /\ dropEvents = <<>>
    BY <1>0, <1>13 DEF KickBomb, Control, AfterSpawn
  <2>1. GoOn(Systems[6]) \/ pc' = "stopped" BY <1>13, SystemsAre DEF KickBomb, GoOnIf
  <2>3. UNCHANGED <<walls, blasts, players, gear, dropEvents, bonusEvents,
                    explodedEvents, made, received, reported>>
    BY <1>13 DEF KickBomb
  <2>2. Control' /\ pc' \in {"idle", "stopped"} \cup {Systems[i] : i \in DOMAIN Systems}
    BY <2>0, <2>1, <2>3, ControlGoes
  <2>4. /\ bombs' \in [Drops -> Bomb]
        /\ cells' \in [Interior -> {"ground", "dest_wall", "bomb"}]
        /\ kickEvents' \in Seq([pos : Interior, dirs : SUBSET Dirs])
        /\ \A x \in Drops : bombs'[x].state = bombs[x].state
    BY <1>13, KickBombIs
  <2>5. Fresh' BY <1>0, <2>3, <2>4, FreshKept
  <2>6. TypeOK' BY <2>2, <2>3, <2>4 DEF TypeInv, TypeOK
  <2> QED BY <2>2, <2>5, <2>6 DEF TypeInv
<1>14. CASE ExpireOthers
  <2>0. pc = "lifetimes" /\ dropEvents = <<>>
    BY <1>0, <1>14 DEF ExpireOthers, Control, AfterSpawn
  <2>1. GoOn(Systems[8]) BY <1>14, SystemsAre DEF ExpireOthers
  <2>3. /\ UNCHANGED <<bombs, gear, made, received, reported>>
        /\ UNCHANGED <<dropEvents, bonusEvents, kickEvents, explodedEvents>>
    BY <1>14 DEF ExpireOthers, events
  <2>2. Control' /\ pc' \in {"idle", "stopped"} \cup {Systems[i] : i \in DOMAIN Systems}
    BY <2>0, <2>1, <2>3, ControlGoes
  <2>4. PICK ws \in SUBSET {c \in DestWalls : walls[c] = "burning"}, ss \in SUBSET Burning :
          /\ walls' = [c \in DestWalls |-> IF c \in ws THEN "gone" ELSE walls[c]]
          /\ cells' = [c \in Interior |-> IF c \in ws THEN "ground" ELSE cells[c]]
          /\ blasts' = [s \in Drops |-> IF s \in ss THEN [blasts[s] EXCEPT !.state = "marked"]
                                        ELSE blasts[s]]
    BY <1>14 DEF ExpireOthers
  <2>5. /\ walls' \in [DestWalls -> {"standing", "lit", "burning", "gone"}]
        /\ cells' \in [Interior -> {"ground", "dest_wall", "bomb"}]
    BY <2>4 DEF TypeInv, TypeOK
  <2>6. blasts' \in [Drops -> Explosion]
    <3>1. ASSUME NEW s \in Drops PROVE [blasts[s] EXCEPT !.state = "marked"] \in Explosion
      <4>1. PICK blast \in Explosion : blast = blasts[s] BY DEF TypeInv, TypeOK
      <4>2. [blast EXCEPT !.state = "marked"] \in Explosion BY DEF Explosion
      <4> QED BY <4>1, <4>2
    <3> QED BY <2>4, <3>1 DEF TypeInv, TypeOK
  <2>7. players' \in [Players -> {"alive", "dead", "gone"}]
    <3>1. players' = [players EXCEPT !["local"] = "gone"] \/ players' = players
      BY <1>14 DEF ExpireOthers
    <3>2. players \in [Players -> {"alive", "dead", "gone"}] BY DEF TypeInv, TypeOK
    <3> QED BY <3>1, <3>2
  <2>8. Fresh' BY <1>0, <2>3, FreshKept
  <2>9. TypeOK' BY <2>2, <2>3, <2>5, <2>6, <2>7 DEF TypeInv, TypeOK
  <2> QED BY <2>2, <2>8, <2>9 DEF TypeInv
<1>15. ASSUME NEW b \in Drops, ExpireBomb(b) PROVE TypeInv'
  <2>0. pc = "bombs" /\ dropEvents = <<>>
    BY <1>0, <1>15 DEF ExpireBomb, Control, AfterSpawn
  <2>1. GoOn(Systems[8]) \/ pc' = "stopped" BY <1>15, SystemsAre DEF ExpireBomb, GoOnIf
  <2>3. /\ UNCHANGED <<walls, players, gear, made, received, reported>>
        /\ UNCHANGED <<dropEvents, bonusEvents, kickEvents, explodedEvents>>
        /\ BombExplode(b) /\ bombs[b].state # "none"
    BY <1>15 DEF ExpireBomb, events, HasNoMark
  <2>2. Control' /\ pc' \in {"idle", "stopped"} \cup {Systems[i] : i \in DOMAIN Systems}
    BY <2>0, <2>1, <2>3, ControlGoes
  <2>4. /\ bombs' \in [Drops -> Bomb] /\ blasts' \in [Drops -> Explosion]
        /\ cells' \in [Interior -> {"ground", "dest_wall", "bomb"}]
        /\ \A x \in Drops : bombs[x].state = "none" => bombs'[x].state = "none"
    BY <1>0, <2>3, BombExplodeIs
  <2>5. Fresh' BY <1>0, <2>3, <2>4, FreshKept
  <2>6. TypeOK' BY <2>2, <2>3, <2>4 DEF TypeInv, TypeOK
  <2> QED BY <2>2, <2>5, <2>6 DEF TypeInv
<1>16. CASE EndLifetimes
  <2>0. pc = "bombs" /\ dropEvents = <<>>
    BY <1>0, <1>16 DEF EndLifetimes, Control, AfterSpawn
  <2>1. GoOn(Systems[9]) BY <1>16, SystemsAre DEF EndLifetimes
  <2>3. /\ UNCHANGED <<cells, walls, bombs, blasts, players, gear, made, received, reported>>
        /\ UNCHANGED <<dropEvents, bonusEvents, kickEvents, explodedEvents>>
    BY <1>16 DEF EndLifetimes, events
  <2>2. Control' /\ pc' \in {"idle", "stopped"} \cup {Systems[i] : i \in DOMAIN Systems}
    BY <2>0, <2>1, <2>3, ControlGoes
  <2>4. Fresh' BY <1>0, <2>3, FreshKept
  <2>5. TypeOK' BY <2>2, <2>3 DEF TypeInv, TypeOK
  <2> QED BY <2>2, <2>4, <2>5 DEF TypeInv
<1>17. CASE ExplodePlayer
  <2>0. pc = "players" /\ dropEvents = <<>> /\ explodedEvents # <<>>
    BY <1>0, <1>17 DEF ExplodePlayer, Control, AfterSpawn
  <2>1. GoOn(Systems[9]) BY <1>17, SystemsAre DEF ExplodePlayer
  <2>3. UNCHANGED <<cells, walls, bombs, blasts, gear, dropEvents, bonusEvents,
                    kickEvents, made, received>>
    BY <1>17 DEF ExplodePlayer
  <2>2. Control' /\ pc' \in {"idle", "stopped"} \cup {Systems[i] : i \in DOMAIN Systems}
    BY <2>0, <2>1, <2>3, ControlGoes
  <2>4. explodedEvents' \in Seq(Players) /\ Head(explodedEvents) \in Players
    BY <1>0, <1>17, <2>0, HeadOfSeq DEF ExplodePlayer
  <2>5. players' \in [Players -> {"alive", "dead", "gone"}] /\ reported' \in Nat
    <3>1. /\ \/ players' = players
             \/ players' = [players EXCEPT ![Head(explodedEvents)] = "dead"]
          /\ reported' = reported \/ reported' = reported + 1
      BY <1>17 DEF ExplodePlayer
    <3>2. players \in [Players -> {"alive", "dead", "gone"}] /\ reported \in Nat
      BY DEF TypeInv, TypeOK
    <3> QED BY <3>1, <3>2
  <2>6. Fresh' BY <1>0, <2>3, FreshKept
  <2>7. TypeOK' BY <2>2, <2>3, <2>4, <2>5 DEF TypeInv, TypeOK
  <2> QED BY <2>2, <2>6, <2>7 DEF TypeInv
<1>18. CASE EndUpdate
  <2>1. /\ pc' = "idle"
        /\ UNCHANGED <<cells, players, gear, made, received, reported>>
        /\ UNCHANGED <<dropEvents, bonusEvents, kickEvents, explodedEvents>>
    BY <1>18 DEF EndUpdate, events
  <2>2. /\ bombs' \in [Drops -> Bomb] /\ blasts' \in [Drops -> Explosion]
        /\ \A b \in Drops : bombs[b].state = "none" => bombs'[b].state = "none"
    BY <1>0, <1>18, EndUpdateIs
  <2>3. walls' \in [DestWalls -> {"standing", "lit", "burning", "gone"}]
    BY <1>18 DEF EndUpdate, TypeInv, TypeOK
  <2>4. Control' BY <2>1 DEF Control, AfterSpawn
  <2>5. Fresh' BY <1>0, <2>1, <2>2, FreshKept
  <2>6. TypeOK' BY <2>1, <2>2, <2>3 DEF TypeInv, TypeOK
  <2> QED BY <2>4, <2>5, <2>6 DEF TypeInv
<1>19. CASE UNCHANGED vars
  BY <1>19 DEF vars, events, TypeInv, TypeOK, Control, Fresh
<1> QED
  BY <1>1, <1>2, <1>3, <1>4, <1>5, <1>6, <1>7, <1>8, <1>9, <1>10, <1>11, <1>12, <1>13, <1>14,
     <1>15, <1>16, <1>17, <1>18, <1>19 DEF Next, System, ExpireOldestBomb

\* The variables have their types, a system is next only when it has work, and
\* bombs are left for all drops.
THEOREM TypeCorrect == Spec => []TypeOK
PROOF
<1>1. Spec => []TypeInv BY TypeInit, TypeStep, PTL DEF Spec
<1>2. TypeInv => TypeOK BY DEF TypeInv
<1> QED BY <1>1, <1>2, PTL

-----------------------------------------------------------------------------
(* What a blast hits.                                                      *)

\* A cell is in sight just if the blast reaches it or the cell before it.
LEMMA SightIs ==
  ASSUME NEW c, NEW d, NEW range \in Nat, NEW n \in 1 .. range
  PROVE  (\A i \in 1 .. n - 1 : CellAt(Ahead(c, d, i)) = "ground") <=> n - 1 <= Reach(c, d, range)
PROOF
<1>1. PICK r \in 0 .. range : r = Reach(c, d, range) BY ReachIs
<1>2. /\ \A i \in 1 .. r : CellAt(Ahead(c, d, i)) = "ground"
      /\ \A m \in 0 .. range : (\A i \in 1 .. m : CellAt(Ahead(c, d, i)) = "ground") => m <= r
  BY <1>1, ReachIs
<1>3. n - 1 \in 0 .. range /\ n \in Nat OBVIOUS
<1>4. ASSUME n - 1 <= r PROVE \A i \in 1 .. n - 1 : CellAt(Ahead(c, d, i)) = "ground"
  <2>1. \A i \in 1 .. n - 1 : i \in 1 .. r BY <1>1, <1>3, <1>4
  <2> QED BY <1>2, <2>1
<1> QED BY <1>1, <1>2, <1>3, <1>4

\* The cells in sight along a row or a column are those at the four sides, as far as
\* a blast reaches and one more, and no further than its range.
LEMMA InSightIs ==
  ASSUME NEW c \in Interior, NEW range \in Nat, NEW t \in Interior
  PROVE  InSight(c, range, t) <=>
           \/ t = c
           \/ \E d \in Dirs, n \in 1 .. range : t = Ahead(c, d, n) /\ n - 1 <= Reach(c, d, range)
PROOF BY SightIs DEF InSight

\* A cell is a pair of whole numbers; a step changes one of them.
LEMMA CellIs ==
  ASSUME NEW c \in Interior, NEW t \in Interior, NEW n \in Int
  PROVE  /\ c[1] \in Int /\ c[2] \in Int
         /\ t = c <=> t[1] = c[1] /\ t[2] = c[2]
         /\ t = Ahead(c, "left", n) <=> t[1] = c[1] - n /\ t[2] = c[2]
         /\ t = Ahead(c, "right", n) <=> t[1] = c[1] + n /\ t[2] = c[2]
         /\ t = Ahead(c, "up", n) <=> t[1] = c[1] /\ t[2] = c[2] - n
         /\ t = Ahead(c, "down", n) <=> t[1] = c[1] /\ t[2] = c[2] + n
PROOF
<1>1. PICK x \in Int, y \in Int : c = <<x, y>> BY InteriorIs
<1>2. PICK u \in Int, v \in Int : t = <<u, v>> BY InteriorIs
<1>3. /\ Ahead(c, "left", n) = <<x - n, y>> /\ Ahead(c, "right", n) = <<x + n, y>>
      /\ Ahead(c, "up", n) = <<x, y - n>> /\ Ahead(c, "down", n) = <<x, y + n>>
  BY <1>1 DEF Ahead
<1> QED BY <1>1, <1>2, <1>3

\* The fields of a new blast.
LEMMA NewBlastIs ==
  ASSUME NEW c, NEW range
  PROVE  /\ NewBlast(c, range).center = c /\ NewBlast(c, range).range = range
         /\ \A d \in Dirs : NewBlast(c, range).reach[d] = Reach(c, d, range)
PROOF BY DEF NewBlast

LEMMA HitsInSight ==
  ASSUME NEW c \in Interior, NEW range \in Nat, NEW t \in Interior
  PROVE  Hits(NewBlast(c, range), t) <=> InSight(c, range, t)
PROOF
<1>1. /\ c[1] \in Int /\ c[2] \in Int /\ t[1] \in Int /\ t[2] \in Int
      /\ t = c <=> t[1] = c[1] /\ t[2] = c[2]
  <2>1. 0 \in Int OBVIOUS
  <2> QED BY <2>1, CellIs
<1>2. \A d \in Dirs : Reach(c, d, range) \in 0 .. range BY ReachIs
<1>3. PICK l \in 0 .. range, r \in 0 .. range, u \in 0 .. range, w \in 0 .. range :
        /\ l = Reach(c, "left", range) /\ r = Reach(c, "right", range)
        /\ u = Reach(c, "up", range) /\ w = Reach(c, "down", range)
  BY <1>2 DEF Dirs
<1>4. PICK x \in Int, y \in Int, a \in Int, b \in Int :
        x = c[1] /\ y = c[2] /\ a = t[1] /\ b = t[2]
  BY <1>1
<1>5. Hits(NewBlast(c, range), t) <=>
        \/ b = y /\ a + 1 >= x - l /\ a <= x + r + 1 /\ Abs(a - x) <= range
        \/ a = x /\ b + 1 >= y - u /\ b <= y + w + 1 /\ Abs(b - y) <= range
  <2>1. "left" \in Dirs /\ "right" \in Dirs /\ "up" \in Dirs /\ "down" \in Dirs
    BY DEF Dirs
  <2> QED BY <1>3, <1>4, <2>1, NewBlastIs DEF Hits, HitsH, HitsV
<1>6. InSight(c, range, t) <=>
        \/ a = x /\ b = y
        \/ \E n \in 1 .. range :
             \/ a = x - n /\ b = y /\ n - 1 <= l
             \/ a = x + n /\ b = y /\ n - 1 <= r
             \/ a = x /\ b = y - n /\ n - 1 <= u
             \/ a = x /\ b = y + n /\ n - 1 <= w
  <2>1. InSight(c, range, t) <=>
           \/ t = c
           \/ \E d \in Dirs, n \in 1 .. range : t = Ahead(c, d, n) /\ n - 1 <= Reach(c, d, range)
    BY InSightIs
  <2>2. \A n \in 1 .. range :
          /\ t = Ahead(c, "left", n) <=> a = x - n /\ b = y
          /\ t = Ahead(c, "right", n) <=> a = x + n /\ b = y
          /\ t = Ahead(c, "up", n) <=> a = x /\ b = y - n
          /\ t = Ahead(c, "down", n) <=> a = x /\ b = y + n
    <3> TAKE n \in 1 .. range
    <3>1. n \in Int OBVIOUS
    <3>2. /\ t = Ahead(c, "left", n) <=> t[1] = c[1] - n /\ t[2] = c[2]
          /\ t = Ahead(c, "right", n) <=> t[1] = c[1] + n /\ t[2] = c[2]
          /\ t = Ahead(c, "up", n) <=> t[1] = c[1] /\ t[2] = c[2] - n
          /\ t = Ahead(c, "down", n) <=> t[1] = c[1] /\ t[2] = c[2] + n
      BY <3>1, CellIs
    <3> QED BY <1>4, <3>2
  <2> QED BY <1>1, <1>3, <1>4, <2>1, <2>2 DEF Dirs
<1> DEFINE OnSide(n) == \/ a = x - n /\ b = y /\ n - 1 <= l
                        \/ a = x + n /\ b = y /\ n - 1 <= r
                        \/ a = x /\ b = y - n /\ n - 1 <= u
                        \/ a = x /\ b = y + n /\ n - 1 <= w
           Touched == \/ b = y /\ a + 1 >= x - l /\ a <= x + r + 1 /\ Abs(a - x) <= range
                      \/ a = x /\ b + 1 >= y - u /\ b <= y + w + 1 /\ Abs(b - y) <= range
<1>7. ASSUME NEW n \in 1 .. range, OnSide(n) PROVE Touched
  BY <1>7 DEF Abs
<1>8. a = x /\ b = y => Touched BY DEF Abs
<1>9. ASSUME Touched PROVE (a = x /\ b = y) \/ \E n \in 1 .. range : OnSide(n)
  <2>1. CASE b = y /\ a > x /\ Touched
    <3>1. a - x \in 1 .. range /\ OnSide(a - x) BY <2>1 DEF Abs
    <3> QED BY <3>1
  <2>2. CASE b = y /\ a < x /\ Touched
    <3>1. x - a \in 1 .. range /\ OnSide(x - a) BY <2>2 DEF Abs
    <3> QED BY <3>1
  <2>3. CASE a = x /\ b > y /\ Touched
    <3>1. b - y \in 1 .. range /\ OnSide(b - y) BY <2>3 DEF Abs
    <3> QED BY <3>1
  <2>4. CASE a = x /\ b < y /\ Touched
    <3>1. y - b \in 1 .. range /\ OnSide(y - b) BY <2>4 DEF Abs
    <3> QED BY <3>1
  <2>5. b = y \/ a = x BY <1>9
  <2>6. (a > x \/ a < x \/ a = x) /\ (b > y \/ b < y \/ b = y) OBVIOUS
  <2> HIDE DEF Touched, OnSide
  <2> QED BY <1>9, <2>1, <2>2, <2>3, <2>4, <2>5, <2>6
<1> QED BY <1>5, <1>6, <1>7, <1>8, <1>9

\* Colliders and hooks together hit exactly what is in the sight of an explosion.
THEOREM BlastsHit == Spec => []BlastsHitWhatTheySee
PROOF
<1>1. BlastsHitWhatTheySee BY HitsInSight, InteriorIs DEF BlastsHitWhatTheySee
<1> QED BY <1>1, PTL

-----------------------------------------------------------------------------
(* Bombs.                                                                  *)

\* A bomb has exploded only if it has left the group, and a bomb that lies on its
\* cell does not roll.
BombsInv ==
  \A b \in Drops :
    /\ bombs[b].explosions <= 1
    /\ bombs[b].state \in {"none", "fresh", "live"} => bombs[b].explosions = 0
    /\ bombs[b].still => bombs[b].rolls = {}

SafeInv == TypeInv /\ BombsInv /\ NoGhosts

\* Nothing becomes a ghost where bombs that lie on a cell of the map stay, or their
\* cell is freed.
LEMMA NoGhostsKept ==
  ASSUME NoGhosts,
         \A c \in Interior : cells'[c] = cells[c] \/ cells'[c] = "ground",
         \A b \in Drops : bombs[b].state \in {"fresh", "live"} /\ bombs[b].still =>
           \/ /\ bombs'[b].state \in {"fresh", "live"} /\ bombs'[b].still
              /\ bombs'[b].pos = bombs[b].pos
           \/ cells'[bombs[b].pos] = "ground",
         \A c \in DestWalls : walls'[c] = "gone" => walls[c] = "gone" \/ cells'[c] = "ground"
  PROVE  NoGhosts'
PROOF
<1> SUFFICES ASSUME NEW c \in Interior
             PROVE  /\ cells'[c] = "bomb" => \E b \in BombsAt(c)' : bombs'[b].still
                    /\ cells'[c] = "dest_wall" => c \in DestWalls /\ walls'[c] # "gone"
  BY DEF NoGhosts
<1>1. ASSUME cells'[c] = "bomb" PROVE \E b \in BombsAt(c)' : bombs'[b].still
  <2>1. cells[c] = "bomb" BY <1>1
  <2>2. PICK b \in BombsAt(c) : bombs[b].still BY <2>1 DEF NoGhosts
  <2>3. b \in Drops /\ bombs[b].state \in {"fresh", "live"} /\ bombs[b].pos = c
    BY <2>2 DEF BombsAt, BombsGroup
  <2>4. /\ bombs'[b].state \in {"fresh", "live"} /\ bombs'[b].still /\ bombs'[b].pos = c
    BY <1>1, <2>2, <2>3
  <2>5. b \in BombsAt(c)' BY <2>3, <2>4 DEF BombsAt, BombsGroup
  <2> QED BY <2>4, <2>5
<1>2. ASSUME cells'[c] = "dest_wall" PROVE c \in DestWalls /\ walls'[c] # "gone"
  BY <1>2 DEF NoGhosts
<1> QED BY <1>1, <1>2

\* An explosion leaves no ghost and counts once.
LEMMA ExplodeSafe ==
  ASSUME SafeInv, NEW b \in BombsGroup, BombExplode(b), UNCHANGED walls
  PROVE  BombsInv' /\ NoGhosts'
PROOF
<1>1. TypeOK /\ BombsInv /\ NoGhosts /\ b \in Drops /\ bombs[b].state \in {"fresh", "live"}
  BY DEF SafeInv, TypeInv, BombsGroup
<1>2. /\ \A x \in Drops : x # b => bombs'[x] = bombs[x]
      /\ bombs'[b].state = "marked" /\ bombs'[b].explosions = bombs[b].explosions + 1
      /\ cells' = [cells EXCEPT ![bombs[b].pos] = "ground"] /\ bombs[b].pos \in Interior
  BY <1>1, BombExplodeIs
<1>3. bombs'[b].still = bombs[b].still /\ bombs'[b].rolls = bombs[b].rolls
  <2>1. PICK bomb \in Bomb : bomb = bombs[b] BY <1>1 DEF TypeOK
  <2>2. bombs' = [bombs EXCEPT ![b] = [bomb EXCEPT !.state = "marked", !.explosions = @ + 1]]
    BY <2>1 DEF BombExplode
  <2>3. bombs \in [Drops -> Bomb] BY <1>1 DEF TypeOK
  <2>4. bombs'[b] = [bomb EXCEPT !.state = "marked", !.explosions = @ + 1]
    BY <1>1, <2>2, <2>3
  <2> QED BY <2>1, <2>4 DEF Bomb
<1>4. BombsInv'
  <2> SUFFICES ASSUME NEW x \in Drops
               PROVE  /\ bombs'[x].explosions <= 1
                      /\ bombs'[x].state \in {"none", "fresh", "live"} => bombs'[x].explosions = 0
                      /\ bombs'[x].still => bombs'[x].rolls = {}
    BY DEF BombsInv
  <2>1. CASE x = b BY <1>1, <1>2, <1>3, <2>1 DEF BombsInv
  <2>2. CASE x # b BY <1>1, <1>2, <2>2 DEF BombsInv
  <2> QED BY <2>1, <2>2
<1>5. cells \in [Interior -> {"ground", "dest_wall", "bomb"}] BY <1>1 DEF TypeOK
<1>6. /\ \A c \in Interior : cells'[c] = cells[c] \/ cells'[c] = "ground"
      /\ cells'[bombs[b].pos] = "ground"
  BY <1>2, <1>5
<1>7. \A x \in Drops : bombs[x].state \in {"fresh", "live"} /\ bombs[x].still =>
        \/ /\ bombs'[x].state \in {"fresh", "live"} /\ bombs'[x].still
           /\ bombs'[x].pos = bombs[x].pos
        \/ cells'[bombs[x].pos] = "ground"
  BY <1>2, <1>6
<1>8. NoGhosts' BY <1>1, <1>6, <1>7, NoGhostsKept
<1> QED BY <1>4, <1>8

LEMMA SafeInit == Init => SafeInv
PROOF
<1> SUFFICES ASSUME Init PROVE SafeInv OBVIOUS
<1>1. TypeInv BY TypeInit
<1>2. BombsInv BY DEF Init, BombsInv, NoBomb
<1>3. NoGhosts
  <2>1. \A c \in Interior : c \in Ground \/ c \in DestWalls BY InteriorIs
  <2> QED BY <2>1 DEF Init, NoGhosts
<1> QED BY <1>1, <1>2, <1>3 DEF SafeInv

LEMMA SafeStep == SafeInv /\ [Next]_vars => SafeInv'
PROOF
<1> SUFFICES ASSUME SafeInv, [Next]_vars PROVE SafeInv' OBVIOUS
<1>0. TypeInv /\ TypeOK /\ BombsInv /\ NoGhosts /\ TypeInv'
  BY TypeStep DEF SafeInv, TypeInv
<1> SUFFICES BombsInv' /\ NoGhosts' BY <1>0 DEF SafeInv
<1>1. ASSUME UNCHANGED <<cells, walls, bombs>> PROVE BombsInv' /\ NoGhosts'
  BY <1>0, <1>1 DEF BombsInv, NoGhosts, BombsAt, BombsGroup
<1>2. ASSUME Receive \/ ReadInputs \/ EndContacts \/ ApplyBonus \/ EndLifetimes
             \/ ExplodePlayer \/ UNCHANGED vars
      PROVE  UNCHANGED <<cells, walls, bombs>>
  BY <1>2 DEF Receive, ReadInputs, EndContacts, ApplyBonus, EndLifetimes, ExplodePlayer, vars
<1>3. CASE MoveBombs
  <2>1. UNCHANGED <<cells, walls>> BY <1>3 DEF MoveBombs
  <2>2. \A b \in Drops :
          /\ bombs'[b].state = bombs[b].state /\ bombs'[b].explosions = bombs[b].explosions
          /\ bombs'[b].still = bombs[b].still /\ bombs'[b].rolls \subseteq bombs[b].rolls
          /\ bombs[b].rolls = {} => bombs'[b] = bombs[b]
    BY <1>0, <1>3, MoveBombsIs
  <2>3. BombsInv' BY <1>0, <2>2 DEF BombsInv
  <2>4. \A b \in Drops : bombs[b].still => bombs'[b] = bombs[b] BY <1>0, <2>2 DEF BombsInv
  <2>5. NoGhosts' BY <1>0, <2>1, <2>4, NoGhostsKept
  <2> QED BY <2>3, <2>5
<1>4. ASSUME NEW b \in Drops, NEW dirs \in Kicks(bombs[b].pos), TouchBomb(b, dirs)
      PROVE  BombsInv' /\ NoGhosts'
  <2>1. UNCHANGED <<cells, walls>> BY <1>4 DEF TouchBomb
  <2>2. \A x \in Drops :
          /\ bombs'[x].state = bombs[x].state /\ bombs'[x].explosions = bombs[x].explosions
          /\ bombs'[x].still = bombs[x].still /\ bombs'[x].rolls = bombs[x].rolls
          /\ bombs'[x].pos = bombs[x].pos
    BY <1>0, <1>4, TouchBombIs
  <2>3. BombsInv' BY <1>0, <2>2 DEF BombsInv
  <2>4. NoGhosts' BY <1>0, <2>1, <2>2, NoGhostsKept
  <2> QED BY <2>3, <2>4
<1>5. ASSUME NEW b \in Drops, HitBomb(b) PROVE BombsInv' /\ NoGhosts'
  BY <1>5, ExplodeSafe DEF HitBomb
<1>6. CASE EndBlasts
  <2>1. UNCHANGED <<cells, bombs>> BY <1>6 DEF EndBlasts
  <2>2. \A c \in DestWalls : walls'[c] = "gone" => walls[c] = "gone" BY <1>6 DEF EndBlasts
  <2>3. BombsInv' BY <1>0, <2>1 DEF BombsInv
  <2>4. NoGhosts' BY <1>0, <2>1, <2>2, NoGhostsKept
  <2> QED BY <2>3, <2>4
<1>7. CASE SpawnBomb
  <2>1. PICK n \in Drops, c \in Interior :
          /\ \A x \in Drops : x # n => bombs'[x] = bombs[x]
          /\ bombs'[n].state = "fresh" /\ bombs'[n].pos = c /\ bombs'[n].still
          /\ bombs'[n].rolls = {} /\ bombs'[n].explosions = 0
          /\ cells' = [cells EXCEPT ![c] = "bomb"] /\ bombs[n].state = "none"
    <3>1. PICK ev : ev = Head(dropEvents) OBVIOUS
    <3>2. ev.pos \in Interior BY <1>0, <1>7, <3>1, SpawnBombIs
    <3> QED BY <1>0, <1>7, <3>1, <3>2, SpawnBombIs
  <2>2. BombsInv'
    <3> SUFFICES ASSUME NEW x \in Drops
                 PROVE  /\ bombs'[x].explosions <= 1
                        /\ bombs'[x].state \in {"none", "fresh", "live"} => bombs'[x].explosions = 0
                        /\ bombs'[x].still => bombs'[x].rolls = {}
      BY DEF BombsInv
    <3>1. CASE x = n BY <2>1, <3>1
    <3>2. CASE x # n BY <1>0, <2>1, <3>2 DEF BombsInv
    <3> QED BY <3>1, <3>2
  <2>3. UNCHANGED walls BY <1>7 DEF SpawnBomb
  <2>4. cells \in [Interior -> {"ground", "dest_wall", "bomb"}] BY <1>0 DEF TypeOK
  <2>5. ASSUME NEW d \in Interior, cells'[d] = "bomb"
        PROVE  \E b \in BombsAt(d)' : bombs'[b].still
    <3>1. CASE d = c
      <4>1. n \in BombsAt(d)' BY <2>1, <3>1 DEF BombsAt, BombsGroup
      <4> QED BY <2>1, <4>1
    <3>2. CASE d # c
      <4>1. cells[d] = "bomb" BY <2>1, <2>4, <2>5, <3>2
      <4>2. PICK b \in BombsAt(d) : bombs[b].still BY <1>0, <4>1 DEF NoGhosts
      <4>3. b # n /\ b \in Drops BY <2>1, <4>2 DEF BombsAt, BombsGroup
      <4>4. bombs'[b] = bombs[b] BY <2>1, <4>3
      <4>5. b \in BombsAt(d)' BY <4>2, <4>3, <4>4 DEF BombsAt, BombsGroup
      <4> QED BY <4>2, <4>4, <4>5
    <3> QED BY <3>1, <3>2
  <2>6. ASSUME NEW d \in Interior, cells'[d] = "dest_wall"
        PROVE  d \in DestWalls /\ walls'[d] # "gone"
    <3>1. cells[d] = "dest_wall" BY <2>1, <2>4, <2>6
    <3> QED BY <1>0, <2>3, <3>1 DEF NoGhosts
  <2>7. NoGhosts' BY <2>5, <2>6 DEF NoGhosts
  <2> QED BY <2>2, <2>7
<1>8. CASE KickBomb
  <2>1. UNCHANGED walls BY <1>8 DEF KickBomb
  <2>2. CASE bombs' = bombs /\ \A c \in Interior : cells'[c] # cells[c] => cells'[c] = "ground"
    <3>1. BombsInv' BY <1>0, <2>2 DEF BombsInv
    <3>2. NoGhosts' BY <1>0, <2>1, <2>2, NoGhostsKept
    <3> QED BY <3>1, <3>2
  <2>3. ASSUME NEW b \in Drops,
               ~ bombs'[b].still, \A x \in Drops : x # b => bombs'[x] = bombs[x],
               cells' = [cells EXCEPT ![bombs[b].pos] = "ground"]
        PROVE  BombsInv' /\ NoGhosts'
    <3>1. bombs[b].pos \in Interior /\ cells \in [Interior -> {"ground", "dest_wall", "bomb"}]
      BY <1>0, BombIs DEF TypeOK
    <3>2. \A x \in Drops : /\ bombs'[x].state = bombs[x].state
                           /\ bombs'[x].explosions = bombs[x].explosions
      BY <1>0, <1>8, KickBombIs
    <3>3. BombsInv' BY <1>0, <2>3, <3>2 DEF BombsInv
    <3>4. /\ \A c \in Interior : cells'[c] = cells[c] \/ cells'[c] = "ground"
          /\ cells'[bombs[b].pos] = "ground"
      BY <2>3, <3>1
    <3>5. \A x \in Drops : bombs[x].state \in {"fresh", "live"} /\ bombs[x].still =>
            \/ /\ bombs'[x].state \in {"fresh", "live"} /\ bombs'[x].still
               /\ bombs'[x].pos = bombs[x].pos
            \/ cells'[bombs[x].pos] = "ground"
      BY <2>3, <3>4
    <3>6. NoGhosts' BY <1>0, <2>1, <3>4, <3>5, NoGhostsKept
    <3> QED BY <3>3, <3>6
  <2>4. \/ bombs' = bombs /\ \A c \in Interior : cells'[c] # cells[c] => cells'[c] = "ground"
        \/ \E b \in Drops :
             /\ ~ bombs'[b].still /\ \A x \in Drops : x # b => bombs'[x] = bombs[x]
             /\ cells' = [cells EXCEPT ![bombs[b].pos] = "ground"]
    BY <1>0, <1>8, KickBombIs
  <2> QED BY <2>2, <2>3, <2>4
<1>9. CASE ExpireOthers
  <2>1. UNCHANGED bombs BY <1>9 DEF ExpireOthers
  <2>2. PICK ws \in SUBSET DestWalls :
          /\ walls' = [c \in DestWalls |-> IF c \in ws THEN "gone" ELSE walls[c]]
          /\ cells' = [c \in Interior |-> IF c \in ws THEN "ground" ELSE cells[c]]
    BY <1>9 DEF ExpireOthers
  <2>3. BombsInv' BY <1>0, <2>1 DEF BombsInv
  <2>4. /\ \A c \in Interior : cells'[c] = cells[c] \/ cells'[c] = "ground"
        /\ \A c \in DestWalls : walls'[c] = "gone" => walls[c] = "gone" \/ cells'[c] = "ground"
    BY <2>2 DEF Interior
  <2>5. NoGhosts' BY <1>0, <2>1, <2>4, NoGhostsKept
  <2> QED BY <2>3, <2>5
<1>10. ASSUME NEW b \in Drops, ExpireBomb(b) PROVE BombsInv' /\ NoGhosts'
  BY <1>10, ExplodeSafe DEF ExpireBomb, HasNoMark, BombsGroup
<1>11. CASE EndUpdate
  <2>1. UNCHANGED cells BY <1>11 DEF EndUpdate
  <2>2. \A c \in DestWalls : walls'[c] = "gone" => walls[c] = "gone" BY <1>11 DEF EndUpdate
  <2>3. \A b \in Drops :
          /\ bombs'[b].explosions = bombs[b].explosions
          /\ bombs[b].state \in {"fresh", "live"} =>
               /\ bombs'[b].state = "live" /\ bombs'[b].pos = bombs[b].pos
               /\ bombs'[b].still = bombs[b].still /\ bombs'[b].rolls = bombs[b].rolls
          /\ bombs[b].state \in {"marked", "gone"} => bombs'[b].state = "gone"
          /\ bombs[b].state \in {"none", "gone"} => bombs'[b] = bombs[b]
          /\ bombs[b].state = "marked" => bombs'[b].still /\ bombs'[b].rolls = {}
    BY <1>0, <1>11, EndUpdateIs
  <2>4. \A b \in Drops : bombs[b].state \in {"none", "fresh", "live", "marked", "gone"}
    BY <1>0, BombIs DEF TypeOK
  <2>5. BombsInv'
    <3> SUFFICES ASSUME NEW x \in Drops
                 PROVE  /\ bombs'[x].explosions <= 1
                        /\ bombs'[x].state \in {"none", "fresh", "live"} => bombs'[x].explosions = 0
                        /\ bombs'[x].still => bombs'[x].rolls = {}
      BY DEF BombsInv
    <3>1. /\ bombs[x].explosions <= 1
          /\ bombs[x].state \in {"none", "fresh", "live"} => bombs[x].explosions = 0
          /\ bombs[x].still => bombs[x].rolls = {}
      BY <1>0 DEF BombsInv
    <3> QED BY <2>3, <2>4, <3>1
  <2>6. NoGhosts' BY <1>0, <2>1, <2>2, <2>3, NoGhostsKept
  <2> QED BY <2>5, <2>6
<1> QED
  BY <1>1, <1>2, <1>3, <1>4, <1>5, <1>6, <1>7, <1>8, <1>9, <1>10, <1>11
     DEF Next, System, ExpireOldestBomb, ReceiveDropBomb, ReceiveKickBomb, ReceiveApplyBonus,
         ReceiveExploded

\* Neither several blasts nor the end of its own lifetime make a bomb explode again.
THEOREM ExplodesOnceOnly == Spec => []ExplodesOnce
PROOF
<1>1. Spec => []SafeInv BY SafeInit, SafeStep, PTL DEF Spec
<1>2. SafeInv => ExplodesOnce BY DEF SafeInv, BombsInv, ExplodesOnce
<1> QED BY <1>1, <1>2, PTL

\* What keeps a cell occupied is there to be seen and destroyed.
THEOREM NoGhostsOnMap == Spec => []NoGhosts
PROOF
<1>1. Spec => []SafeInv BY SafeInit, SafeStep, PTL DEF Spec
<1>2. SafeInv => NoGhosts BY DEF SafeInv
<1> QED BY <1>1, <1>2, PTL

-----------------------------------------------------------------------------
(* The gear of the local player.                                           *)

IsLocalDrop(i) == dropEvents[i].player = "local"

\* At most one drop of the local player waits for its bomb, never between two
\* updates, and there is room for that bomb.
GearInv ==
  /\ \A i \in DOMAIN dropEvents : IsLocalDrop(i) =>
       /\ pc # "idle"
       /\ \A j \in DOMAIN dropEvents : IsLocalDrop(j) => i = j
       /\ Cardinality(LocalBombsGroup) < gear["local"].bombs_count
  /\ BombsWithinGear

\* The bombs can be counted.
LEMMA BombsAreFinite ==
  /\ IsFiniteSet(LocalBombsGroup) /\ Cardinality(LocalBombsGroup) \in Nat
  /\ \A n \in Drops : IsFiniteSet({n} \cup LocalBombsGroup)
PROOF
<1>1. IsFiniteSet(Drops) BY InteriorIs, FS_Interval DEF Drops
<1>2. LocalBombsGroup \subseteq Drops BY DEF LocalBombsGroup, BombsGroup
<1>3. IsFiniteSet(LocalBombsGroup) BY <1>1, <1>2, FS_Subset
<1>4. \A n \in Drops : {n} \cup LocalBombsGroup \subseteq Drops BY <1>2
<1> QED BY <1>1, <1>3, <1>4, FS_Subset, FS_CardinalityType

\* So can the bombs after a step.
LEMMA BombsStayFinite ==
  /\ IsFiniteSet(LocalBombsGroup') /\ Cardinality(LocalBombsGroup') \in Nat
PROOF
<1>1. IsFiniteSet(Drops) BY InteriorIs, FS_Interval DEF Drops
<1>2. LocalBombsGroup' \subseteq Drops BY DEF LocalBombsGroup, BombsGroup
<1>3. IsFiniteSet(LocalBombsGroup') BY <1>1, <1>2, FS_Subset
<1> QED BY <1>3, FS_CardinalityType

\* The gear suffices after steps that neither drop nor make bombs.
LEMMA GearKept ==
  ASSUME TypeOK, TypeOK', GearInv, LocalBombsGroup' \subseteq LocalBombsGroup,
         gear'["local"].bombs_count >= gear["local"].bombs_count,
         UNCHANGED dropEvents, pc' # "idle" \/ dropEvents = <<>>
  PROVE  GearInv'
PROOF
<1>1. /\ gear["local"].bombs_count \in Int /\ gear'["local"].bombs_count \in Int
  BY DEF TypeOK, Players
<1>2. Cardinality(LocalBombsGroup') <= Cardinality(LocalBombsGroup)
  BY BombsAreFinite, FS_Subset
<1>3. Cardinality(LocalBombsGroup) \in Int /\ Cardinality(LocalBombsGroup') \in Int
  BY BombsAreFinite, BombsStayFinite
<1>4. BombsWithinGear' BY <1>1, <1>2, <1>3 DEF GearInv, BombsWithinGear
<1>5. ASSUME NEW i \in DOMAIN dropEvents, IsLocalDrop(i)
      PROVE  /\ pc' # "idle"
             /\ \A j \in DOMAIN dropEvents : IsLocalDrop(j) => i = j
             /\ Cardinality(LocalBombsGroup') < gear'["local"].bombs_count
  <2>1. Cardinality(LocalBombsGroup) < gear["local"].bombs_count
    BY <1>5 DEF GearInv
  <2>2. Cardinality(LocalBombsGroup') < gear'["local"].bombs_count
    BY ONLY <1>1, <1>2, <1>3, <2>1, gear'["local"].bombs_count >= gear["local"].bombs_count
  <2> QED BY <1>5, <2>2 DEF GearInv
<1> QED BY <1>4, <1>5 DEF GearInv, IsLocalDrop

\* The group shrinks when a bomb explodes and no other changes.
LEMMA ExplodeShrinks ==
  ASSUME TypeOK, NEW b \in Drops, BombExplode(b)
  PROVE  LocalBombsGroup' \subseteq LocalBombsGroup
PROOF
<1>1. bombs'[b].state = "marked" /\ \A x \in Drops : x # b => bombs'[x] = bombs[x]
  BY BombExplodeIs
<1> QED BY <1>1 DEF LocalBombsGroup, BombsGroup

\* A drop of the local player becomes one bomb of its group.
LEMMA SpawnIsWithinGear ==
  ASSUME TypeInv, TypeOK', GearInv, SpawnBomb
  PROVE  GearInv'
PROOF
<1>1. PICK ev \in [player : Players, pos : Interior] : ev = Head(dropEvents)
  BY SpawnBombIs
<1>2. PICK n \in Drops :
        /\ \A x \in Drops : x # n => bombs'[x] = bombs[x]
        /\ bombs'[n].local = (ev.player = "local") /\ bombs[n].state = "none"
  BY <1>1, SpawnBombIs
<1>3. /\ dropEvents' = Tail(dropEvents) /\ dropEvents # <<>> /\ UNCHANGED gear
      /\ dropEvents \in Seq([player : Players, pos : Interior])
  BY SpawnBombIs DEF SpawnBomb, TypeInv, TypeOK
<1>4. /\ Len(dropEvents) \in Nat /\ 1 \in DOMAIN dropEvents /\ dropEvents[1] = ev
      /\ DOMAIN dropEvents' = 1 .. Len(dropEvents) - 1
      /\ \A i \in DOMAIN dropEvents' : /\ i + 1 \in DOMAIN dropEvents /\ i + 1 # 1
                                       /\ dropEvents'[i] = dropEvents[i + 1]
  BY <1>1, <1>3
<1>5. gear["local"].bombs_count \in Int /\ gear'["local"].bombs_count = gear["local"].bombs_count
  BY <1>3 DEF TypeInv, TypeOK, Players
<1>6. Cardinality(LocalBombsGroup) \in Int /\ Cardinality(LocalBombsGroup') \in Int
  BY BombsAreFinite, BombsStayFinite
<1>7. CASE ev.player = "local"
  <2>1. /\ \A j \in DOMAIN dropEvents : IsLocalDrop(j) => 1 = j
        /\ Cardinality(LocalBombsGroup) < gear["local"].bombs_count
    BY <1>4, <1>7 DEF GearInv, IsLocalDrop
  <2>2. LocalBombsGroup' \subseteq {n} \cup LocalBombsGroup
    BY <1>2 DEF LocalBombsGroup, BombsGroup
  <2>3. n \notin LocalBombsGroup BY <1>2 DEF LocalBombsGroup, BombsGroup
  <2>4. Cardinality({n} \cup LocalBombsGroup) = Cardinality(LocalBombsGroup) + 1
    <3>1. {n} \cup LocalBombsGroup = LocalBombsGroup \cup {n} OBVIOUS
    <3> QED BY <2>3, <3>1, BombsAreFinite, FS_AddElement
  <2>5. Cardinality(LocalBombsGroup') <= Cardinality({n} \cup LocalBombsGroup)
    BY <2>2, BombsAreFinite, FS_Subset
  <2>6. Cardinality(LocalBombsGroup') <= gear'["local"].bombs_count
    BY ONLY <1>5, <1>6, <2>1, <2>4, <2>5
  <2>7. \A i \in DOMAIN dropEvents' : dropEvents'[i].player # "local"
    BY <1>4, <2>1 DEF IsLocalDrop
  <2> QED BY <2>6, <2>7 DEF GearInv, IsLocalDrop, BombsWithinGear
<1>8. CASE ev.player # "local"
  <2>1. LocalBombsGroup' \subseteq LocalBombsGroup
    BY <1>2, <1>8 DEF LocalBombsGroup, BombsGroup
  <2>2. Cardinality(LocalBombsGroup') <= Cardinality(LocalBombsGroup)
    BY <2>1, BombsAreFinite, FS_Subset
  <2>3. BombsWithinGear'
    BY <1>5, <1>6, <2>2 DEF GearInv, BombsWithinGear
  <2>4. pc' # "idle"
    <3>1. GoOn(Systems[4]) \/ pc' = "stopped" BY SystemsAre DEF SpawnBomb, GoOnIf
    <3>2. GoOn(Systems[4]) => pc' \in SystemNames BY GoOnEffects
    <3>3. "idle" \notin SystemNames BY SystemsAre DEF SystemNames, Systems
    <3> QED BY <3>1, <3>2, <3>3
  <2>5. ASSUME NEW i \in DOMAIN dropEvents', dropEvents'[i].player = "local"
        PROVE  /\ \A j \in DOMAIN dropEvents' : dropEvents'[j].player = "local" => i = j
               /\ Cardinality(LocalBombsGroup') < gear'["local"].bombs_count
    <3>1. i + 1 \in DOMAIN dropEvents /\ IsLocalDrop(i + 1) BY <1>4, <2>5 DEF IsLocalDrop
    <3>2. /\ \A j \in DOMAIN dropEvents : IsLocalDrop(j) => i + 1 = j
          /\ Cardinality(LocalBombsGroup) < gear["local"].bombs_count
      BY <3>1 DEF GearInv
    <3>3. \A j \in DOMAIN dropEvents' : dropEvents'[j].player = "local" => i + 1 = j + 1
      BY <1>4, <3>2 DEF IsLocalDrop
    <3>4. Cardinality(LocalBombsGroup') < gear'["local"].bombs_count
      BY ONLY <1>5, <1>6, <2>2, <3>2
    <3> QED BY <1>4, <3>3, <3>4
  <2> QED BY <2>3, <2>4, <2>5 DEF GearInv, IsLocalDrop
<1> QED BY <1>7, <1>8

\* A system is not idle.
LEMMA GoOnIsNotIdle ==
  ASSUME NEW k \in 1 .. 10, GoOn(Systems[k]) \/ pc' = "stopped"
  PROVE  pc' # "idle"
PROOF
<1>1. GoOn(Systems[k]) => pc' \in SystemNames BY GoOnEffects
<1>2. "idle" \notin SystemNames BY SystemsAre DEF SystemNames, Systems
<1> QED BY <1>1, <1>2

LEMMA GearInit == Init => GearInv
PROOF
<1> SUFFICES ASSUME Init PROVE GearInv OBVIOUS
<1>1. dropEvents = <<>> BY DEF Init
<1>2. LocalBombsGroup = {} BY DEF Init, LocalBombsGroup, BombsGroup, NoBomb
<1>3. gear["local"].bombs_count = BaseBombsCount /\ BaseBombsCount \in Nat
  BY ConstantsAssumption DEF Init, Players
<1>4. Cardinality(LocalBombsGroup) = 0 BY <1>2, FS_EmptySet
<1> QED BY <1>1, <1>3, <1>4 DEF GearInv, BombsWithinGear

LEMMA GearStep == TypeInv /\ GearInv /\ [Next]_vars => GearInv'
PROOF
<1> SUFFICES ASSUME TypeInv, GearInv, [Next]_vars PROVE GearInv' OBVIOUS
<1>0. /\ TypeOK /\ Control /\ TypeOK'
      /\ dropEvents \in Seq([player : Players, pos : Interior])
      /\ gear["local"].bombs_count \in Int
  <2>1. TypeInv' BY TypeStep
  <2>2. TypeOK' BY <2>1 DEF TypeInv
  <2>3. TypeOK /\ Control BY DEF TypeInv
  <2>4. /\ dropEvents \in Seq([player : Players, pos : Interior])
        /\ gear["local"].bombs_count \in Int
    BY <2>3 DEF TypeOK, Players
  <2> QED BY <2>2, <2>3, <2>4
<1>1. ASSUME UNCHANGED <<bombs, gear, dropEvents>>, pc' # "idle" \/ pc' = pc \/ dropEvents = <<>>
      PROVE  GearInv'
  <2>1. CASE pc' = pc
    BY <1>1, <2>1 DEF GearInv, IsLocalDrop, BombsWithinGear, LocalBombsGroup, BombsGroup
  <2>2. CASE pc' # "idle" \/ dropEvents = <<>>
    <3>1. LocalBombsGroup' \subseteq LocalBombsGroup
      BY <1>1 DEF LocalBombsGroup, BombsGroup
    <3> QED BY <1>0, <1>1, <2>2, <3>1, GearKept
  <2> QED BY <1>1, <2>1, <2>2
<1>2. ASSUME NEW c \in Interior, ReceiveDropBomb(c) PROVE GearInv'
  <2>1. /\ pc = "idle" /\ UNCHANGED <<bombs, gear, pc>>
        /\ dropEvents' = Append(dropEvents, [player |-> "remote", pos |-> c])
    BY <1>2 DEF ReceiveDropBomb, Receive
  <2>2. /\ \A i \in DOMAIN dropEvents : dropEvents[i].player # "local"
        /\ BombsWithinGear
    BY <2>1 DEF GearInv, IsLocalDrop
  <2>3. \A i \in DOMAIN dropEvents' : dropEvents'[i].player # "local"
    BY <1>0, <2>1, <2>2
  <2>4. BombsWithinGear' BY <2>1, <2>2 DEF BombsWithinGear, LocalBombsGroup, BombsGroup
  <2> QED BY <2>3, <2>4 DEF GearInv, IsLocalDrop
<1>3. CASE ReceiveExploded \/ \E c \in Interior : \E dirs \in SentKicks(c) : ReceiveKickBomb(c, dirs)
  BY <1>1, <1>3 DEF ReceiveExploded, ReceiveKickBomb, Receive
<1>4. CASE \E p \in Players, bonus \in Bonuses : ReceiveApplyBonus(p, bonus)
  BY <1>1, <1>4 DEF ReceiveApplyBonus, Receive
<1>5. CASE ReadInputs
  <2>1. pc' # "idle"
    <3>1. GoOn(Systems[1]) BY <1>5, SystemsAre DEF ReadInputs
    <3> QED BY <3>1, GoOnIsNotIdle
  <2>2. UNCHANGED <<bombs, gear>> /\ pc = "idle" BY <1>5 DEF ReadInputs
  <2>3. CASE UNCHANGED dropEvents BY <1>1, <2>1, <2>2, <2>3
  <2>4. ASSUME NEW c \in Interior, MayDrop,
               dropEvents' = Append(dropEvents, [player |-> "local", pos |-> c])
        PROVE  GearInv'
    <3>1. Cardinality(LocalBombsGroup) < gear["local"].bombs_count BY <2>4 DEF MayDrop
    <3>2. LocalBombsGroup' = LocalBombsGroup BY <2>2 DEF LocalBombsGroup, BombsGroup
    <3>3. \A i \in DOMAIN dropEvents : dropEvents[i].player # "local"
      BY <2>2 DEF GearInv, IsLocalDrop
    <3>4. \A i \in DOMAIN dropEvents' : dropEvents'[i].player = "local" => i = Len(dropEvents) + 1
      BY <1>0, <2>4, <3>3
    <3>5. BombsWithinGear' BY <2>2, <3>2 DEF GearInv, BombsWithinGear
    <3> QED BY <2>1, <2>2, <3>1, <3>2, <3>4, <3>5 DEF GearInv, IsLocalDrop
  <2> QED BY <1>5, <2>3, <2>4 DEF ReadInputs
<1>6. CASE MoveBombs
  <2>1. GoOn(Systems[2]) BY <1>6, SystemsAre DEF MoveBombs
  <2>2. pc' # "idle" BY <2>1, GoOnIsNotIdle
  <2>3. UNCHANGED <<gear, dropEvents>> BY <1>6 DEF MoveBombs, events
  <2>4. \A b \in Drops : bombs'[b].state = bombs[b].state /\ bombs'[b].local = bombs[b].local
    BY <1>0, <1>6, MoveBombsIs
  <2>5. LocalBombsGroup' \subseteq LocalBombsGroup BY <2>4 DEF LocalBombsGroup, BombsGroup
  <2> QED BY <1>0, <2>2, <2>3, <2>5, GearKept
<1>7. ASSUME NEW b \in Drops, NEW dirs \in Kicks(bombs[b].pos), TouchBomb(b, dirs)
      PROVE  GearInv'
  <2>1. GoOn(Systems[2]) BY <1>7, SystemsAre DEF TouchBomb
  <2>2. pc' # "idle" BY <2>1, GoOnIsNotIdle
  <2>3. UNCHANGED <<gear, dropEvents>> BY <1>7 DEF TouchBomb
  <2>4. \A x \in Drops : bombs'[x].state = bombs[x].state /\ bombs'[x].local = bombs[x].local
    BY <1>0, <1>7, TouchBombIs
  <2>5. LocalBombsGroup' \subseteq LocalBombsGroup BY <2>4 DEF LocalBombsGroup, BombsGroup
  <2> QED BY <1>0, <2>2, <2>3, <2>5, GearKept
<1>8. CASE EndContacts
  <2>1. GoOn(Systems[3]) BY <1>8, SystemsAre DEF EndContacts
  <2> QED BY <1>1, <1>8, <2>1, GoOnIsNotIdle DEF EndContacts, events
<1>9. ASSUME NEW b \in Drops, HitBomb(b) PROVE GearInv'
  <2>1. GoOn(Systems[3]) \/ pc' = "stopped" BY <1>9, SystemsAre DEF HitBomb, GoOnIf
  <2>2. pc' # "idle" BY <2>1, GoOnIsNotIdle
  <2>3. UNCHANGED <<gear, dropEvents>> /\ BombExplode(b) BY <1>9 DEF HitBomb, events
  <2> QED BY <1>0, <2>2, <2>3, ExplodeShrinks, GearKept
<1>10. CASE EndBlasts
  <2>1. GoOn(Systems[4]) BY <1>10, SystemsAre DEF EndBlasts
  <2> QED BY <1>1, <1>10, <2>1, GoOnIsNotIdle DEF EndBlasts
<1>11. CASE SpawnBomb BY <1>0, <1>11, SpawnIsWithinGear
<1>12. CASE ApplyBonus
  <2>1. GoOn(Systems[5]) \/ pc' = "stopped" BY <1>12, SystemsAre DEF ApplyBonus, GoOnIf
  <2>2. pc' # "idle" BY <2>1, GoOnIsNotIdle
  <2>3. UNCHANGED <<bombs, dropEvents>> BY <1>12 DEF ApplyBonus
  <2>4. LocalBombsGroup' \subseteq LocalBombsGroup BY <2>3 DEF LocalBombsGroup, BombsGroup
  <2>5. gear'["local"].bombs_count >= gear["local"].bombs_count BY <1>0, <1>12, ApplyBonusIs
  <2> QED BY <1>0, <2>2, <2>3, <2>4, <2>5, GearKept
<1>13. CASE KickBomb
  <2>1. GoOn(Systems[6]) \/ pc' = "stopped" BY <1>13, SystemsAre DEF KickBomb, GoOnIf
  <2>2. pc' # "idle" BY <2>1, GoOnIsNotIdle
  <2>3. UNCHANGED <<gear, dropEvents>> BY <1>13 DEF KickBomb
  <2>4. \A b \in Drops : bombs'[b].state = bombs[b].state /\ bombs'[b].local = bombs[b].local
    BY <1>13, KickBombIs
  <2>5. LocalBombsGroup' \subseteq LocalBombsGroup BY <2>4 DEF LocalBombsGroup, BombsGroup
  <2> QED BY <1>0, <2>2, <2>3, <2>5, GearKept
<1>14. CASE ExpireOthers
  <2>1. GoOn(Systems[8]) BY <1>14, SystemsAre DEF ExpireOthers
  <2> QED BY <1>1, <1>14, <2>1, GoOnIsNotIdle DEF ExpireOthers, events
<1>15. ASSUME NEW b \in Drops, ExpireBomb(b) PROVE GearInv'
  <2>1. GoOn(Systems[8]) \/ pc' = "stopped" BY <1>15, SystemsAre DEF ExpireBomb, GoOnIf
  <2>2. pc' # "idle" BY <2>1, GoOnIsNotIdle
  <2>3. UNCHANGED <<gear, dropEvents>> /\ BombExplode(b) BY <1>15 DEF ExpireBomb, events
  <2> QED BY <1>0, <2>2, <2>3, ExplodeShrinks, GearKept
<1>16. CASE EndLifetimes
  <2>1. GoOn(Systems[9]) BY <1>16, SystemsAre DEF EndLifetimes
  <2> QED BY <1>1, <1>16, <2>1, GoOnIsNotIdle DEF EndLifetimes, events
<1>17. CASE ExplodePlayer
  <2>1. GoOn(Systems[9]) BY <1>17, SystemsAre DEF ExplodePlayer
  <2> QED BY <1>1, <1>17, <2>1, GoOnIsNotIdle DEF ExplodePlayer
<1>18. CASE EndUpdate
  <2>1. dropEvents = <<>> BY <1>0, <1>18 DEF EndUpdate, Control, AfterSpawn
  <2>2. UNCHANGED <<gear, dropEvents>> BY <1>18 DEF EndUpdate, events
  <2>3. \A b \in Drops :
          /\ bombs[b].state \in {"fresh", "live"} => bombs'[b].local = bombs[b].local
          /\ bombs[b].state \in {"marked", "gone"} => bombs'[b].state = "gone"
          /\ bombs[b].state \in {"none", "gone"} => bombs'[b] = bombs[b]
          /\ bombs[b].state \in {"none", "fresh", "live", "marked", "gone"}
    BY <1>0, <1>18, EndUpdateIs, BombIs DEF TypeOK
  <2>4. LocalBombsGroup' \subseteq LocalBombsGroup
    BY <2>3 DEF LocalBombsGroup, BombsGroup
  <2> QED BY <1>0, <2>1, <2>2, <2>4, GearKept
<1>19. CASE UNCHANGED vars BY <1>1, <1>19 DEF vars, events
<1> QED
  BY <1>2, <1>3, <1>4, <1>5, <1>6, <1>7, <1>8, <1>9, <1>10, <1>11, <1>12, <1>13, <1>14,
     <1>15, <1>16, <1>17, <1>18, <1>19 DEF Next, System, ExpireOldestBomb

\* The bombs of the local player are never more than its gear allows.
THEOREM BombsAreWithinGear == Spec => []BombsWithinGear
PROOF
<1>1. Init => TypeInv /\ GearInv BY TypeInit, GearInit
<1>2. TypeInv /\ GearInv /\ [Next]_vars => (TypeInv /\ GearInv)' BY TypeStep, GearStep
<1>3. Spec => [](TypeInv /\ GearInv) BY <1>1, <1>2, PTL DEF Spec
<1>4. GearInv => BombsWithinGear BY DEF GearInv
<1> QED BY <1>3, <1>4, PTL

-----------------------------------------------------------------------------
(* The death of the local player.                                          *)

LEMMA DeathStep == TypeInv /\ DeathReportedOnce /\ [Next]_vars => DeathReportedOnce'
PROOF
<1> SUFFICES ASSUME TypeInv, DeathReportedOnce, [Next]_vars PROVE DeathReportedOnce' OBVIOUS
<1>1. /\ players \in [Players -> {"alive", "dead", "gone"}] /\ reported \in Nat
      /\ "local" \in Players
  BY DEF TypeInv, TypeOK, Players
<1>2. ASSUME UNCHANGED <<players, reported>> PROVE DeathReportedOnce'
  BY <1>2 DEF DeathReportedOnce
<1>3. CASE ExpireOthers
  <2>1. /\ UNCHANGED reported
        /\ \/ players["local"] = "dead" /\ players' = [players EXCEPT !["local"] = "gone"]
           \/ UNCHANGED players
    BY <1>3 DEF ExpireOthers
  <2> QED BY <1>1, <1>2, <2>1 DEF DeathReportedOnce
<1>4. CASE ExplodePlayer
  <2>1. PICK p \in Players : p = Head(explodedEvents)
    <3>1. explodedEvents # <<>> /\ explodedEvents \in Seq(Players)
      BY <1>4 DEF ExplodePlayer, TypeInv, TypeOK, Control
    <3> QED BY <3>1, HeadOfSeq
  <2>2. CASE HasTag(p) /\ p = "local"
    <3>1. players' = [players EXCEPT !["local"] = "dead"] /\ reported' = reported + 1
          /\ players["local"] = "alive"
      BY <1>4, <2>1, <2>2 DEF ExplodePlayer, HasTag
    <3> QED BY <1>1, <3>1 DEF DeathReportedOnce
  <2>3. CASE HasTag(p) /\ p # "local"
    <3>1. players' = [players EXCEPT ![p] = "dead"] /\ reported' = reported
      BY <1>4, <2>1, <2>3 DEF ExplodePlayer
    <3> QED BY <1>1, <2>3, <3>1 DEF DeathReportedOnce
  <2>4. CASE ~ HasTag(p)
    <3>1. UNCHANGED <<players, reported>> BY <1>4, <2>1, <2>4 DEF ExplodePlayer
    <3> QED BY <1>2, <3>1
  <2> QED BY <2>2, <2>3, <2>4
<1> QED
  BY <1>2, <1>3, <1>4 DEF Next, System, ExpireOldestBomb, ReceiveDropBomb, ReceiveKickBomb,
     ReceiveApplyBonus, ReceiveExploded, Receive, ReadInputs, MoveBombs, TouchBomb, EndContacts,
     HitBomb, EndBlasts, SpawnBomb, ApplyBonus, KickBomb, ExpireBomb, EndLifetimes, EndUpdate, vars

\* The death of the local player is reported, and once.
THEOREM DeathIsReportedOnce == Spec => []DeathReportedOnce
PROOF
<1>1. Init => TypeInv /\ DeathReportedOnce
  BY TypeInit DEF Init, DeathReportedOnce, Players
<1>2. TypeInv /\ DeathReportedOnce /\ [Next]_vars => (TypeInv /\ DeathReportedOnce)'
  BY TypeStep, DeathStep
<1> QED BY <1>1, <1>2, PTL DEF Spec

================================================================================
