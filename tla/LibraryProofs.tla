----------------------------- MODULE LibraryProofs -----------------------------
(***************************************************************************)
(* Theorems about the parts of the library that work alone. Any packet of  *)
(* well-formed messages that a buffer of any size could hold is read back  *)
(* as it was written; one of the game's packets that is measured to fit    *)
(* does, if a player is not connected in it twice. A timer calls its hooks *)
(* on time, for any length of a second in ticks, any delays and any stalls *)
(* between its updates. And a player who walks one way is never drawn      *)
(* backwards, for a buffer of any size, any delay and any times between    *)
(* frames.                                                                 *)
(***************************************************************************)
EXTENDS NetMessages, GameTimer, Interpolation, BoundedNumbers, SequenceTheorems

-----------------------------------------------------------------------------
(* Powers of two.                                                          *)

\* The subsets of a set with one more element are those without it and those with it.
LEMMA Doubling ==
  ASSUME NEW n \in Nat
  PROVE  2 ^ n \in Nat \ {0} /\ 2 ^ (n + 1) = 2 * 2 ^ n
<1>1. PICK S, T, x : S = 1 .. n /\ T = 1 .. n + 1 /\ x = n + 1
  OBVIOUS
<1>2. IsFiniteSet(S) /\ Cardinality(S) = n /\ IsFiniteSet(T) /\ Cardinality(T) = n + 1
  BY <1>1, FS_Interval
<1>3. /\ IsFiniteSet(SUBSET S) /\ Cardinality(SUBSET S) = 2 ^ n
      /\ IsFiniteSet(SUBSET T) /\ Cardinality(SUBSET T) = 2 ^ (n + 1)
  BY <1>2, FS_SUBSET
<1>4. PICK W : W = {U \cup {x} : U \in SUBSET S}
  OBVIOUS
<1>5. ExistsBijection(SUBSET S, W)
  <2>1. PICK f : f = [U \in SUBSET S |-> U \cup {x}]
    OBVIOUS
  <2>2. x \notin S
    BY <1>1
  <2>3. f \in [SUBSET S -> W]
    BY <1>4, <2>1
  <2>4. \A U, V \in SUBSET S : f[U] = f[V] => U = V
    <3>1. \A U \in SUBSET S : f[U] \ {x} = U
      BY <2>1, <2>2
    <3> QED BY <3>1
  <2>5. \A V \in W : \E U \in SUBSET S : f[U] = V
    BY <1>4, <2>1
  <2> QED BY <2>3, <2>4, <2>5
      DEF ExistsBijection, Bijection, Injection, Surjection, IsInjective
<1>6. IsFiniteSet(W) /\ Cardinality(W) = 2 ^ n
  BY <1>3, <1>5, FS_Bijection
<1>7. SUBSET T = (SUBSET S) \cup W
  <2>1. \A U \in SUBSET T : x \notin U => U \in SUBSET S
    BY <1>1
  <2>2. \A U \in SUBSET T : x \in U => U = (U \ {x}) \cup {x} /\ U \ {x} \in SUBSET S
    BY <1>1
  <2>3. \A U \in SUBSET T : x \in U => U \in W
    BY <1>4, <2>2
  <2>4. W \subseteq SUBSET T /\ SUBSET S \subseteq SUBSET T
    <3>1. S \subseteq T /\ x \in T
      BY <1>1
    <3> QED BY <1>4, <3>1
  <2> QED BY <2>1, <2>3, <2>4
<1>8. (SUBSET S) \cap W = {}
  BY <1>1, <1>4
<1>9. Cardinality((SUBSET S) \cap W) = 0
  BY <1>8, FS_EmptySet
<1>10. Cardinality(SUBSET T) = Cardinality(SUBSET S) + Cardinality(W) - 0
  BY <1>3, <1>6, <1>7, <1>9, FS_Union
<1>11. 2 ^ n \in Nat
  BY <1>3, FS_CardinalityType
<1>12. 2 ^ n # 0
  BY <1>3, FS_EmptySet
<1> QED BY <1>3, <1>6, <1>10, <1>11, <1>12

\* A power of two is at most every later one.
LEMMA PowersGrow ==
  ASSUME NEW m \in Nat, NEW n \in Nat, m <= n
  PROVE  2 ^ m <= 2 ^ n
<1> DEFINE S == {k \in 0 .. n - m : 2 ^ m <= 2 ^ (m + k)}
<1>1. \A k \in 0 .. n - m : m + k \in Nat /\ m + (k + 1) = (m + k) + 1
  OBVIOUS
<1>2. 0 \in S
  BY Doubling
<1>3. ASSUME NEW k \in 0 .. (n - m) - 1, k \in S PROVE k + 1 \in S
  <2>1. PICK p, q : p = 2 ^ (m + k) /\ q = 2 ^ m /\ p \in Nat \ {0} /\ q \in Nat /\ q <= p
    BY <1>1, <1>3, Doubling
  <2>2. 2 ^ (m + (k + 1)) = 2 * p
    BY <1>1, <2>1, Doubling
  <2> QED BY <2>1, <2>2
<1>4. n - m \in Nat /\ n - m \in 0 .. n - m /\ m + (n - m) = n
  OBVIOUS
<1> HIDE DEF S
<1>5. n - m \in S
  BY <1>2, <1>3, <1>4, SetInduction
<1> QED BY <1>4, <1>5 DEF S

-----------------------------------------------------------------------------
(* Division.                                                               *)

\* A number is its quotient and its remainder.
LEMMA Divides ==
  ASSUME NEW p \in Nat \ {0}, NEW x \in Nat
  PROVE  /\ x \div p \in Nat /\ x % p \in 0 .. p - 1
         /\ x = p * (x \div p) + (x % p)
  OBVIOUS

\* The quotient and the remainder of a number that is made of them.
LEMMA DivisionIs ==
  ASSUME NEW p \in Nat \ {0}, NEW q \in Nat, NEW r \in 0 .. p - 1
  PROVE  (p * q + r) \div p = q /\ (p * q + r) % p = r
  OBVIOUS

\* A remainder by 2p is one by p and a bit.
LEMMA NextRemainder ==
  ASSUME NEW p \in Nat \ {0}, NEW x \in Nat
  PROVE  x % (2 * p) = (x % p) + ((x \div p) % 2) * p
<1>1. PICK q \in Nat, r \in 0 .. p - 1 : q = x \div p /\ r = x % p /\ x = p * q + r
  BY Divides
<1>2. PICK c \in Nat, b \in 0 .. 1 : c = q \div 2 /\ b = q % 2 /\ q = 2 * c + b
  BY Divides
<1>3. CASE b = 0
  <2>1. q = 2 * c
    BY <1>2, <1>3
  <2>a. p * (2 * c) = (2 * p) * c
    OBVIOUS
  <2>b. r \in 0 .. 2 * p - 1 /\ x = p * (2 * c) + r
    BY <1>1, <2>1
  <2>2. x = (2 * p) * c + r /\ r \in 0 .. 2 * p - 1
    BY <2>a, <2>b
  <2>3. x % (2 * p) = r
    BY <2>2, DivisionIs
  <2> QED BY <1>1, <1>2, <1>3, <2>3
<1>4. CASE b = 1
  <2>1. q = 2 * c + 1
    BY <1>2, <1>4
  <2>2. p * (2 * c + 1) = (2 * p) * c + p
    OBVIOUS
  <2>3. x = (2 * p) * c + (p + r) /\ p + r \in 0 .. 2 * p - 1
    BY <1>1, <2>1, <2>2
  <2>4. x % (2 * p) = p + r
    BY <2>3, DivisionIs
  <2>5. ((x \div p) % 2) * p = p
    BY <1>1, <1>2, <1>4
  <2> QED BY <1>1, <2>4, <2>5
<1> QED BY <1>2, <1>3, <1>4

-----------------------------------------------------------------------------
(* Numbers as bits.                                                        *)

\* A bit, and the words and writers made of them.
Bit == {0, 1}

\* The bits of a number, added up again, are its remainder by a power of two.
LEMMA BitsAddUp ==
  ASSUME NEW n \in Nat, NEW x \in Nat
  PROVE  FromBits(ToBits(x, n)) = x % 2 ^ n
<1>1. PICK b : b = ToBits(x, n)
  OBVIOUS
<1>2. Len(b) = n /\ \A i \in 1 .. n : b[i] = (x \div 2 ^ (i - 1)) % 2
  BY <1>1 DEF ToBits
<1> DEFINE F(h) == [i \in 0 .. n |-> IF i = 0 THEN 0 ELSE h[i - 1] + b[i] * 2 ^ (i - 1)]
<1>3. PICK e : e = [i \in 0 .. n |-> x % 2 ^ i]
  OBVIOUS
<1>4. e[0] = 0
  BY <1>3
<1>5. ASSUME NEW i \in 0 .. n, i # 0 PROVE e[i] = e[i - 1] + b[i] * 2 ^ (i - 1)
  <2>1. PICK k \in 0 .. n - 1 : k = i - 1 /\ i = k + 1 /\ k \in 0 .. n /\ k \in Nat /\ i \in 1 .. n
    BY <1>5
  <2>2. PICK p \in Nat \ {0} : p = 2 ^ k /\ 2 ^ i = 2 * p
    BY <2>1, Doubling
  <2>3. x % (2 * p) = (x % p) + ((x \div p) % 2) * p
    BY NextRemainder
  <2>4. e[i] = x % (2 * p) /\ e[i - 1] = x % p
    BY <1>3, <2>1, <2>2
  <2>5. b[i] = (x \div p) % 2 /\ 2 ^ (i - 1) = p
    BY <1>2, <2>1, <2>2
  <2> QED BY <2>3, <2>4, <2>5
<1>6. e = F(e)
  BY <1>3, <1>4, <1>5
<1>7. PICK h : h = F(h) /\ FromBits(b) = h[n]
  <2>1. FromBits(b) = (CHOOSE h : h = F(h))[n]
    BY <1>2 DEF FromBits
  <2> HIDE DEF F
  <2> QED BY <1>6, <2>1
<1>8. \A i \in 0 .. n : h[i] = e[i]
  <2> DEFINE S == {i \in 0 .. n : h[i] = e[i]}
  <2>1. 0 \in S
    BY <1>4, <1>7
  <2>2. ASSUME NEW k \in 0 .. n - 1, k \in S PROVE k + 1 \in S
    <3>1. k + 1 \in 0 .. n /\ k + 1 # 0 /\ (k + 1) - 1 = k
      OBVIOUS
    <3>2. h[k + 1] = h[k] + b[k + 1] * 2 ^ k
      BY <1>7, <3>1
    <3>3. e[k + 1] = e[k] + b[k + 1] * 2 ^ k
      BY <1>5, <3>1
    <3> QED BY <2>2, <3>1, <3>2, <3>3
  <2> HIDE DEF S
  <2>3. \A i \in 0 .. n : i \in S
    BY <2>1, <2>2, SetInduction
  <2> QED BY <2>3 DEF S
<1> QED BY <1>1, <1>3, <1>7, <1>8

\* The number of bits of a number is one of which it needs the highest.
LEMMA HighestBit ==
  ASSUME NEW v \in Nat \ {0}, v < 2 ^ 31
  PROVE  /\ NumberOfBits(v) \in 1 .. 31
         /\ v < 2 ^ NumberOfBits(v)
<1> DEFINE S == {k \in 0 .. 31 : v < 2 ^ k => \E n \in 1 .. 31 : v \div 2 ^ (n - 1) = 1}
<1>1. 0 \in S
  OBVIOUS
<1>2. ASSUME NEW k \in 0 .. 31 - 1, k \in S PROVE k + 1 \in S
  <2>1. PICK p \in Nat \ {0} : p = 2 ^ k /\ 2 ^ (k + 1) = 2 * p
    BY Doubling
  <2>2. CASE v < p
    BY <1>2, <2>1, <2>2
  <2>3. CASE p <= v /\ v < 2 * p
    <3>1. v = p * 1 + (v - p) /\ v - p \in 0 .. p - 1
      BY <2>3
    <3>2. v \div p = 1
      BY <3>1, DivisionIs
    <3>3. k + 1 \in 1 .. 31 /\ (k + 1) - 1 = k
      OBVIOUS
    <3> QED BY <2>1, <3>2, <3>3
  <2>4. CASE v >= 2 * p
    BY <2>1, <2>4
  <2> QED BY <2>2, <2>3, <2>4
<1> HIDE DEF S
<1>3. 31 \in S
  BY <1>1, <1>2, SetInduction
<1>4. \E n \in 1 .. 31 : v \div 2 ^ (n - 1) = 1
  BY <1>3 DEF S
<1>5. PICK n \in 1 .. 31 : n = NumberOfBits(v) /\ v \div 2 ^ (n - 1) = 1
  BY <1>4 DEF NumberOfBits, WORD_SIZE
<1>6. PICK p \in Nat \ {0} : p = 2 ^ (n - 1) /\ 2 ^ n = 2 * p
  <2>1. n - 1 \in Nat /\ (n - 1) + 1 = n
    OBVIOUS
  <2> QED BY <2>1, Doubling
<1>7. v = p * (v \div p) + (v % p) /\ v % p \in 0 .. p - 1
  BY Divides
<1> QED BY <1>5, <1>6, <1>7

\* The greatest value of an int is beyond every range of the game but its own.
LEMMA IntMax == INT_MAX \in Nat /\ 512 <= INT_MAX
BY SMT DEF INT_MAX

\* It fits in 31 bits.
LEMMA IntMaxFits == INT_MAX < 2 ^ 31
BY SMT DEF INT_MAX

\* The values of a range fit in the bits it requires.
LEMMA BitsFit ==
  ASSUME NEW a \in Nat, NEW b \in Nat, a <= b, b <= INT_MAX
  PROVE  /\ BitsRequired(a, b) \in 0 .. 31
         /\ \A v \in a .. b : v - a < 2 ^ BitsRequired(a, b)
<1>1. 2 ^ 31 \in Nat /\ 2 ^ 0 = 1
  BY IntMax, Doubling
<1>2. CASE a = b
  BY <1>1, <1>2 DEF BitsRequired
<1>3. CASE a # b
  <2>1. b - a \in Nat \ {0} /\ b - a < 2 ^ 31
    BY <1>1, <1>3, IntMax, IntMaxFits
  <2>2. PICK n \in 1 .. 31 : n = BitsRequired(a, b) /\ b - a < 2 ^ n
    BY <1>3, <2>1, HighestBit DEF BitsRequired
  <2>3. 2 ^ n \in Nat
    BY Doubling
  <2> QED BY <2>2, <2>3
<1> QED BY <1>2, <1>3

\* The bits of a number.
LEMMA BitsAreBits ==
  ASSUME NEW n \in Nat, NEW x \in Nat
  PROVE  ToBits(x, n) \in Seq(Bit) /\ Len(ToBits(x, n)) = n
<1>1. ASSUME NEW i \in 1 .. n PROVE (x \div 2 ^ (i - 1)) % 2 \in Bit
  <2>1. PICK p \in Nat \ {0} : p = 2 ^ (i - 1)
    BY Doubling
  <2>2. x \div p \in Nat
    BY Divides
  <2> QED BY <2>1, <2>2 DEF Bit
<1> QED BY <1>1 DEF ToBits

-----------------------------------------------------------------------------
(* Writing bits.                                                           *)

Word == [1 .. WORD_SIZE -> Bit]
Writers == [size : Nat, words : Seq(Word), scratch : Seq(Bit), failed : BOOLEAN]

\* Less than a word is left in the scratch.
Ready(w) == w \in Writers /\ Len(w.scratch) < WORD_SIZE

\* The elements of a part of a sequence.
LEMMA PartFacts ==
  ASSUME NEW D, NEW s \in Seq(D), NEW m \in 1 .. Len(s) + 1, NEW n \in m - 1 .. Len(s)
  PROVE  /\ SubSeq(s, m, n) \in Seq(D) /\ Len(SubSeq(s, m, n)) = n - m + 1
         /\ \A i \in 1 .. n - m + 1 : SubSeq(s, m, n)[i] = s[m + i - 1]
<1>1. \A i \in m .. n : s[i] \in D
  BY ElementOfSeq
<1>2. m \in Int /\ n \in Int
  BY LenProperties
<1>3. /\ SubSeq(s, m, n) \in Seq(D)
      /\ Len(SubSeq(s, m, n)) = IF m <= n THEN n - m + 1 ELSE 0
      /\ \A i \in 1 .. n - m + 1 : SubSeq(s, m, n)[i] = s[m + i - 1]
  BY <1>1, <1>2, SubSeqProperties
<1> QED BY <1>2, <1>3

\* A word is a sequence of its bits.
LEMMA WordFacts ==
  ASSUME NEW b \in Word
  PROVE  b \in Seq(Bit) /\ Len(b) = WORD_SIZE
<1>1. PICK n \in Nat : n = WORD_SIZE
  BY DEF WORD_SIZE
<1>2. b \in [1 .. n -> Bit]
  BY <1>1 DEF Word
<1>3. b \in Seq(Bit) /\ Len(b) = n
  BY <1>2
<1> QED BY <1>1, <1>3

\* The first bits of a scratch that holds a word are a word.
LEMMA FullWord ==
  ASSUME NEW s \in Seq(Bit), Len(s) >= WORD_SIZE
  PROVE  SubSeq(s, 1, WORD_SIZE) \o Zeros(WORD_SIZE - WORD_SIZE) = SubSeq(s, 1, WORD_SIZE)
         /\ SubSeq(s, 1, WORD_SIZE) \in Word
<1> USE DEF WORD_SIZE
<1>1. Zeros(WORD_SIZE - WORD_SIZE) = <<>>
  BY DEF Zeros
<1>2. PICK b : b = SubSeq(s, 1, WORD_SIZE)
  OBVIOUS
<1>3. b \in Seq(Bit) /\ Len(b) = WORD_SIZE
  <2>1. 1 \in 1 .. Len(s) + 1 /\ WORD_SIZE \in 1 - 1 .. Len(s)
    BY LenProperties
  <2>2. b \in Seq(Bit) /\ Len(b) = WORD_SIZE - 1 + 1
    BY <1>2, <2>1, PartFacts
  <2> QED BY <2>2
<1>4. b \in Word
  BY <1>3, LenProperties DEF Word
<1>5. b \o <<>> = b
  BY <1>3, ConcatEmptySeq
<1> QED BY <1>1, <1>2, <1>4, <1>5

\* What bit_writer_write does, with less than a word of bits.
Stays(w, bits, v) ==
  v = [size |-> w.size, words |-> w.words, scratch |-> w.scratch \o bits, failed |-> FALSE]
Flushes(w, bits, v) ==
  v = [size |-> w.size, words |-> Append(w.words, SubSeq(w.scratch \o bits, 1, WORD_SIZE)),
       scratch |-> SubSeq(w.scratch \o bits, WORD_SIZE + 1, Len(w.scratch) + Len(bits)),
       failed |-> FALSE]

\* The bits stay in the scratch, or complete a word that goes to the buffer, or the
\* buffer has no room for it and the writer fails.
LEMMA WriteBitsDoes ==
  ASSUME NEW w, Ready(w), ~ w.failed, NEW bits \in Seq(Bit), Len(bits) < WORD_SIZE
  PROVE  LET v == WriteBits(w, bits)
         IN /\ Len(w.scratch) + Len(bits) < WORD_SIZE => Stays(w, bits, v) /\ Ready(v)
            /\ Len(w.scratch) + Len(bits) >= WORD_SIZE /\ Len(w.words) < w.size =>
                 Flushes(w, bits, v) /\ Ready(v)
            /\ Len(w.scratch) + Len(bits) >= WORD_SIZE /\ Len(w.words) >= w.size =>
                 v \in Writers /\ v.failed
<1>1. PICK c : c = w.scratch \o bits
  OBVIOUS
<1>2. c \in Seq(Bit) /\ Len(c) = Len(w.scratch) + Len(bits) /\ Len(w.scratch) \in Nat
      /\ Len(bits) \in Nat
  BY <1>1, ConcatProperties, LenProperties DEF Ready, Writers
<1>3. PICK f : f = [w EXCEPT !.scratch = c]
  OBVIOUS
<1>4. f = [size |-> w.size, words |-> w.words, scratch |-> c, failed |-> FALSE] /\ f \in Writers
  BY <1>2, <1>3 DEF Ready, Writers
<1>5. WriteBits(w, bits) = IF Len(c) >= WORD_SIZE THEN FlushBits(f) ELSE f
  BY <1>1, <1>3, <1>4 DEF WriteBits
<1>6. CASE Len(c) < WORD_SIZE
  <2>1. WriteBits(w, bits) = f
    BY <1>2, <1>5, <1>6 DEF WORD_SIZE
  <2> QED BY <1>1, <1>2, <1>4, <1>6, <2>1 DEF Stays, Ready, WORD_SIZE
<1>7. CASE Len(c) >= WORD_SIZE /\ Len(w.words) < w.size
  <2>1. Lesser(WORD_SIZE, Len(f.scratch)) = WORD_SIZE
    BY <1>2, <1>4, <1>7 DEF Lesser, WORD_SIZE
  <2>2. ~ (Len(f.words) >= f.size)
    BY <1>4, <1>7, LenProperties DEF Ready, Writers
  <2>3. PICK b \in Word : b = SubSeq(c, 1, WORD_SIZE) /\ b = b \o Zeros(WORD_SIZE - WORD_SIZE)
    BY <1>2, <1>7, FullWord
  <2>4. FlushBits(f) = [f EXCEPT !.words = Append(@, b),
                                 !.scratch = SubSeq(@, WORD_SIZE + 1, Len(@))]
    BY <1>4, <2>1, <2>2, <2>3 DEF FlushBits
  <2>5. PICK s : s = SubSeq(c, WORD_SIZE + 1, Len(c))
    OBVIOUS
  <2>6. FlushBits(f) = [size |-> w.size, words |-> Append(w.words, b), scratch |-> s, failed |-> FALSE]
    BY <1>4, <2>4, <2>5
  <2>7. s \in Seq(Bit) /\ Len(s) = Len(c) - WORD_SIZE
    <3>1. WORD_SIZE + 1 \in 1 .. Len(c) + 1 /\ Len(c) \in (WORD_SIZE + 1) - 1 .. Len(c)
      BY <1>2, <1>7 DEF WORD_SIZE
    <3>2. s \in Seq(Bit) /\ Len(s) = Len(c) - (WORD_SIZE + 1) + 1
      BY <1>2, <2>5, <3>1, PartFacts
    <3> QED BY <1>2, <3>2 DEF WORD_SIZE
  <2>8. Append(w.words, b) \in Seq(Word)
    BY DEF Ready, Writers
  <2>9. Len(s) < WORD_SIZE
    BY <1>2, <2>7 DEF Ready, WORD_SIZE
  <2>10. FlushBits(f) \in Writers
    BY <2>6, <2>7, <2>8 DEF Ready, Writers
  <2>11. Ready(FlushBits(f))
    BY <2>6, <2>9, <2>10 DEF Ready
  <2>12. Flushes(w, bits, FlushBits(f))
    BY <1>1, <1>2, <2>3, <2>5, <2>6 DEF Flushes
  <2>13. WriteBits(w, bits) = FlushBits(f)
    BY <1>5, <1>7
  <2>14. ~ (Len(w.scratch) + Len(bits) < WORD_SIZE) /\ ~ (Len(w.words) >= w.size)
    BY <1>2, <1>4, <1>7, <2>2 DEF WORD_SIZE
  <2> QED BY <2>11, <2>12, <2>13, <2>14
<1>8. CASE Len(c) >= WORD_SIZE /\ Len(w.words) >= w.size
  <2>1. FlushBits(f) = [f EXCEPT !.failed = TRUE]
    BY <1>4, <1>8 DEF FlushBits
  <2>2. FlushBits(f) \in Writers /\ FlushBits(f).failed
    BY <1>4, <2>1 DEF Writers
  <2> QED BY <1>2, <1>5, <1>8, <2>2 DEF WORD_SIZE, Ready, Writers
<1>9. Len(w.words) \in Nat /\ w.size \in Nat
  BY LenProperties DEF Ready, Writers
<1> QED BY <1>2, <1>6, <1>7, <1>8, <1>9 DEF WORD_SIZE

-----------------------------------------------------------------------------
(* Reading bits.                                                           *)

\* A reader that has not failed.
Reading(B, x, s, u) == [words |-> B, next |-> x, scratch |-> s, value |-> u, failed |-> FALSE]

\* More bits are asked for than the scratch holds; the buffer has no word left.
Beyond(n, s) == n > Len(s)
Ended(B, x) == x + 1 > Len(B)
Joined(B, x, s) == s \o B[x + 1]

\* The next word goes behind the scratch.
LEMMA FetchIs ==
  ASSUME NEW B, NEW x, NEW s, NEW u, ~ Ended(B, x)
  PROVE  Fetch(Reading(B, x, s, u)) = Reading(B, x + 1, s \o B[x + 1], u)
<1>1. PICK c, y : c = s \o B[x + 1] /\ y = x + 1
  OBVIOUS
<1>2. Fetch(Reading(B, x, s, u)) = [Reading(B, x, s, u) EXCEPT !.scratch = c, !.next = y]
  BY <1>1 DEF Fetch, Reading, Ended
<1> QED BY <1>1, <1>2 DEF Reading

\* bit_reader_read with enough bits in the scratch, and with a word more.
LEMMA ReadsScratch ==
  ASSUME NEW B, NEW x, NEW s, NEW u, NEW n, ~ Beyond(n, s)
  PROVE  ReadBits(Reading(B, x, s, u), n)
         = Reading(B, x, SubSeq(s, n + 1, Len(s)), FromBits(SubSeq(s, 1, n)))
<1>1. PICK a, b : a = FromBits(SubSeq(s, 1, n)) /\ b = SubSeq(s, n + 1, Len(s))
  OBVIOUS
<1>2. ReadBits(Reading(B, x, s, u), n) = [Reading(B, x, s, u) EXCEPT !.value = a, !.scratch = b]
  BY <1>1 DEF ReadBits, Reading, Beyond
<1> QED BY <1>1, <1>2 DEF Reading

\* Reading bits that are not all in the scratch, as one sequence of bits.
LEMMA ReadsNextWord ==
  ASSUME NEW B, NEW x, NEW s, NEW u, NEW n, Beyond(n, s), ~ Ended(B, x),
         NEW c, c = Joined(B, x, s)
  PROVE  ReadBits(Reading(B, x, s, u), n)
         = Reading(B, x + 1, SubSeq(c, n + 1, Len(c)), FromBits(SubSeq(c, 1, n)))
<1>1. PICK y : y = x + 1
  OBVIOUS
<1>2. PICK a, b : a = FromBits(SubSeq(c, 1, n)) /\ b = SubSeq(c, n + 1, Len(c))
  OBVIOUS
<1>3. Fetch(Reading(B, x, s, u)) = Reading(B, y, c, u)
  BY <1>1, FetchIs DEF Joined
<1>4. ReadBits(Reading(B, x, s, u), n) = [Reading(B, y, c, u) EXCEPT !.value = a, !.scratch = b]
  <2>1. ~ Reading(B, x, s, u).failed /\ n > Len(Reading(B, x, s, u).scratch)
    BY DEF Reading, Beyond
  <2>2. ~ Reading(B, y, c, u).failed /\ Reading(B, y, c, u).scratch = c
    BY DEF Reading
  <2> QED BY <1>2, <1>3, <2>1, <2>2 DEF ReadBits
<1> QED BY <1>1, <1>2, <1>4 DEF Reading

\* The two parts of a concatenation.
LEMMA SplitAt ==
  ASSUME NEW D, NEW s \in Seq(D), NEW t \in Seq(D)
  PROVE  /\ SubSeq(s \o t, 1, Len(s)) = s
         /\ SubSeq(s \o t, Len(s) + 1, Len(s \o t)) = t
<1>1. PICK c : c = s \o t
  OBVIOUS
<1>2. PICK m \in Nat, n \in Nat : m = Len(s) /\ n = Len(t)
  BY LenProperties
<1>3. c \in Seq(D) /\ Len(c) = m + n
      /\ \A i \in 1 .. m + n : c[i] = IF i <= m THEN s[i] ELSE t[i - m]
  BY <1>1, <1>2, ConcatProperties
<1>4. SubSeq(c, 1, m) = s
  <2>1. 1 \in 1 .. Len(c) + 1 /\ m \in 1 - 1 .. Len(c) /\ m - 1 + 1 = m
    BY <1>3
  <2>2. /\ SubSeq(c, 1, m) \in Seq(D) /\ Len(SubSeq(c, 1, m)) = m - 1 + 1
        /\ \A i \in 1 .. m - 1 + 1 : SubSeq(c, 1, m)[i] = c[1 + i - 1]
    BY <1>3, <2>1, PartFacts
  <2>3. \A i \in 1 .. m : 1 + i - 1 = i /\ i \in 1 .. m + n /\ i <= m
    OBVIOUS
  <2>4. \A i \in 1 .. m : SubSeq(c, 1, m)[i] = s[i]
    BY <1>3, <2>1, <2>2, <2>3
  <2> QED BY <1>2, <2>1, <2>2, <2>4, SeqEqual
<1>5. SubSeq(c, m + 1, m + n) = t
  <2>1. m + 1 \in 1 .. Len(c) + 1 /\ m + n \in (m + 1) - 1 .. Len(c) /\ (m + n) - (m + 1) + 1 = n
    BY <1>3
  <2>2. /\ SubSeq(c, m + 1, m + n) \in Seq(D) /\ Len(SubSeq(c, m + 1, m + n)) = (m + n) - (m + 1) + 1
        /\ \A i \in 1 .. (m + n) - (m + 1) + 1 : SubSeq(c, m + 1, m + n)[i] = c[(m + 1) + i - 1]
    BY <1>3, <2>1, PartFacts
  <2>3. \A i \in 1 .. n : /\ (m + 1) + i - 1 = m + i /\ m + i \in 1 .. m + n
                          /\ ~ (m + i <= m) /\ (m + i) - m = i
    OBVIOUS
  <2>4. \A i \in 1 .. n : SubSeq(c, m + 1, m + n)[i] = t[i]
    BY <1>3, <2>1, <2>2, <2>3
  <2> QED BY <1>2, <2>1, <2>2, <2>4, SeqEqual
<1> QED BY <1>1, <1>2, <1>3, <1>4, <1>5

\* bit_reader_read of bits that are in the scratch, and of bits that end in the
\* next word.
LEMMA ReadsHeld ==
  ASSUME NEW B, NEW x, NEW u, NEW bits \in Seq(Bit), NEW t \in Seq(Bit)
  PROVE  ReadBits(Reading(B, x, bits \o t, u), Len(bits)) = Reading(B, x, t, FromBits(bits))
<1>1. PICK c, n : c = bits \o t /\ n = Len(bits)
  OBVIOUS
<1>2. ~ Beyond(n, c)
  <2>1. Len(c) = n + Len(t) /\ n \in Nat /\ Len(t) \in Nat
    BY <1>1, ConcatProperties, LenProperties
  <2> QED BY <2>1 DEF Beyond
<1>3. SubSeq(c, 1, n) = bits /\ SubSeq(c, n + 1, Len(c)) = t
  BY <1>1, SplitAt
<1>4. ReadBits(Reading(B, x, c, u), n)
        = Reading(B, x, SubSeq(c, n + 1, Len(c)), FromBits(SubSeq(c, 1, n)))
  BY <1>2, ReadsScratch
<1> QED BY <1>1, <1>3, <1>4

First(c, n) == SubSeq(c, 1, n)
Rest(c, n) == SubSeq(c, n + 1, Len(c))
NextWord(x) == x + 1

\* The same, with its parts as operators.
LEMMA ReadsOnTo ==
  ASSUME NEW B, NEW x, NEW u, NEW s, NEW n, Beyond(n, s), ~ Ended(B, x)
  PROVE  ReadBits(Reading(B, x, s, u), n)
         = Reading(B, NextWord(x), Rest(Joined(B, x, s), n), FromBits(First(Joined(B, x, s), n)))
<1>1. PICK c : c = Joined(B, x, s)
  OBVIOUS
<1>2. ReadBits(Reading(B, x, s, u), n)
        = Reading(B, x + 1, SubSeq(c, n + 1, Len(c)), FromBits(SubSeq(c, 1, n)))
  BY <1>1, ReadsNextWord
<1> QED BY <1>1, <1>2 DEF Rest, First, NextWord

Gives(B, x, s, bits, t) == Joined(B, x, s) = bits \o t

\* When the scratch and the next word start with certain bits, those are read.
LEMMA ReadsOn ==
  ASSUME NEW B, NEW x, NEW u, NEW bits \in Seq(Bit), NEW s, NEW t \in Seq(Bit),
         ~ Ended(B, x), Gives(B, x, s, bits, t), Beyond(Len(bits), s)
  PROVE  ReadBits(Reading(B, x, s, u), Len(bits)) = Reading(B, x + 1, t, FromBits(bits))
<1>1. PICK c, n : c = Joined(B, x, s) /\ n = Len(bits)
  OBVIOUS
<1>3. First(c, n) = bits /\ Rest(c, n) = t
  BY <1>1, SplitAt DEF Rest, First, Gives
<1>4. ReadBits(Reading(B, x, s, u), Len(bits))
         = Reading(B, NextWord(x), Rest(Joined(B, x, s), Len(bits)), FromBits(First(Joined(B, x, s), Len(bits))))
  BY ReadsOnTo
<1> QED BY <1>1, <1>3, <1>4 DEF NextWord

-----------------------------------------------------------------------------
(* A reader that follows a writer.                                         *)

\* A buffer begins with what a writer has written, the bits in its scratch included.
Begins(w, B) ==
  /\ B \in Seq(Word)
  /\ Len(w.words) <= Len(B)
  /\ \A i \in 1 .. Len(w.words) : B[i] = w.words[i]
  /\ w.scratch # <<>> =>
       Len(w.words) < Len(B) /\ \E t \in Seq(Bit) : B[Len(w.words) + 1] = w.scratch \o t

\* The reader of a buffer at the bit where a writer is; u is what it read last.
ReaderAt(w, B, u) ==
  IF w.scratch = <<>> THEN Reading(B, Len(w.words), <<>>, u)
  ELSE LET b == B[Len(w.words) + 1]
       IN Reading(B, Len(w.words) + 1, SubSeq(b, Len(w.scratch) + 1, Len(b)), u)

\* The reader holds what follows the bits of the writer's scratch.
LEMMA ReaderAtHolds ==
  ASSUME NEW w, Ready(w), w.scratch # <<>>, NEW B, NEW u, NEW t \in Seq(Bit),
         B[Len(w.words) + 1] = w.scratch \o t
  PROVE  ReaderAt(w, B, u) = Reading(B, Len(w.words) + 1, t, u)
<1>1. SubSeq(w.scratch \o t, Len(w.scratch) + 1, Len(w.scratch \o t)) = t
  BY SplitAt DEF Ready, Writers
<1> QED BY <1>1 DEF ReaderAt

\* One sequence is another and one more element.
OneMore(v, s, x) ==
  Len(v) = Len(s) + 1 /\ v[Len(s) + 1] = x /\ \A i \in 1 .. Len(s) : v[i] = s[i]

\* Append adds one.
LEMMA AppendAddsOne ==
  ASSUME NEW D, NEW s \in Seq(D), NEW x \in D
  PROVE  OneMore(Append(s, x), s, x)
BY AppendProperties DEF OneMore

\* Three sequences may be joined from either end.
Joins(a, b, c) == (a \o b) \o c = a \o (b \o c)

\* Sequences of the same elements do.
LEMMA InAnyOrder ==
  ASSUME NEW D, NEW a \in Seq(D), NEW b \in Seq(D), NEW c \in Seq(D)
  PROVE  Joins(a, b, c)
BY ConcatAssociative DEF Joins

\* Less than a word that stays in the scratch.
LEMMA ReadsWhatStays ==
  ASSUME NEW w, Ready(w), ~ w.failed, NEW bits \in Seq(Bit),
         NEW v, Stays(w, bits, v), Ready(v), NEW B, Begins(v, B), NEW u
  PROVE  /\ Begins(w, B)
         /\ ReadBits(ReaderAt(w, B, u), Len(bits)) = ReaderAt(v, B, FromBits(bits))
<1>1. PICK s, W, l : /\ s = w.scratch /\ W = w.words /\ s \in Seq(Bit) /\ W \in Seq(Word)
                     /\ l = Len(W) /\ l \in Nat
  BY LenProperties DEF Ready, Writers
<1>2. v.words = W /\ v.scratch = s \o bits
  BY <1>1 DEF Stays
<1>3. /\ B \in Seq(Word) /\ Len(B) \in Nat /\ l <= Len(B) /\ \A i \in 1 .. l : B[i] = W[i]
      /\ s \o bits # <<>> => l < Len(B) /\ \E t \in Seq(Bit) : B[l + 1] = (s \o bits) \o t
  BY <1>1, <1>2, LenProperties DEF Begins
<1>4. s \o bits = <<>> <=> s = <<>> /\ bits = <<>>
  BY <1>1, ConcatEqualIffEmpty
<1>5. CASE s \o bits = <<>>
  <2>1. Begins(w, B)
    BY <1>1, <1>3, <1>4, <1>5 DEF Begins
  <2>2. PICK e : e = <<>>
    OBVIOUS
  <2>3. e \in Seq(Bit) /\ e \o e = e
    BY <2>2, EmptySeq, ConcatEmptySeq
  <2>4. ReadBits(Reading(B, l, e \o e, u), Len(e)) = Reading(B, l, e, FromBits(e))
    BY <2>3, ReadsHeld
  <2>5. ReaderAt(w, B, u) = Reading(B, l, e, u) /\ ReaderAt(v, B, FromBits(bits)) = Reading(B, l, e, FromBits(e))
    BY <1>1, <1>2, <1>4, <1>5, <2>2 DEF ReaderAt
  <2> QED BY <1>4, <1>5, <2>1, <2>2, <2>3, <2>4, <2>5
<1>6. CASE s \o bits # <<>>
  <2>a. l < Len(B) /\ \E t \in Seq(Bit) : B[l + 1] = (s \o bits) \o t
    BY <1>3, <1>6
  <2>1. PICK t : t \in Seq(Bit) /\ B[l + 1] = (s \o bits) \o t
    BY <2>a
  <2>2. PICK r : r = bits \o t /\ r \in Seq(Bit) /\ B[l + 1] = s \o r
    <3>a. s \in Seq(Bit) /\ t \in Seq(Bit)
      BY <1>1, <2>1
    <3>1. (s \o bits) \o t = s \o (bits \o t)
      <4>1. Joins(s, bits, t)
        BY <3>a, InAnyOrder, Zenon
      <4> QED BY <4>1, Zenon DEF Joins
    <3>2. bits \o t \in Seq(Bit)
      BY <2>1, ConcatProperties
    <3> QED BY <2>1, <3>1, <3>2
  <2>3. Begins(w, B)
    <3>1. \E q \in Seq(Bit) : B[l + 1] = s \o q
      BY <2>2
    <3> QED BY <1>1, <1>3, <2>a, <3>1 DEF Begins
  <2>4. ReaderAt(v, B, FromBits(bits)) = Reading(B, l + 1, t, FromBits(bits))
    <3>1. B[Len(v.words) + 1] = v.scratch \o t /\ v.scratch # <<>> /\ Len(v.words) = l
      BY <1>1, <1>2, <1>6, <2>1
    <3>2. ReaderAt(v, B, FromBits(bits)) = Reading(B, Len(v.words) + 1, t, FromBits(bits))
      BY <2>1, <3>1, ReaderAtHolds
    <3> QED BY <3>1, <3>2
  <2>5. CASE s # <<>>
    <3>1. ReaderAt(w, B, u) = Reading(B, l + 1, r, u)
      <4>1. B[Len(w.words) + 1] = w.scratch \o r /\ w.scratch # <<>> /\ Len(w.words) = l
        BY <1>1, <2>2, <2>5
      <4>2. ReaderAt(w, B, u) = Reading(B, Len(w.words) + 1, r, u)
        BY <2>2, <4>1, ReaderAtHolds
      <4> QED BY <4>1, <4>2
    <3>2. ReadBits(Reading(B, l + 1, bits \o t, u), Len(bits)) = Reading(B, l + 1, t, FromBits(bits))
      BY <2>1, ReadsHeld
    <3> QED BY <2>2, <2>3, <2>4, <3>1, <3>2
  <2>6. CASE s = <<>>
    <3>1. ReaderAt(w, B, u) = Reading(B, l, s, u)
      BY <1>1, <2>6 DEF ReaderAt
    <3>2. Beyond(Len(bits), s)
      BY <1>4, <1>6, <2>6, EmptySeq DEF Beyond
    <3>3. ~ Ended(B, l)
      BY <1>1, <1>3, <2>a DEF Ended
    <3>b. Gives(B, l, s, bits, t)
      <4>1. s \o (bits \o t) = bits \o t
        BY <2>2, <2>6, ConcatEmptySeq
      <4> QED BY <1>1, <2>2, <2>6, <4>1, ConcatEmptySeq DEF Joined, Gives
    <3>4. ReadBits(Reading(B, l, s, u), Len(bits)) = Reading(B, l + 1, t, FromBits(bits))
      BY <2>1, <3>b, <3>2, <3>3, ReadsOn
    <3> QED BY <2>3, <2>4, <3>1, <3>4
  <2> QED BY <2>5, <2>6
<1> QED BY <1>5, <1>6

\* A concatenation cut within its second part.
Within(s, z, n) == n \in Len(s) .. Len(s) + Len(z)
CutsAt(s, z, n, a, b) ==
  /\ z = a \o b /\ Len(a) = n - Len(s) /\ Len(b) = Len(s) + Len(z) - n
  /\ SubSeq(s \o z, 1, n) = s \o a
  /\ SubSeq(s \o z, n + 1, Len(s) + Len(z)) = b

\* A cut of two sequences that falls in the second.
LEMMA CutInside ==
  ASSUME NEW D, NEW s \in Seq(D), NEW z \in Seq(D), NEW n, Within(s, z, n)
  PROVE  \E a \in Seq(D), b \in Seq(D) : CutsAt(s, z, n, a, b)
<1>a. PICK m, q : m = Len(s) /\ q = Len(z) /\ m \in Nat /\ q \in Nat
  BY LenProperties
<1>b. n \in m .. m + q
  BY <1>a DEF Within
<1>c. PICK k : k = n - m
  OBVIOUS
<1>d. k \in 0 .. q /\ m + k = n /\ q - k = m + q - n
  BY <1>a, <1>b, <1>c
<1>1. /\ m = Len(s) /\ q = Len(z) /\ m \in Nat /\ q \in Nat
      /\ k = n - m /\ k \in 0 .. q /\ m + k = n /\ q - k = m + q - n
  BY <1>a, <1>c, <1>d
<1>2. PICK a, b : a = SubSeq(z, 1, k) /\ b = SubSeq(z, k + 1, q)
  OBVIOUS
<1>3. a \in Seq(D) /\ Len(a) = k
  <2>1. 1 \in 1 .. q + 1 /\ k \in 1 - 1 .. q /\ k - 1 + 1 = k
    BY <1>1
  <2> QED BY <1>1, <1>2, <2>1, PartFacts
<1>4. b \in Seq(D) /\ Len(b) = q - k
  <2>1. k + 1 \in 1 .. q + 1 /\ q \in (k + 1) - 1 .. q /\ q - (k + 1) + 1 = q - k
    BY <1>a, <1>d
  <2>2. k + 1 \in 1 .. Len(z) + 1 /\ q \in (k + 1) - 1 .. Len(z)
    BY <1>a, <2>1
  <2>3. b \in Seq(D) /\ Len(b) = q - (k + 1) + 1
    BY <1>2, <2>2, PartFacts
  <2> QED BY <2>1, <2>3
<1>5. z = a \o b
  <2>1. 1 \in 1 .. Len(z) + 1 /\ k \in 1 - 1 .. Len(z) /\ Len(z) \in k .. Len(z)
    BY <1>1
  <2>2. SubSeq(z, 1, k) \o SubSeq(z, k + 1, Len(z)) = SubSeq(z, 1, Len(z))
    BY <2>1, ConcatAdjacentSubSeq
  <2> QED BY <1>1, <1>2, <2>2, SubSeqFull
<1>6. PICK c : c = s \o a
  OBVIOUS
<1>7. c \in Seq(D) /\ Len(c) = n
  <2>1. c \in Seq(D) /\ Len(c) = Len(s) + Len(a)
    BY <1>3, <1>6, ConcatProperties, Zenon
  <2>2. Len(s) + Len(a) = m + k
    BY <1>1, <1>3, Zenon
  <2> QED BY <1>1, <2>1, <2>2, Zenon
<1>8. s \o z = c \o b
  <2>1. (s \o a) \o b = s \o (a \o b)
    <3>1. Joins(s, a, b)
      BY <1>3, <1>4, InAnyOrder, Zenon
    <3> QED BY <3>1, Zenon DEF Joins
  <2> QED BY <1>5, <1>6, <2>1, Zenon
<1>9. SubSeq(c \o b, 1, Len(c)) = c /\ SubSeq(c \o b, Len(c) + 1, Len(c \o b)) = b
  BY <1>4, <1>7, SplitAt
<1>10. Len(c \o b) = m + q
  BY <1>1, <1>8, ConcatProperties
<1>11. CutsAt(s, z, n, a, b)
  BY <1>1, <1>3, <1>4, <1>5, <1>6, <1>7, <1>8, <1>9, <1>10 DEF CutsAt
<1> QED BY <1>3, <1>4, <1>11

\* Bits that fill a word: the rest of them is in the scratch.
LEMMA ReadsWhatFlushes ==
  ASSUME NEW w, Ready(w), ~ w.failed, NEW bits \in Seq(Bit), Len(bits) < WORD_SIZE,
         Len(w.scratch) + Len(bits) >= WORD_SIZE,
         NEW v, Flushes(w, bits, v), Ready(v), NEW B, Begins(v, B), NEW u
  PROVE  /\ Begins(w, B)
         /\ ReadBits(ReaderAt(w, B, u), Len(bits)) = ReaderAt(v, B, FromBits(bits))
<1>1. PICK s, W, l : /\ s = w.scratch /\ W = w.words /\ s \in Seq(Bit) /\ W \in Seq(Word)
                     /\ l = Len(W) /\ l \in Nat
  BY LenProperties DEF Ready, Writers
<1>2. WORD_SIZE \in Len(s) .. Len(s) + Len(bits) /\ Len(s) # 0
  <2>1. Len(s) \in Nat /\ Len(bits) \in Nat /\ Len(s) < WORD_SIZE
    BY <1>1, LenProperties DEF Ready
  <2> QED BY <1>1, <2>1 DEF WORD_SIZE
<1>3. PICK a \in Seq(Bit), b \in Seq(Bit) :
        /\ bits = a \o b /\ Len(b) = Len(s) + Len(bits) - WORD_SIZE
        /\ Len(a) = WORD_SIZE - Len(s)
        /\ SubSeq(s \o bits, 1, WORD_SIZE) = s \o a
        /\ SubSeq(s \o bits, WORD_SIZE + 1, Len(s) + Len(bits)) = b
  <2>1. s \in Seq(Bit) /\ Within(s, bits, WORD_SIZE)
    BY <1>1, <1>2 DEF Within
  <2>2. \E a \in Seq(Bit), b \in Seq(Bit) : CutsAt(s, bits, WORD_SIZE, a, b)
    BY <2>1, CutInside
  <2> QED BY <2>2 DEF CutsAt
<1>4. v.words = Append(W, s \o a) /\ v.scratch = b
  BY <1>1, <1>3 DEF Flushes
<1>5. /\ Len(v.words) = l + 1 /\ v.words[l + 1] = s \o a /\ \A i \in 1 .. l : v.words[i] = W[i]
  <2>1. s \o a \in Word
    <3>1. PICK n \in Nat : n = WORD_SIZE
      BY DEF WORD_SIZE
    <3>2. s \o a \in Seq(Bit) /\ Len(s \o a) = n
      <4>1. s \o a \in Seq(Bit) /\ Len(s \o a) = Len(s) + Len(a) /\ Len(s) \in Nat
        BY <1>1, ConcatProperties, LenProperties
      <4> QED BY <1>3, <3>1, <4>1
    <3> QED BY <3>1, <3>2, LenProperties DEF Word
  <2>2. W \in Seq(Word)
    BY <1>1
  <2>3. OneMore(Append(W, s \o a), W, s \o a)
    BY <2>1, <2>2, AppendAddsOne, Zenon
  <2>4. OneMore(v.words, W, s \o a)
    BY <1>4, <2>3, Zenon
  <2> QED BY <1>1, <2>4, Zenon DEF OneMore
<1>6. /\ B \in Seq(Word) /\ Len(B) \in Nat /\ l + 1 <= Len(B)
      /\ \A i \in 1 .. l + 1 : B[i] = v.words[i]
  BY <1>5, LenProperties DEF Begins
<1>7. l < Len(B) /\ B[l + 1] = s \o a /\ \A i \in 1 .. l : B[i] = W[i]
  <2>1. l + 1 \in 1 .. l + 1 /\ \A i \in 1 .. l : i \in 1 .. l + 1
    BY <1>1
  <2>2. l < Len(B)
    BY <1>1, <1>6
  <2>3. B[l + 1] = v.words[l + 1] /\ \A i \in 1 .. l : B[i] = v.words[i]
    BY <1>6, <2>1
  <2> QED BY <1>5, <2>2, <2>3
<1>8. s # <<>>
  BY <1>2, EmptySeq
<1>9. Begins(w, B)
  <2>1. l <= Len(B)
    BY <1>1, <1>6, <1>7
  <2>2. \E t \in Seq(Bit) : B[l + 1] = s \o t
    BY <1>7
  <2> QED BY <1>1, <1>6, <1>7, <2>1, <2>2 DEF Begins
<1>10. ReaderAt(w, B, u) = Reading(B, l + 1, a, u)
  <2>1. B[Len(w.words) + 1] = w.scratch \o a /\ w.scratch # <<>> /\ Len(w.words) = l
    BY <1>1, <1>7, <1>8
  <2>2. ReaderAt(w, B, u) = Reading(B, Len(w.words) + 1, a, u)
    BY <2>1, ReaderAtHolds
  <2> QED BY <2>1, <2>2
<1>11. CASE b = <<>>
  <2>1. PICK e : e = <<>> /\ e \in Seq(Bit) /\ b = e
    BY <1>11, EmptySeq
  <2>2. bits \o e = a
    <3>1. a \o e = a
      BY <2>1, ConcatEmptySeq
    <3> QED BY <1>3, <2>1, <3>1
  <2>3. ReadBits(Reading(B, l + 1, bits \o e, u), Len(bits)) = Reading(B, l + 1, e, FromBits(bits))
    <3>1. e \in Seq(Bit)
      BY <2>1
    <3> QED BY <3>1, ReadsHeld
  <2>4. ReaderAt(v, B, FromBits(bits)) = Reading(B, l + 1, e, FromBits(bits))
    BY <1>4, <1>5, <2>1 DEF ReaderAt
  <2> QED BY <1>9, <1>10, <2>2, <2>3, <2>4
<1>12. CASE b # <<>>
  <2>1. (l + 1) < Len(B) /\ \E t \in Seq(Bit) : B[(l + 1) + 1] = b \o t
    BY <1>4, <1>5, <1>12 DEF Begins
  <2>2. PICK t : t \in Seq(Bit) /\ B[(l + 1) + 1] = b \o t
    BY <2>1
  <2>3. ReaderAt(v, B, FromBits(bits)) = Reading(B, (l + 1) + 1, t, FromBits(bits))
    <3>1. B[Len(v.words) + 1] = v.scratch \o t /\ v.scratch # <<>> /\ Len(v.words) = l + 1
      BY <1>4, <1>5, <1>12, <2>2
    <3>2. ReaderAt(v, B, FromBits(bits)) = Reading(B, Len(v.words) + 1, t, FromBits(bits))
      BY <2>2, <3>1, ReaderAtHolds
    <3> QED BY <3>1, <3>2
  <2>4. ~ Ended(B, l + 1)
    BY <1>1, <1>6, <2>1 DEF Ended
  <2>5. Gives(B, l + 1, a, bits, t)
    <3>1. (a \o b) \o t = a \o (b \o t)
      <4>1. a \in Seq(Bit) /\ b \in Seq(Bit) /\ t \in Seq(Bit)
        BY <1>3, <2>2, Zenon
      <4>2. Joins(a, b, t)
        BY <4>1, InAnyOrder, Zenon
      <4> QED BY <4>2, Zenon DEF Joins
    <3> QED BY <1>3, <2>2, <3>1 DEF Gives, Joined
  <2>6. Beyond(Len(bits), a)
    <3>1. Len(b) \in Nat \ {0}
      BY <1>12, EmptySeq
    <3>2. Len(bits) = Len(a) + Len(b) /\ Len(a) \in Nat
      BY <1>3, ConcatProperties, LenProperties
    <3> QED BY <3>1, <3>2 DEF Beyond
  <2>7. ReadBits(Reading(B, l + 1, a, u), Len(bits)) = Reading(B, (l + 1) + 1, t, FromBits(bits))
    BY <2>2, <2>4, <2>5, <2>6, ReadsOn
  <2> QED BY <1>9, <1>10, <2>3, <2>7
<1> QED BY <1>11, <1>12

\* Bits are read back where they were written.
LEMMA ReadsBits ==
  ASSUME NEW w, Ready(w), NEW bits \in Seq(Bit), Len(bits) < WORD_SIZE,
         NEW v, v = WriteBits(w, bits), ~ v.failed
  PROVE  /\ ~ w.failed /\ Ready(v)
         /\ \A B, u : Begins(v, B) =>
              /\ Begins(w, B)
              /\ ReadBits(ReaderAt(w, B, u), Len(bits)) = ReaderAt(v, B, FromBits(bits))
<1>1. ~ w.failed
  BY DEF WriteBits
<1>2. /\ Len(w.scratch) + Len(bits) < WORD_SIZE => Stays(w, bits, v) /\ Ready(v)
      /\ Len(w.scratch) + Len(bits) >= WORD_SIZE /\ Len(w.words) < w.size =>
           Flushes(w, bits, v) /\ Ready(v)
      /\ Len(w.scratch) + Len(bits) >= WORD_SIZE /\ Len(w.words) >= w.size => v.failed
  BY <1>1, WriteBitsDoes
<1>3. CASE Len(w.scratch) + Len(bits) < WORD_SIZE
  BY <1>1, <1>2, <1>3, ReadsWhatStays
<1>4. CASE Len(w.scratch) + Len(bits) >= WORD_SIZE
  <2>1. Len(w.words) < w.size \/ Len(w.words) >= w.size
    BY LenProperties DEF Ready, Writers
  <2>2. Flushes(w, bits, v) /\ Ready(v)
    BY <1>2, <1>4, <2>1
  <2> QED BY <1>1, <1>4, <2>2, ReadsWhatFlushes
<1>5. Len(w.scratch) \in Nat /\ Len(bits) \in Nat
  BY LenProperties DEF Ready, Writers
<1> QED BY <1>3, <1>4, <1>5 DEF WORD_SIZE

-----------------------------------------------------------------------------
(* What a step of a writer does to its buffer, and what a reader finds.    *)

\* A writer that fails stays failed; one that does not writes after what is there.
Grows(w, v) ==
  /\ w.failed => v.failed
  /\ Ready(w) /\ ~ v.failed => Ready(v) /\ \A B : Begins(v, B) => Begins(w, B)

\* The writers that are met: those that have failed have a type.
Good(w) == w \in Writers /\ (w.failed \/ Ready(w))

Valued(r, x) == [r EXCEPT !.value = x]

\* Only the value of a reader changes.
LEMMA ReadingValued ==
  ASSUME NEW B, NEW l, NEW s, NEW u, NEW x
  PROVE  Valued(Reading(B, l, s, u), x) = Reading(B, l, s, x)
<1>1. \A f : [[words |-> B, next |-> l, scratch |-> s, value |-> u, failed |-> f] EXCEPT !.value = x]
             = [words |-> B, next |-> l, scratch |-> s, value |-> x, failed |-> f]
  OBVIOUS
<1> QED BY <1>1, Zenon DEF Valued, Reading

\* A reader with another value is at the same place.
LEMMA ReaderAtValued ==
  ASSUME NEW w, NEW B, NEW u, NEW x
  PROVE  Valued(ReaderAt(w, B, u), x) = ReaderAt(w, B, x)
<1>1. CASE w.scratch = <<>>
  BY <1>1, ReadingValued DEF ReaderAt
<1>2. CASE w.scratch # <<>>
  BY <1>2, ReadingValued DEF ReaderAt
<1> QED BY <1>1, <1>2

\* The value of a reader.
LEMMA ReaderAtValue ==
  ASSUME NEW w, NEW B, NEW u
  PROVE  ReaderAt(w, B, u).value = u
BY DEF ReaderAt, Reading

\* A reader where a writer was has not failed.
LEMMA ReaderAtFails ==
  ASSUME NEW w, NEW B, NEW u
  PROVE  ReaderAt(w, B, u).failed = FALSE
BY DEF ReaderAt, Reading

\* Writing bits keeps the writer good.
LEMMA BitsGood ==
  ASSUME NEW w, Good(w), NEW bits \in Seq(Bit), Len(bits) < WORD_SIZE
  PROVE  Good(WriteBits(w, bits))
<1>1. CASE w.failed
  BY <1>1 DEF WriteBits
<1>2. CASE ~ w.failed
  <2>1. Ready(w)
    BY <1>2 DEF Good
  <2>2. PICK v : v = WriteBits(w, bits)
    OBVIOUS
  <2>3. /\ Len(w.scratch) + Len(bits) < WORD_SIZE => Ready(v)
        /\ Len(w.scratch) + Len(bits) >= WORD_SIZE /\ Len(w.words) < w.size => Ready(v)
        /\ Len(w.scratch) + Len(bits) >= WORD_SIZE /\ Len(w.words) >= w.size =>
             v \in Writers /\ v.failed
    BY <1>2, <2>1, <2>2, WriteBitsDoes
  <2>4. Ready(v) \/ (v \in Writers /\ v.failed)
    <3>1. /\ Len(w.scratch) + Len(bits) < WORD_SIZE \/ Len(w.scratch) + Len(bits) >= WORD_SIZE
          /\ Len(w.words) < w.size \/ Len(w.words) >= w.size
      <4>1. Len(w.scratch) \in Nat /\ Len(bits) \in Nat /\ Len(w.words) \in Nat /\ w.size \in Nat
        BY <2>1, LenProperties DEF Ready, Writers
      <4> QED BY <4>1 DEF WORD_SIZE
    <3> QED BY <2>3, <3>1
  <2> QED BY <2>2, <2>4 DEF Ready, Good
<1> QED BY <1>1, <1>2

\* Writing bits goes on from the writer.
LEMMA BitsGrow ==
  ASSUME NEW w, NEW bits \in Seq(Bit), Len(bits) < WORD_SIZE
  PROVE  Grows(w, WriteBits(w, bits))
<1>1. w.failed => WriteBits(w, bits).failed
  BY DEF WriteBits
<1>2. ASSUME Ready(w), ~ WriteBits(w, bits).failed
      PROVE  Ready(WriteBits(w, bits)) /\ \A B : Begins(WriteBits(w, bits), B) => Begins(w, B)
  BY <1>2, ReadsBits
<1> QED BY <1>1, <1>2 DEF Grows

\* A step and one more are a step.
LEMMA GrowsOn ==
  ASSUME NEW w, NEW v, NEW x, Grows(w, v), Grows(v, x)
  PROVE  Grows(w, x)
BY DEF Grows

-----------------------------------------------------------------------------
(* Unsigned members.                                                       *)

\* Unsigned members whose range is not empty.
Uints == {Uint(a, b) : a \in 0 .. INT_MAX, b \in 0 .. INT_MAX}
UintField(f) == f \in Uints /\ f.min <= f.max

\* The bits a value is written with.
FieldBits(f, v) == ToBits(v - f.min, BitsRequired(f.min, f.max))

\* The bits of an unsigned member give its value back, and leave room in a word.
LEMMA UintBits ==
  ASSUME NEW f, UintField(f), NEW v \in f.min .. f.max
  PROVE  /\ FieldBits(f, v) \in Seq(Bit) /\ Len(FieldBits(f, v)) = BitsRequired(f.min, f.max)
         /\ Len(FieldBits(f, v)) < WORD_SIZE /\ FromBits(FieldBits(f, v)) = v - f.min
<1>1. PICK a, b : a = f.min /\ b = f.max /\ a \in Nat /\ b \in Nat /\ a <= b /\ b <= INT_MAX
  BY IntMax DEF UintField, Uints, Uint
<1>2. PICK n : n = BitsRequired(a, b) /\ n \in 0 .. 31 /\ \A x \in a .. b : x - a < 2 ^ n
  BY <1>1, BitsFit
<1>3. PICK x : x = v - a /\ x \in Nat /\ x < 2 ^ n
  BY <1>1, <1>2
<1>4. n \in Nat /\ 2 ^ n \in Nat \ {0}
  BY <1>2, Doubling
<1>5. ToBits(x, n) \in Seq(Bit) /\ Len(ToBits(x, n)) = n /\ FromBits(ToBits(x, n)) = x % 2 ^ n
  BY <1>3, <1>4, BitsAreBits, BitsAddUp
<1>6. x % 2 ^ n = x
  <2>1. PICK p \in Nat \ {0} : p = 2 ^ n /\ x < p
    BY <1>3, <1>4
  <2>2. x % p = x
    BY <1>3, <2>1
  <2> QED BY <2>1, <2>2
<1>7. FieldBits(f, v) = ToBits(x, n) /\ BitsRequired(f.min, f.max) = n
  BY <1>1, <1>2, <1>3 DEF FieldBits
<1>8. n < WORD_SIZE
  BY <1>2 DEF WORD_SIZE
<1>9. FromBits(ToBits(x, n)) = x /\ x = v - f.min
  BY <1>1, <1>3, <1>5, <1>6
<1>10. FieldBits(f, v) \in Seq(Bit) /\ Len(FieldBits(f, v)) = n
  BY <1>5, <1>7, Zenon
<1>11. FromBits(FieldBits(f, v)) = v - f.min
  BY <1>7, <1>9, Zenon
<1>12. Len(FieldBits(f, v)) < WORD_SIZE
  BY <1>8, <1>10, Zenon
<1> QED BY <1>7, <1>10, <1>11, <1>12, Zenon

\* Writing an unsigned member keeps the writer good.
LEMMA UintGood ==
  ASSUME NEW w, NEW f, UintField(f), NEW v \in f.min .. f.max
  PROVE  Good(w) => Good(WriteUint(w, f, v))
<1>1. WriteUint(w, f, v) = WriteBits(w, FieldBits(f, v))
  BY DEF WriteUint, FieldBits
<1>2. FieldBits(f, v) \in Seq(Bit) /\ Len(FieldBits(f, v)) < WORD_SIZE
  BY UintBits
<1> QED BY <1>1, <1>2, BitsGood

\* Writing an unsigned member goes on from the writer.
LEMMA UintGrows ==
  ASSUME NEW w, NEW f, UintField(f), NEW v \in f.min .. f.max
  PROVE  Grows(w, WriteUint(w, f, v))
<1>1. WriteUint(w, f, v) = WriteBits(w, FieldBits(f, v))
  BY DEF WriteUint, FieldBits
<1>2. FieldBits(f, v) \in Seq(Bit) /\ Len(FieldBits(f, v)) < WORD_SIZE
  BY UintBits
<1> QED BY <1>1, <1>2, BitsGrow

\* An unsigned member is read where it was written (write_stream_serialize_uint,
\* read_stream_serialize_uint).
LEMMA ReadsUint ==
  ASSUME NEW w, Ready(w), NEW f, UintField(f), NEW v \in f.min .. f.max,
         ~ WriteUint(w, f, v).failed, NEW B, Begins(WriteUint(w, f, v), B), NEW u
  PROVE  ReadUint(ReaderAt(w, B, u), f) = ReaderAt(WriteUint(w, f, v), B, v)
<1>1. PICK n, bits : n = BitsRequired(f.min, f.max) /\ bits = FieldBits(f, v)
  OBVIOUS
<1>2. bits \in Seq(Bit) /\ Len(bits) = n /\ Len(bits) < WORD_SIZE /\ FromBits(bits) = v - f.min
  BY <1>1, UintBits
<1>3. PICK x : x = WriteUint(w, f, v) /\ x = WriteBits(w, bits)
  BY <1>1 DEF WriteUint, FieldBits
<1>4. ReadBits(ReaderAt(w, B, u), n) = ReaderAt(x, B, v - f.min)
  BY <1>2, <1>3, ReadsBits
<1>5. (v - f.min) + f.min = v
  BY DEF UintField, Uints, Uint
<1>6. PICK r, y : r = ReaderAt(x, B, y) /\ y = v - f.min
  OBVIOUS
<1>7. r.value = y
  BY <1>6, ReaderAtValue
<1>8. ReadUint(ReaderAt(w, B, u), f) = Valued(r, y + f.min)
  BY <1>1, <1>4, <1>6, <1>7 DEF ReadUint, Valued
<1> QED BY <1>3, <1>5, <1>6, <1>8, ReaderAtValued

-----------------------------------------------------------------------------
(* Signed members: the sign, then the absolute value.                      *)

\* Ints whose range is not empty.
Sints == {Sint(a, b) : a \in - INT_MAX .. INT_MAX, b \in - INT_MAX .. INT_MAX}
SintField(f) == f \in Sints /\ f.min <= f.max

\* The sign and the absolute value of an int are values of unsigned members.
LEMMA SignAndAbs ==
  ASSUME NEW f, SintField(f), NEW v \in f.min .. f.max
  PROVE  /\ UintField(Bool) /\ (IF v < 0 THEN 1 ELSE 0) \in Bool.min .. Bool.max
         /\ UintField(AbsMember(f)) /\ Abs(v) \in AbsMember(f).min .. AbsMember(f).max
<1>1. PICK a, b : /\ a = f.min /\ b = f.max /\ a \in Int /\ b \in Int /\ a <= b
                  /\ - INT_MAX <= a /\ b <= INT_MAX
  <2>1. PICK low, high \in - INT_MAX .. INT_MAX : f = Sint(low, high)
    BY DEF SintField, Sints
  <2>2. f.min = low /\ f.max = high /\ low <= high
    BY <2>1 DEF SintField, Sint
  <2> QED BY IntMax, <2>1, <2>2
<1>2. UintField(Bool) /\ (IF v < 0 THEN 1 ELSE 0) \in Bool.min .. Bool.max
  <2>1. 0 \in 0 .. INT_MAX /\ 1 \in 0 .. INT_MAX
    BY IntMax
  <2>2. Bool \in Uints
    <3>1. \A i, j \in 0 .. INT_MAX : Uint(i, j) \in Uints
      BY DEF Uints
    <3> QED BY <2>1, <3>1, Zenon DEF Bool
  <2>3. Bool.min = 0 /\ Bool.max = 1
    BY DEF Bool, Uint
  <2>4. v \in Int
    BY <1>1
  <2> QED BY <2>2, <2>3, <2>4 DEF UintField
<1>3. PICK c, d : /\ c = (IF a < 0 /\ b > 0 THEN 0 ELSE Lesser(Abs(a), Abs(b)))
                  /\ d = Greater(Abs(a), Abs(b))
  OBVIOUS
<1>4. c \in Nat /\ d \in Nat /\ c <= d /\ d <= INT_MAX
  BY IntMax, <1>1, <1>3 DEF Lesser, Greater, Abs
<1>5. Abs(v) \in c .. d
  <2>1. v \in Int /\ a <= v /\ v <= b
    BY <1>1
  <2> QED BY <1>1, <1>3, <2>1 DEF Lesser, Greater, Abs
<1>6. AbsMember(f) = Uint(c, d)
  BY <1>1, <1>3 DEF AbsMember
<1>7. Uint(c, d).min = c /\ Uint(c, d).max = d /\ Uint(c, d) \in Uints
  BY IntMax, <1>4 DEF Uint, Uints
<1> QED BY <1>2, <1>4, <1>5, <1>6, <1>7 DEF UintField

WriteSint(w, f, v) == WriteUint(WriteUint(w, Bool, IF v < 0 THEN 1 ELSE 0), AbsMember(f), Abs(v))

\* Writing an int keeps the writer good.
LEMMA SintGood ==
  ASSUME NEW w, NEW f, SintField(f), NEW v \in f.min .. f.max
  PROVE  Good(w) => Good(WriteSint(w, f, v))
<1>1. PICK s, a : s = (IF v < 0 THEN 1 ELSE 0) /\ a = Abs(v)
  OBVIOUS
<1>2. /\ UintField(Bool) /\ s \in Bool.min .. Bool.max
      /\ UintField(AbsMember(f)) /\ a \in AbsMember(f).min .. AbsMember(f).max
  BY <1>1, SignAndAbs
<1>3. WriteSint(w, f, v) = WriteUint(WriteUint(w, Bool, s), AbsMember(f), a)
  BY <1>1 DEF WriteSint
<1> QED BY <1>2, <1>3, UintGood

\* Writing an int goes on from the writer.
LEMMA SintGrows ==
  ASSUME NEW w, NEW f, SintField(f), NEW v \in f.min .. f.max
  PROVE  Grows(w, WriteSint(w, f, v))
<1>1. PICK s, a : s = (IF v < 0 THEN 1 ELSE 0) /\ a = Abs(v)
  OBVIOUS
<1>2. /\ UintField(Bool) /\ s \in Bool.min .. Bool.max
      /\ UintField(AbsMember(f)) /\ a \in AbsMember(f).min .. AbsMember(f).max
  BY <1>1, SignAndAbs
<1>3. WriteSint(w, f, v) = WriteUint(WriteUint(w, Bool, s), AbsMember(f), a)
  BY <1>1 DEF WriteSint
<1>4. Grows(w, WriteUint(w, Bool, s))
      /\ Grows(WriteUint(w, Bool, s), WriteUint(WriteUint(w, Bool, s), AbsMember(f), a))
  BY <1>2, UintGrows
<1> QED BY <1>3, <1>4, GrowsOn

\* An int from its sign and its absolute value.
LEMMA ReadIntIs ==
  ASSUME NEW r, NEW f, NEW B, NEW x, NEW y, NEW s, NEW a,
         ReadUint(r, Bool) = ReaderAt(x, B, s),
         ReadUint(ReaderAt(x, B, s), AbsMember(f)) = ReaderAt(y, B, a)
  PROVE  /\ s = 1 => ReadInt(r, f) = ReaderAt(y, B, - a)
         /\ s # 1 => ReadInt(r, f) = ReaderAt(y, B, a)
<1>1. PICK p, q : p = ReaderAt(x, B, s) /\ q = ReaderAt(y, B, a)
  OBVIOUS
<1>2. ReadInt(r, f) = [q EXCEPT !.value = IF p.value = 1 THEN - q.value ELSE q.value]
  BY <1>1 DEF ReadInt
<1>3. p.value = s /\ q.value = a
  BY <1>1, ReaderAtValue
<1>4. CASE s = 1
  <2>1. ReadInt(r, f) = Valued(q, - a)
    BY <1>2, <1>3, <1>4 DEF Valued
  <2> QED BY <1>1, <1>4, <2>1, ReaderAtValued
<1>5. CASE s # 1
  <2>1. ReadInt(r, f) = Valued(q, a)
    BY <1>2, <1>3, <1>5 DEF Valued
  <2> QED BY <1>1, <1>5, <2>1, ReaderAtValued
<1> QED BY <1>4, <1>5

\* An int is read where it was written (write_stream_serialize_int,
\* read_stream_serialize_int).
LEMMA ReadsSint ==
  ASSUME NEW w, Ready(w), NEW f, SintField(f), NEW v \in f.min .. f.max,
         ~ WriteSint(w, f, v).failed, NEW B, Begins(WriteSint(w, f, v), B), NEW u
  PROVE  ReadInt(ReaderAt(w, B, u), f) = ReaderAt(WriteSint(w, f, v), B, v)
<1>1. PICK s, a : s = (IF v < 0 THEN 1 ELSE 0) /\ a = Abs(v)
  OBVIOUS
<1>2. /\ UintField(Bool) /\ s \in Bool.min .. Bool.max
      /\ UintField(AbsMember(f)) /\ a \in AbsMember(f).min .. AbsMember(f).max
  BY <1>1, SignAndAbs
<1>3. PICK x : x = WriteUint(w, Bool, s)
  OBVIOUS
<1>4. PICK y : y = WriteSint(w, f, v) /\ y = WriteUint(x, AbsMember(f), a)
  BY <1>1, <1>3 DEF WriteSint
<1>5. Grows(w, x) /\ Grows(x, y)
  BY <1>2, <1>3, <1>4, UintGrows
<1>6. ~ y.failed /\ ~ x.failed /\ Ready(x) /\ Begins(y, B) /\ Begins(x, B)
  BY <1>4, <1>5 DEF Grows
<1>7. ReadUint(ReaderAt(w, B, u), Bool) = ReaderAt(x, B, s)
  BY <1>2, <1>3, <1>6, ReadsUint
<1>8. ReadUint(ReaderAt(x, B, s), AbsMember(f)) = ReaderAt(y, B, a)
  BY <1>2, <1>4, <1>6, ReadsUint
<1>9. v \in Int /\ a \in Int
  <2>1. v \in Int
    BY IntMax DEF SintField, Sints, Sint
  <2> QED BY <1>1, <2>1 DEF Abs
<1>10. (s = 1 => - a = v) /\ (s # 1 => a = v)
  BY <1>1, <1>9 DEF Abs
<1>11. /\ s = 1 => ReadInt(ReaderAt(w, B, u), f) = ReaderAt(y, B, - a)
       /\ s # 1 => ReadInt(ReaderAt(w, B, u), f) = ReaderAt(y, B, a)
  BY <1>7, <1>8, ReadIntIs
<1> QED BY <1>4, <1>10, <1>11

-----------------------------------------------------------------------------
(* Byte arrays: from the next word on.                                     *)

\* A byte array and the words its bytes fill.
BytesField(f) == \E n \in Nat : f = ByteArray(n)
Words(f) == f.length \div (WORD_SIZE \div 8)

\* Zeros are bits.
LEMMA ZerosAreBits ==
  ASSUME NEW n \in Nat
  PROVE  Zeros(n) \in Seq(Bit) /\ Len(Zeros(n)) = n
BY DEF Zeros, Bit

\* Padding goes on from the writer and leaves nothing in its scratch.
LEMMA PaddingGrows ==
  ASSUME NEW w
  PROVE  /\ Good(w) => Good(WritePadding(w))
         /\ Grows(w, WritePadding(w)) \/ ~ Good(w)
         /\ Good(w) /\ ~ WritePadding(w).failed => WritePadding(w).scratch = <<>>
         /\ Good(w) /\ ~ WritePadding(w).failed /\ w.scratch # <<>> =>
              Len(WritePadding(w).words) = Len(w.words) + 1
<1>1. CASE w.scratch = <<>>
  BY <1>1 DEF WritePadding, Grows
<1>2. CASE w.scratch # <<>> /\ w.failed
  BY <1>2 DEF WritePadding, WriteBits, Grows
<1>3. CASE w.scratch # <<>> /\ ~ w.failed /\ Good(w)
  <2>1. Ready(w)
    BY <1>3 DEF Good
  <2>a. PICK k : k = Len(w.scratch)
    OBVIOUS
  <2>b. k \in 1 .. WORD_SIZE - 1
    <3>1. k \in Nat \ {0} /\ k < WORD_SIZE
      BY <1>3, <2>1, <2>a, EmptySeq DEF Ready, Writers
    <3> QED BY <3>1 DEF WORD_SIZE
  <2>2. k = Len(w.scratch) /\ k \in 1 .. WORD_SIZE - 1
    BY <2>a, <2>b
  <2>3. PICK z : z = Zeros(WORD_SIZE - k)
    OBVIOUS
  <2>4. WORD_SIZE - k \in Nat /\ WORD_SIZE - k < WORD_SIZE /\ k + (WORD_SIZE - k) = WORD_SIZE
    BY <2>b DEF WORD_SIZE
  <2>5. z \in Seq(Bit) /\ Len(z) = WORD_SIZE - k
    BY <2>3, <2>4, ZerosAreBits
  <2>6. PICK v : v = WritePadding(w) /\ v = WriteBits(w, z)
    BY <1>3, <2>2, <2>3 DEF WritePadding
  <2>7. Good(v) /\ Grows(w, v)
    BY <1>3, <2>4, <2>5, <2>6, BitsGood, BitsGrow
  <2>8. ~ v.failed => v.scratch = <<>> /\ Len(v.words) = Len(w.words) + 1
    <3>1. Len(w.scratch) + Len(z) = WORD_SIZE
      BY <2>2, <2>4, <2>5
    <3>2. /\ Len(w.words) < w.size => Flushes(w, z, v)
          /\ Len(w.words) >= w.size => v.failed
      <4>1. WORD_SIZE >= WORD_SIZE
        BY DEF WORD_SIZE
      <4> QED BY <1>3, <2>1, <2>4, <2>5, <2>6, <3>1, <4>1, WriteBitsDoes
    <3>3. Len(w.words) < w.size \/ Len(w.words) >= w.size
      BY <2>1, LenProperties DEF Ready, Writers
    <3>4. SubSeq(w.scratch \o z, WORD_SIZE + 1, WORD_SIZE) = <<>>
      <4>1. WORD_SIZE + 1 \in Int /\ WORD_SIZE \in Int /\ WORD_SIZE < WORD_SIZE + 1
        BY DEF WORD_SIZE
      <4> QED BY <4>1, SubSeqEmpty
    <3>5. Flushes(w, z, v) => Len(v.words) = Len(w.words) + 1
      <4>1. w.words \in Seq(Word)
        BY <2>1 DEF Ready, Writers
      <4>2. \A b : Len(Append(w.words, b)) = Len(w.words) + 1
        BY <4>1
      <4> QED BY <4>2 DEF Flushes
    <3> QED BY <3>1, <3>2, <3>3, <3>4, <3>5 DEF Flushes
  <2> QED BY <2>6, <2>7, <2>8
<1> QED BY <1>1, <1>2, <1>3

WriteWords(p, f, words) ==
  [p EXCEPT !.words = @ \o words \o [i \in 1 .. WordsOf(f) - Len(words) |-> Zeros(WORD_SIZE)]]

\* A byte array takes its words, which it fills whole, and one more.
LEMMA BytesTake ==
  ASSUME NEW f, BytesField(f), NEW words \in [1 .. Words(f) -> Word]
  PROVE  /\ Words(f) \in Nat /\ WordsOf(f) = Words(f) + 1
         /\ words \in Seq(Word) /\ Len(words) = Words(f)
         /\ [i \in 1 .. WordsOf(f) - Len(words) |-> Zeros(WORD_SIZE)] = <<Zeros(WORD_SIZE)>>
         /\ Zeros(WORD_SIZE) \in Word
<1>1. PICK n \in Nat : f.length = n
  BY DEF BytesField, ByteArray
<1>2. WORD_SIZE \div 8 = 4
  BY DEF WORD_SIZE
<1>3. Words(f) \in Nat /\ WordsOf(f) = Words(f) + 1
  BY <1>1, <1>2 DEF Words, WordsOf
<1>4. PICK k \in Nat : k = Words(f)
  BY <1>3
<1>5. words \in Seq(Word) /\ Len(words) = k
  BY <1>4
<1>6. WordsOf(f) - Len(words) = 1
  BY <1>3, <1>4, <1>5
<1>7. [i \in 1 .. 1 |-> Zeros(WORD_SIZE)] = <<Zeros(WORD_SIZE)>>
  OBVIOUS
<1>8. Zeros(WORD_SIZE) \in Word
  BY DEF Zeros, Word, Bit
<1> QED BY <1>3, <1>4, <1>5, <1>6, <1>7, <1>8

\* The words of a byte array follow the first l words.
Carries(W, l, f, words) == \A i \in 1 .. Words(f) : W[l + i] = words[i]

\* The words of a byte array are behind those that were there.
LEMMA WordsWritten ==
  ASSUME NEW p \in Writers, NEW f, BytesField(f), NEW words \in [1 .. Words(f) -> Word]
  PROVE  LET v == WriteWords(p, f, words)
             l == Len(p.words)
         IN /\ v \in Writers /\ v.failed = p.failed /\ v.scratch = p.scratch
            /\ Len(v.words) = l + WordsOf(f)
            /\ \A i \in 1 .. l : v.words[i] = p.words[i]
            /\ Carries(v.words, l, f, words)
<1>1. PICK z : z = <<Zeros(WORD_SIZE)>>
  OBVIOUS
<1>2. PICK k \in Nat : k = Words(f) /\ WordsOf(f) = k + 1 /\ words \in Seq(Word) /\ Len(words) = k
  BY BytesTake
<1>3. z \in Seq(Word) /\ Len(z) = 1
  BY <1>1, BytesTake
<1>4. PICK W, l : W = p.words /\ l = Len(W)
  OBVIOUS
<1>5. W \in Seq(Word) /\ l \in Nat
  BY <1>4, LenProperties DEF Writers
<1>6. PICK c : c = W \o words
  OBVIOUS
<1>7. c \in Seq(Word) /\ Len(c) = l + k
      /\ \A i \in 1 .. l + k : c[i] = IF i <= l THEN W[i] ELSE words[i - l]
  <2>1. words \in Seq(Word) /\ W \in Seq(Word) /\ Len(W) = l /\ Len(words) = k
    BY <1>2, <1>4, <1>5
  <2>2. /\ W \o words \in Seq(Word) /\ Len(W \o words) = Len(W) + Len(words)
        /\ \A i \in 1 .. Len(W) + Len(words) :
             (W \o words)[i] = IF i <= Len(W) THEN W[i] ELSE words[i - Len(W)]
    BY <2>1, ConcatProperties
  <2> QED BY <1>6, <2>1, <2>2
<1>8. PICK d : d = c \o z
  OBVIOUS
<1>9. d \in Seq(Word) /\ Len(d) = (l + k) + 1
      /\ \A i \in 1 .. l + k : d[i] = c[i]
  <2>1. d \in Seq(Word) /\ Len(d) = Len(c) + Len(z)
        /\ \A i \in 1 .. Len(c) + Len(z) : d[i] = IF i <= Len(c) THEN c[i] ELSE z[i - Len(c)]
    BY <1>3, <1>7, <1>8, ConcatProperties
  <2>2. \A i \in 1 .. l + k : i \in 1 .. (l + k) + 1 /\ i <= l + k
    BY <1>2, <1>5
  <2> QED BY <1>3, <1>7, <2>1, <2>2
<1>10. WriteWords(p, f, words) = [p EXCEPT !.words = d]
  BY <1>1, <1>4, <1>6, <1>8, BytesTake DEF WriteWords
<1>11. PICK v : v = WriteWords(p, f, words)
  OBVIOUS
<1>12. v \in Writers /\ v.failed = p.failed /\ v.scratch = p.scratch /\ v.words = d
  BY <1>9, <1>10, <1>11 DEF Writers
<1>13. \A i \in 1 .. l : d[i] = W[i]
  <2>1. \A i \in 1 .. l : i \in 1 .. l + k /\ i <= l
    BY <1>2, <1>5
  <2> QED BY <1>7, <1>9, <2>1
<1>14. \A i \in 1 .. k : d[l + i] = words[i]
  <2>1. \A i \in 1 .. k : l + i \in 1 .. l + k /\ ~ (l + i <= l) /\ (l + i) - l = i
    BY <1>2, <1>5
  <2> QED BY <1>7, <1>9, <2>1
<1>15. Len(d) = l + WordsOf(f)
  BY <1>2, <1>5, <1>9
<1>16. Carries(d, l, f, words)
  BY <1>2, <1>14 DEF Carries
<1> QED BY <1>2, <1>4, <1>11, <1>12, <1>13, <1>15, <1>16

\* Writing a byte array goes on from the padded writer.
LEMMA BytesGrow ==
  ASSUME NEW w, Good(w), NEW f, BytesField(f), NEW words \in [1 .. Words(f) -> Word]
  PROVE  LET v == WriteBytes(w, f, words)
             p == WritePadding(w)
         IN /\ Good(v) /\ Grows(w, v)
            /\ ~ v.failed => /\ Good(p) /\ ~ p.failed /\ Grows(w, p) /\ p.scratch = <<>>
                             /\ v = WriteWords(p, f, words)
                             /\ \A B : Begins(v, B) => Begins(p, B)
<1>1. PICK p, v : p = WritePadding(w) /\ v = WriteBytes(w, f, words)
  OBVIOUS
<1>2. v = IF p.failed THEN p ELSE WriteWords(p, f, words)
  BY <1>1 DEF WriteBytes, WriteWords
<1>3. Good(p) /\ Grows(w, p) /\ (~ p.failed => p.scratch = <<>>)
  BY <1>1, PaddingGrows
<1>4. CASE p.failed
  BY <1>1, <1>2, <1>3, <1>4
<1>5. CASE ~ p.failed
  <2>1. Ready(p) /\ p \in Writers /\ p.scratch = <<>> /\ v = WriteWords(p, f, words)
    BY <1>2, <1>3, <1>5 DEF Good, Ready
  <2>2. /\ v \in Writers /\ v.failed = p.failed /\ v.scratch = p.scratch
        /\ Len(v.words) = Len(p.words) + WordsOf(f)
        /\ \A i \in 1 .. Len(p.words) : v.words[i] = p.words[i]
    BY <2>1, WordsWritten
  <2>3. Ready(v) /\ Good(v) /\ ~ v.failed
    BY <1>5, <2>1, <2>2 DEF Ready, Good
  <2>4. WordsOf(f) \in Nat
    BY BytesTake
  <2>5. ASSUME NEW B, Begins(v, B) PROVE Begins(p, B)
    <3>1. PICK l \in Nat, n \in Nat, k \in Nat : l = Len(p.words) /\ n = Len(v.words) /\ k = WordsOf(f)
      BY <2>1, <2>2, <2>4, LenProperties DEF Writers
    <3>2. B \in Seq(Word) /\ n <= Len(B) /\ Len(B) \in Nat /\ \A i \in 1 .. n : B[i] = v.words[i]
      BY <2>5, <3>1, LenProperties DEF Begins
    <3>3. l <= n
      BY <2>2, <3>1
    <3>4. l <= Len(B)
      BY <3>2, <3>3
    <3>5. \A i \in 1 .. l : i \in 1 .. n
      BY <3>3
    <3>6. \A i \in 1 .. l : B[i] = p.words[i]
      BY <2>2, <3>1, <3>2, <3>5
    <3> QED BY <2>1, <3>1, <3>2, <3>4, <3>6 DEF Begins
  <2>6. Grows(p, v)
    BY <1>5, <2>3, <2>5 DEF Grows
  <2>7. Grows(w, v)
    BY <1>3, <2>6, GrowsOn
  <2> QED BY <1>1, <1>3, <1>5, <2>1, <2>3, <2>5, <2>7
<1> QED BY <1>4, <1>5

\* A byte array is read from the next word on.
LEMMA ReadBytesIs ==
  ASSUME NEW B, NEW x, NEW s, NEW u, NEW f
  PROVE  ReadBytes(Reading(B, x, s, u), f)
         = Reading(B, x + WordsOf(f), <<>>, SubSeq(B, x + 1, x + Words(f)))
<1>1. PICK p : p = ReadPadding(Reading(B, x, s, u))
  OBVIOUS
<1>2. p = Reading(B, x, <<>>, u)
  BY <1>1 DEF ReadPadding, Reading
<1>3. PICK y, z : y = SubSeq(B, x + 1, x + Words(f)) /\ z = x + WordsOf(f)
  OBVIOUS
<1>4. ReadBytes(Reading(B, x, s, u), f) = [p EXCEPT !.value = y, !.next = z]
  <2>1. ~ p.failed /\ p.words = B /\ p.next = x
    BY <1>2 DEF Reading
  <2> QED BY <1>1, <1>3, <2>1 DEF ReadBytes, Words
<1> QED BY <1>2, <1>3, <1>4 DEF Reading

\* A byte array is read where it was written: both sides go to the next word and pass
\* one more than its bytes fill (write_stream_serialize_byte_array,
\* read_stream_serialize_byte_array).
LEMMA ReadsBytes ==
  ASSUME NEW w, Ready(w), NEW f, BytesField(f), NEW words \in [1 .. Words(f) -> Word],
         ~ WriteBytes(w, f, words).failed, NEW B, Begins(WriteBytes(w, f, words), B), NEW u
  PROVE  ReadBytes(ReaderAt(w, B, u), f) = ReaderAt(WriteBytes(w, f, words), B, words)
<1>1. PICK p, v : p = WritePadding(w) /\ v = WriteBytes(w, f, words)
  OBVIOUS
<1>2. /\ ~ v.failed /\ Good(p) /\ ~ p.failed /\ Grows(w, p) /\ p.scratch = <<>>
      /\ v = WriteWords(p, f, words) /\ Begins(p, B) /\ Begins(v, B) /\ w \in Writers
  <2>1. Good(w) /\ w \in Writers
    BY DEF Ready, Good
  <2> QED BY <1>1, <2>1, BytesGrow
<1>a. Good(w)
  BY DEF Ready, Good
<1>3. p \in Writers /\ Ready(p)
  BY <1>2 DEF Good
<1>4. /\ v.scratch = <<>>
      /\ Len(v.words) = Len(p.words) + WordsOf(f)
      /\ \A i \in 1 .. Words(f) : v.words[Len(p.words) + i] = words[i]
  <2>0. p \in Writers
    BY <1>3
  <2>1. WriteWords(p, f, words).scratch = p.scratch
    BY <2>0, WordsWritten
  <2>2. Len(WriteWords(p, f, words).words) = Len(p.words) + WordsOf(f)
    BY <2>0, WordsWritten
  <2>3. Carries(WriteWords(p, f, words).words, Len(p.words), f, words)
    BY <2>0, WordsWritten
  <2> QED BY <1>2, <2>1, <2>2, <2>3 DEF Carries
<1>5. PICK l, k : l = Len(p.words) /\ k = Words(f)
  OBVIOUS
<1>6. l \in Nat /\ k \in Nat /\ WordsOf(f) = k + 1 /\ words \in Seq(Word) /\ Len(words) = k
  BY <1>3, <1>5, BytesTake, LenProperties DEF Writers
<1>7. ReaderAt(v, B, words) = Reading(B, l + WordsOf(f), <<>>, words)
  BY <1>4, <1>5 DEF ReaderAt
<1>8. B \in Seq(Word) /\ l + (k + 1) <= Len(B) /\ Len(B) \in Nat
      /\ \A i \in 1 .. k : B[l + i] = words[i]
  <2>1. PICK n \in Nat : n = Len(v.words) /\ n = l + (k + 1)
    BY <1>4, <1>5, <1>6
  <2>2. B \in Seq(Word) /\ n <= Len(B) /\ Len(B) \in Nat /\ \A i \in 1 .. n : B[i] = v.words[i]
    BY <1>2, <2>1, LenProperties DEF Begins
  <2>3. \A i \in 1 .. k : l + i \in 1 .. n
    BY <1>6, <2>1
  <2> QED BY <1>4, <1>5, <2>1, <2>2, <2>3
<1>9. SubSeq(B, l + 1, l + k) = words
  <2>1. PICK t : t = SubSeq(B, l + 1, l + k)
    OBVIOUS
  <2>2. /\ l + 1 \in 1 .. Len(B) + 1 /\ l + k \in (l + 1) - 1 .. Len(B) /\ (l + k) - (l + 1) + 1 = k
        /\ \A i \in 1 .. k : (l + 1) + i - 1 = l + i
    <3>1. PICK n \in Nat : n = Len(B) /\ l + (k + 1) <= n
      BY <1>8
    <3>2. /\ l + 1 \in 1 .. n + 1 /\ l + k \in (l + 1) - 1 .. n /\ (l + k) - (l + 1) + 1 = k
          /\ \A i \in 1 .. k : (l + 1) + i - 1 = l + i
      BY <1>6, <3>1
    <3> QED BY <3>1, <3>2
  <2>3. /\ t \in Seq(Word) /\ Len(t) = (l + k) - (l + 1) + 1
        /\ \A i \in 1 .. (l + k) - (l + 1) + 1 : t[i] = B[(l + 1) + i - 1]
    BY <1>8, <2>1, <2>2, PartFacts
  <2>4. Len(t) = k /\ \A i \in 1 .. k : t[i] = words[i]
    BY <1>8, <2>2, <2>3
  <2>5. t = words
    BY <1>6, <2>3, <2>4, SeqEqual
  <2> QED BY <2>1, <2>5
<1>10. \E s : ReaderAt(w, B, u) = Reading(B, l, s, u)
  <2>1. CASE w.scratch = <<>>
    <3>1. p = w
      BY <1>1, <2>1 DEF WritePadding
    <3> QED BY <1>5, <2>1, <3>1 DEF ReaderAt
  <2>2. CASE w.scratch # <<>>
    <3>1. Len(p.words) = Len(w.words) + 1
      BY <1>1, <1>2, <2>2, <1>a, PaddingGrows
    <3> QED BY <1>5, <2>2, <3>1 DEF ReaderAt
  <2> QED BY <2>1, <2>2
<1>11. ReadBytes(ReaderAt(w, B, u), f) = Reading(B, l + WordsOf(f), <<>>, words)
  <2>1. PICK s : ReaderAt(w, B, u) = Reading(B, l, s, u)
    BY <1>10
  <2>2. ReadBytes(Reading(B, l, s, u), f)
        = Reading(B, l + WordsOf(f), <<>>, SubSeq(B, l + 1, l + Words(f)))
    BY ReadBytesIs
  <2>3. SubSeq(B, l + 1, l + Words(f)) = words
    BY <1>5, <1>9
  <2> QED BY <2>1, <2>2, <2>3
<1> QED BY <1>1, <1>7, <1>11

-----------------------------------------------------------------------------
(* Writers one after the other.                                            *)

\* Each writer goes on from the one before it.
Linked(W, n) == \A i \in 1 .. n : Grows(W[i - 1], W[i])

\* The first writer goes on to each, and each to the last.
LEMMA LinkedGrow ==
  ASSUME NEW n \in Nat, NEW W, Linked(W, n)
  PROVE  \A i \in 0 .. n : Grows(W[0], W[i]) /\ Grows(W[i], W[n])
<1>1. \A i \in 0 .. n : Grows(W[0], W[i])
  <2> DEFINE S == {i \in 0 .. n : Grows(W[0], W[i])}
  <2>1. 0 \in S
    BY DEF Grows
  <2>2. ASSUME NEW k \in 0 .. n - 1, k \in S PROVE k + 1 \in S
    <3>1. k + 1 \in 1 .. n /\ k + 1 \in 0 .. n /\ (k + 1) - 1 = k
      OBVIOUS
    <3>2. Grows(W[k], W[k + 1])
      <4>1. Grows(W[(k + 1) - 1], W[k + 1])
        BY <3>1 DEF Linked
      <4> QED BY <3>1, <4>1
    <3> QED BY <2>2, <3>1, <3>2, GrowsOn
  <2> HIDE DEF S
  <2>3. \A i \in 0 .. n : i \in S
    BY <2>1, <2>2, SetInduction
  <2> QED BY <2>3 DEF S
<1>2. \A i \in 0 .. n : Grows(W[i], W[n])
  <2> DEFINE S == {i \in 0 .. n : Grows(W[n - i], W[n])}
  <2>1. 0 \in S
    <3>1. n - 0 = n
      OBVIOUS
    <3>2. Grows(W[n], W[n])
      BY DEF Grows
    <3> QED BY <3>1, <3>2
  <2>2. ASSUME NEW k \in 0 .. n - 1, k \in S PROVE k + 1 \in S
    <3>1. n - k \in 1 .. n /\ k + 1 \in 0 .. n /\ n - (k + 1) = (n - k) - 1
      OBVIOUS
    <3>2. Grows(W[n - (k + 1)], W[n - k])
      <4>1. Grows(W[(n - k) - 1], W[n - k])
        BY <3>1 DEF Linked
      <4> QED BY <3>1, <4>1
    <3> QED BY <2>2, <3>1, <3>2, GrowsOn
  <2> HIDE DEF S
  <2>3. \A i \in 0 .. n : i \in S
    BY <2>1, <2>2, SetInduction
  <2>4. \A i \in 0 .. n : n - i \in 0 .. n /\ n - (n - i) = i
    OBVIOUS
  <2>5. \A i \in 0 .. n : Grows(W[n - (n - i)], W[n])
    BY <2>3, <2>4 DEF S
  <2> QED BY <2>4, <2>5
<1> QED BY <1>1, <1>2

\* When the last writer has not failed, none has, and what begins a buffer with the
\* last begins it with each.
LEMMA LinkedReady ==
  ASSUME NEW n \in Nat, NEW W, Linked(W, n), Ready(W[0]), ~ W[n].failed
  PROVE  \A i \in 0 .. n : /\ Ready(W[i]) /\ ~ W[i].failed
                           /\ \A B : Begins(W[n], B) => Begins(W[i], B)
<1> TAKE i \in 0 .. n
<1>1. Grows(W[0], W[i]) /\ Grows(W[i], W[n])
  BY LinkedGrow
<1> QED BY <1>1 DEF Grows

\* Two functions that start alike and take the same steps.
Together(h, e, n) ==
  h[0] = e[0] /\ \A i \in 1 .. n : h[i - 1] = e[i - 1] => h[i] = e[i]

\* Then they are the same.
LEMMA SameSteps ==
  ASSUME NEW n \in Nat, NEW h, NEW e, Together(h, e, n)
  PROVE  \A i \in 0 .. n : h[i] = e[i]
<1> DEFINE S == {i \in 0 .. n : h[i] = e[i]}
<1>1. 0 \in S
  BY DEF Together
<1>2. ASSUME NEW k \in 0 .. n - 1, k \in S PROVE k + 1 \in S
  <2>1. k + 1 \in 1 .. n /\ k + 1 \in 0 .. n /\ (k + 1) - 1 = k
    OBVIOUS
  <2>2. h[(k + 1) - 1] = e[(k + 1) - 1] => h[k + 1] = e[k + 1]
    BY <2>1 DEF Together
  <2> QED BY <1>2, <2>1, <2>2
<1> HIDE DEF S
<1>3. \A i \in 0 .. n : i \in S
  BY <1>1, <1>2, SetInduction
<1> QED BY <1>3 DEF S

\* The first i values.
Part(vs, i) == [k \in 1 .. i |-> vs[k]]

\* No values.
LEMMA NoPart ==
  ASSUME NEW vs
  PROVE  Part(vs, 0) = <<>>
BY DEF Part

\* One value more.
LEMMA PartsGrow ==
  ASSUME NEW vs, NEW i \in Nat \ {0}
  PROVE  Append(Part(vs, i - 1), vs[i]) = Part(vs, i)
<1> DEFINE V == {vs[k] : k \in 1 .. i}
<1>1. PICK p, q : p = Part(vs, i - 1) /\ q = Part(vs, i)
  OBVIOUS
<1>2. p \in Seq(V) /\ Len(p) = i - 1 /\ q \in Seq(V) /\ Len(q) = i /\ vs[i] \in V
  <2>1. \A k \in 1 .. i : vs[k] \in V
    OBVIOUS
  <2> HIDE DEF V
  <2>2. p \in Seq(V) /\ Len(p) = i - 1
    BY <1>1, <2>1 DEF Part
  <2>3. q \in Seq(V) /\ Len(q) = i
    BY <1>1, <2>1 DEF Part
  <2> QED BY <2>1, <2>2, <2>3
<1>3. PICK a : a = Append(p, vs[i])
  OBVIOUS
<1>4. \A k \in 1 .. i : q[k] = vs[k]
  BY <1>1 DEF Part
<1>5. \A k \in 1 .. i - 1 : p[k] = vs[k]
  BY <1>1 DEF Part
<1>6. PICK m \in Nat : m = i - 1 /\ m + 1 = i
  OBVIOUS
<1>7. a \in Seq(V) /\ Len(a) = m + 1 /\ (\A k \in 1 .. m : a[k] = p[k]) /\ a[m + 1] = vs[i]
  <2> HIDE DEF V
  <2>1. p \in Seq(V) /\ Len(p) = m /\ vs[i] \in V
    BY <1>2, <1>6
  <2>2. /\ Append(p, vs[i]) \in Seq(V) /\ Len(Append(p, vs[i])) = Len(p) + 1
        /\ \A k \in 1 .. Len(p) : Append(p, vs[i])[k] = p[k]
        /\ Append(p, vs[i])[Len(p) + 1] = vs[i]
    BY <2>1, AppendProperties
  <2> QED BY <1>3, <2>1, <2>2
<1>8. Len(a) = Len(q) /\ \A k \in 1 .. Len(a) : a[k] = q[k]
  <2>1. \A k \in 1 .. i : a[k] = q[k]
    <3> TAKE k \in 1 .. i
    <3>1. CASE k = i
      BY <1>4, <1>6, <1>7, <3>1
    <3>2. CASE k # i
      <4>1. k \in 1 .. m
        BY <1>6, <3>2
      <4> QED BY <1>4, <1>5, <1>6, <1>7, <4>1
    <3> QED BY <3>1, <3>2
  <2> QED BY <1>2, <1>6, <1>7, <2>1
<1>9. a = q
  <2> HIDE DEF V
  <2> QED BY <1>2, <1>7, <1>8, SeqEqual
<1> QED BY <1>1, <1>3, <1>9

-----------------------------------------------------------------------------
(* Rows.                                                                   *)

\* A row of unsigned members.
RowField(f) == \E n \in Nat : \E g : UintField(g) /\ f = Row(n, g)
RowValues(f) == [1 .. f.n -> f.of.min .. f.of.max]

\* The writers before and after each of the members of a row.
RowChain(W, w, f, vs) ==
  /\ W[0] = w
  /\ \A i \in 1 .. f.n : W[i] = WriteUint(W[i - 1], f.of, vs[i])
  /\ \A i \in 0 .. f.n : Good(W[i])

\* The members of a row.
LEMMA RowParts ==
  ASSUME NEW f, RowField(f)
  PROVE  f.n \in Nat /\ UintField(f.of)
BY DEF RowField, Row

\* A row goes through a chain of writers.
LEMMA RowIsWritten ==
  ASSUME NEW w, Good(w), ~ w.failed, NEW f, RowField(f), NEW vs \in RowValues(f)
  PROVE  \E W : RowChain(W, w, f, vs) /\ WriteRow(w, f, vs) = W[f.n]
<1>1. PICK n, g : n = f.n /\ g = f.of
  OBVIOUS
<1>2. n \in Nat /\ UintField(g)
  BY <1>1, RowParts
<1>3. \A i \in 1 .. n : vs[i] \in g.min .. g.max
  BY <1>1 DEF RowValues
<1> DEFINE A == {x \in Writers : Good(x)}
           G == [i \in 1 .. n |-> [x \in A |-> WriteUint(x, g, vs[i])]]
           F(h) == [i \in 0 .. n |-> IF i = 0 THEN w ELSE WriteUint(h[i - 1], g, vs[i])]
<1>4. Stepwise(n, A, w, G)
  <2>1. w \in A
    BY DEF Good
  <2>2. ASSUME NEW i \in 1 .. n, NEW x \in A PROVE WriteUint(x, g, vs[i]) \in A
    <3>1. Good(WriteUint(x, g, vs[i]))
      BY <1>2, <1>3, UintGood
    <3> QED BY <3>1 DEF Good
  <2> HIDE DEF A
  <2> QED BY <1>2, <2>1, <2>2 DEF Stepwise
<1>5. PICK e : Iteration(e, n, A, w, G)
  <2> HIDE DEF A, G
  <2> QED BY <1>4, IterationExists
<1>6. e = F(e)
  <2>1. \A i \in 1 .. n : e[i] = WriteUint(e[i - 1], g, vs[i])
    <3> TAKE i \in 1 .. n
    <3>1. e[i] = G[i][e[i - 1]] /\ e[i - 1] \in A
      <4> HIDE DEF A, G
      <4>1. i - 1 \in 0 .. n
        BY <1>2
      <4> QED BY <1>5, <4>1 DEF Iteration
    <3> HIDE DEF A
    <3> QED BY <3>1
  <2> HIDE DEF A, G
  <2> QED BY <1>5, <2>1 DEF Iteration
<1>7. PICK h : h = F(h) /\ WriteRow(w, f, vs) = h[n]
  <2>1. WriteRow(w, f, vs) = (CHOOSE h : h = F(h))[n]
    BY <1>1 DEF WriteRow
  <2> HIDE DEF F
  <2> QED BY <1>6, <2>1
<1>8. h[0] = w /\ \A i \in 1 .. n : h[i] = WriteUint(h[i - 1], g, vs[i])
  <2>1. h[0] = w
    BY <1>2, <1>7
  <2>2. ASSUME NEW i \in 1 .. n PROVE h[i] = WriteUint(h[i - 1], g, vs[i])
    <3>1. i \in 0 .. n /\ i # 0
      OBVIOUS
    <3> QED BY <1>7, <3>1
  <2> QED BY <2>1, <2>2
<1>9. \A i \in 0 .. n : Good(h[i])
  <2>1. \A i \in 0 .. n : h[i] = e[i]
    <3>1. h[0] = e[0]
      BY <1>5, <1>8 DEF Iteration
    <3>2. \A i \in 1 .. n : e[i] = WriteUint(e[i - 1], g, vs[i])
      <4> TAKE i \in 1 .. n
      <4>1. i \in 0 .. n /\ i # 0
        OBVIOUS
      <4> QED BY <1>6, <4>1
    <3>3. \A i \in 1 .. n : h[i - 1] = e[i - 1] => h[i] = e[i]
      BY <1>8, <3>2
    <3>4. n \in Nat
      BY <1>2
    <3> HIDE DEF F, A, G
    <3> QED
      <4>1. Together(h, e, n)
        BY <3>1, <3>3 DEF Together
      <4>2. n \in Nat
        BY <3>4
      <4> QED BY <4>1, <4>2, SameSteps
  <2>2. \A i \in 0 .. n : e[i] \in A
    <3> HIDE DEF A, G
    <3> QED BY <1>5 DEF Iteration
  <2> QED BY <2>1, <2>2
<1> QED BY <1>1, <1>7, <1>8, <1>9 DEF RowChain

\* Each of these goes on from the one before it.
LEMMA RowLinked ==
  ASSUME NEW W, NEW w, NEW f, RowField(f), NEW vs \in RowValues(f), RowChain(W, w, f, vs)
  PROVE  Linked(W, f.n) /\ f.n \in Nat
<1>1. f.n \in Nat /\ UintField(f.of)
  BY RowParts
<1>2. ASSUME NEW i \in 1 .. f.n PROVE Grows(W[i - 1], W[i])
  <2>1. vs[i] \in f.of.min .. f.of.max
    BY DEF RowValues
  <2>2. Grows(W[i - 1], WriteUint(W[i - 1], f.of, vs[i]))
    BY <1>1, <2>1, UintGrows
  <2> QED BY <2>2 DEF RowChain
<1> QED BY <1>1, <1>2 DEF Linked

\* Writing a row keeps the writer good and goes on from it.
LEMMA RowGood ==
  ASSUME NEW w, Good(w), NEW f, RowField(f), NEW vs \in RowValues(f)
  PROVE  Good(WriteRow(w, f, vs)) /\ Grows(w, WriteRow(w, f, vs))
<1>1. CASE w.failed
  <2>1. WriteRow(w, f, vs) = w
    BY <1>1 DEF WriteRow
  <2> QED BY <2>1 DEF Grows
<1>2. CASE ~ w.failed
  <2>1. PICK W : RowChain(W, w, f, vs) /\ WriteRow(w, f, vs) = W[f.n]
    BY <1>2, RowIsWritten
  <2>2. f.n \in Nat /\ Linked(W, f.n)
    BY <2>1, RowLinked
  <2>3. Grows(W[0], W[f.n])
    <3>1. \A i \in 0 .. f.n : Grows(W[0], W[i]) /\ Grows(W[i], W[f.n])
      BY <2>2, LinkedGrow
    <3>2. f.n \in 0 .. f.n
      BY <2>2
    <3> QED BY <3>1, <3>2
  <2>4. Good(W[f.n])
    BY <2>1, <2>2 DEF RowChain
  <2>5. W[0] = w
    BY <2>1 DEF RowChain
  <2> QED BY <2>1, <2>3, <2>4, <2>5
<1> QED BY <1>1, <1>2

\* A row is read where it was written (bonus_map_net_message_serialize_members).
LEMMA ReadsRow ==
  ASSUME NEW w, Ready(w), NEW f, RowField(f), NEW vs \in RowValues(f),
         ~ WriteRow(w, f, vs).failed, NEW B, Begins(WriteRow(w, f, vs), B), NEW u
  PROVE  ReadRow(ReaderAt(w, B, u), f) = ReaderAt(WriteRow(w, f, vs), B, vs)
<1>1. Good(w) /\ ~ w.failed
  <2>1. Good(w)
    BY DEF Ready, Good
  <2>2. Grows(w, WriteRow(w, f, vs))
    BY <2>1, RowGood
  <2> QED BY <2>1, <2>2 DEF Grows
<1>2. PICK W : RowChain(W, w, f, vs) /\ WriteRow(w, f, vs) = W[f.n]
  BY <1>1, RowIsWritten
<1>3. PICK n, g : n = f.n /\ g = f.of
  OBVIOUS
<1>4. n \in Nat /\ UintField(g) /\ Linked(W, n)
  BY <1>2, <1>3, RowParts, RowLinked
<1>5. W[0] = w /\ \A i \in 1 .. n : W[i] = WriteUint(W[i - 1], g, vs[i])
  BY <1>2, <1>3 DEF RowChain
<1>6. \A i \in 0 .. n : Ready(W[i]) /\ ~ W[i].failed /\ Begins(W[i], B)
  <2>1. Ready(W[0]) /\ ~ W[n].failed /\ Begins(W[n], B)
    BY <1>2, <1>3, <1>5
  <2>2. \A i \in 0 .. n : /\ Ready(W[i]) /\ ~ W[i].failed
                          /\ \A C : Begins(W[n], C) => Begins(W[i], C)
    BY <1>4, <2>1, LinkedReady
  <2> QED BY <2>1, <2>2
<1>7. \A i \in 1 .. n : vs[i] \in g.min .. g.max
  BY <1>3 DEF RowValues
<1>8. ASSUME NEW i \in 1 .. n, NEW x
      PROVE  ReadUint(ReaderAt(W[i - 1], B, x), g) = ReaderAt(W[i], B, vs[i])
  <2>1. PICK y, z : y = W[i - 1] /\ z = W[i]
    OBVIOUS
  <2>2. z = WriteUint(y, g, vs[i])
    BY <1>5, <2>1
  <2>3. Ready(y) /\ ~ z.failed /\ Begins(z, B)
    <3>1. i - 1 \in 0 .. n /\ i \in 0 .. n
      BY <1>4
    <3> QED BY <1>6, <2>1, <3>1
  <2>4. vs[i] \in g.min .. g.max
    BY <1>7
  <2>5. ReadUint(ReaderAt(y, B, x), g) = ReaderAt(z, B, vs[i])
    BY <1>4, <2>2, <2>3, <2>4, ReadsUint
  <2> QED BY <2>1, <2>5
<1> DEFINE r == ReaderAt(w, B, u)
           F(h) == [i \in 0 .. n |->
                      IF i = 0 THEN [reader |-> r, values |-> <<>>]
                      ELSE [reader |-> ReadUint(h[i - 1].reader, g),
                            values |-> Append(h[i - 1].values, ReadUint(h[i - 1].reader, g).value)]]
<1>9. PICK e : e = [i \in 0 .. n |-> [reader |-> ReaderAt(W[i], B, IF i = 0 THEN u ELSE vs[i]),
                                      values |-> Part(vs, i)]]
  OBVIOUS
<1>10. e[0] = [reader |-> r, values |-> <<>>]
  <2>1. Part(vs, 0) = <<>>
    BY NoPart
  <2> QED BY <1>4, <1>5, <1>9, <2>1
<1>11. ASSUME NEW i \in 1 .. n
       PROVE  /\ ReadUint(e[i - 1].reader, g) = ReaderAt(W[i], B, vs[i])
              /\ ReadUint(e[i - 1].reader, g).value = vs[i]
              /\ Append(e[i - 1].values, vs[i]) = Part(vs, i)
              /\ e[i] = [reader |-> ReaderAt(W[i], B, vs[i]), values |-> Part(vs, i)]
  <2>1. i - 1 \in 0 .. n /\ i \in 0 .. n /\ i # 0 /\ i \in Nat \ {0}
    BY <1>4
  <2>2. PICK x : e[i - 1] = [reader |-> ReaderAt(W[i - 1], B, x), values |-> Part(vs, i - 1)]
    BY <1>9, <2>1
  <2>3. ReadUint(e[i - 1].reader, g) = ReaderAt(W[i], B, vs[i])
    BY <1>8, <2>2
  <2>4. ReaderAt(W[i], B, vs[i]).value = vs[i]
    BY ReaderAtValue
  <2>5. Append(Part(vs, i - 1), vs[i]) = Part(vs, i)
    BY <2>1, PartsGrow
  <2>6. e[i] = [reader |-> ReaderAt(W[i], B, vs[i]), values |-> Part(vs, i)]
    BY <1>9, <2>1
  <2> QED BY <2>2, <2>3, <2>4, <2>5, <2>6
<1>12. e = F(e)
  <2>1. \A i \in 1 .. n :
          e[i] = [reader |-> ReadUint(e[i - 1].reader, g),
                  values |-> Append(e[i - 1].values, ReadUint(e[i - 1].reader, g).value)]
    BY <1>11
  <2> HIDE DEF r
  <2>2. \A i \in 0 .. n : i # 0 => i \in 1 .. n
    BY <1>4
  <2> QED BY <1>9, <1>10, <2>1, <2>2
<1>13. PICK h : h = F(h) /\ ReadRow(r, f) = [h[n].reader EXCEPT !.value = h[n].values]
  <2>1. ~ r.failed
    BY ReaderAtFails
  <2> HIDE DEF r
  <2>2. PICK c : c = (CHOOSE h : h = F(h))
    OBVIOUS
  <2>3. ReadRow(r, f) = [c[n].reader EXCEPT !.value = c[n].values]
    BY <1>3, <2>1, <2>2 DEF ReadRow, ReadInTurn
  <2>4. c = F(c)
    <3> HIDE DEF F
    <3> QED BY <1>12, <2>2
  <2> HIDE DEF F
  <2> QED BY <2>3, <2>4
<1>14. h[n] = e[n]
  <2> HIDE DEF r
  <2>1. h[0] = e[0]
    BY <1>4, <1>10, <1>13
  <2>2. ASSUME NEW i \in 1 .. n, h[i - 1] = e[i - 1] PROVE h[i] = e[i]
    <3>1. i \in 0 .. n /\ i # 0
      BY <1>4
    <3>2. h[i] = [reader |-> ReadUint(h[i - 1].reader, g),
                  values |-> Append(h[i - 1].values, ReadUint(h[i - 1].reader, g).value)]
      BY <1>13, <3>1
    <3>3. h[i] = [reader |-> ReadUint(e[i - 1].reader, g),
                  values |-> Append(e[i - 1].values, ReadUint(e[i - 1].reader, g).value)]
      BY <2>2, <3>2
    <3> QED BY <1>11, <3>3
  <2>3. \A i \in 0 .. n : h[i] = e[i]
    <3> HIDE DEF F
    <3> QED
      <4>1. Together(h, e, n)
        BY <2>1, <2>2 DEF Together
      <4>2. n \in Nat
        BY <1>4
      <4> QED BY <4>1, <4>2, SameSteps
  <2>4. n \in 0 .. n
    BY <1>4
  <2> QED BY <2>3, <2>4, Zenon
<1>15. \E x : e[n] = [reader |-> ReaderAt(W[n], B, x), values |-> Part(vs, n)]
  BY <1>4, <1>9
<1>16. Part(vs, n) = vs
  BY <1>3 DEF Part, RowValues
<1>17. ReadRow(r, f) = ReaderAt(W[n], B, vs)
  <2>1. PICK x : h[n] = [reader |-> ReaderAt(W[n], B, x), values |-> vs]
    BY <1>14, <1>15, <1>16
  <2>2. h[n].reader = ReaderAt(W[n], B, x) /\ h[n].values = vs
    BY <2>1
  <2>3. ReadRow(r, f) = Valued(h[n].reader, h[n].values)
    <3> HIDE DEF r, F
    <3> QED BY <1>13 DEF Valued
  <2> HIDE DEF r, F
  <2> QED BY <2>2, <2>3, ReaderAtValued
<1> QED BY <1>2, <1>3, <1>17

-----------------------------------------------------------------------------
(* Members.                                                                *)

\* A member the streams know.
Field(f) == UintField(f) \/ SintField(f) \/ RowField(f) \/ BytesField(f)

\* How an unsigned member is written and read.
LEMMA UintKind ==
  ASSUME NEW w, NEW f, UintField(f), NEW v, NEW r
  PROVE  /\ Values(f) = f.min .. f.max
         /\ WriteMember(w, f, v) = WriteUint(w, f, v)
         /\ ReadMember(r, f) = ReadUint(r, f)
<1>1. f.kind = "uint"
  BY DEF UintField, Uints, Uint
<1> QED BY <1>1 DEF Values, WriteMember, ReadMember

\* How an int is written and read.
LEMMA SintKind ==
  ASSUME NEW w, NEW f, SintField(f), NEW v, NEW r
  PROVE  /\ Values(f) = f.min .. f.max
         /\ WriteMember(w, f, v) = WriteSint(w, f, v)
         /\ ReadMember(r, f) = ReadInt(r, f)
<1>1. f.kind = "int"
  BY DEF SintField, Sints, Sint
<1> QED BY <1>1 DEF Values, WriteMember, ReadMember, WriteSint

\* How a row is written and read.
LEMMA RowKind ==
  ASSUME NEW w, NEW f, RowField(f), NEW v, NEW r
  PROVE  /\ Values(f) = RowValues(f)
         /\ WriteMember(w, f, v) = WriteRow(w, f, v)
         /\ ReadMember(r, f) = ReadRow(r, f)
<1>1. f.kind = "row"
  BY DEF RowField, Row
<1> QED BY <1>1 DEF Values, WriteMember, ReadMember, RowValues

\* How a byte array is written and read.
LEMMA BytesKind ==
  ASSUME NEW w, NEW f, BytesField(f), NEW v, NEW r
  PROVE  /\ Values(f) = [1 .. Words(f) -> Word]
         /\ WriteMember(w, f, v) = WriteBytes(w, f, v)
         /\ ReadMember(r, f) = ReadBytes(r, f)
<1>1. f.kind = "bytes"
  BY DEF BytesField, ByteArray
<1> QED BY <1>1 DEF Values, WriteMember, ReadMember, Words, Word, Bit

\* Writing a member keeps the writer good and goes on from it.
LEMMA MemberGood ==
  ASSUME NEW w, Good(w), NEW f, Field(f), NEW v \in Values(f)
  PROVE  Good(WriteMember(w, f, v)) /\ Grows(w, WriteMember(w, f, v))
<1>1. CASE UintField(f)
  <2>1. v \in f.min .. f.max /\ WriteMember(w, f, v) = WriteUint(w, f, v)
    BY <1>1, UintKind
  <2> QED BY <1>1, <2>1, UintGood, UintGrows
<1>2. CASE SintField(f)
  <2>1. v \in f.min .. f.max /\ WriteMember(w, f, v) = WriteSint(w, f, v)
    BY <1>2, SintKind
  <2> QED BY <1>2, <2>1, SintGood, SintGrows
<1>3. CASE RowField(f)
  <2>1. v \in RowValues(f) /\ WriteMember(w, f, v) = WriteRow(w, f, v)
    BY <1>3, RowKind
  <2> QED BY <1>3, <2>1, RowGood
<1>4. CASE BytesField(f)
  <2>1. v \in [1 .. Words(f) -> Word] /\ WriteMember(w, f, v) = WriteBytes(w, f, v)
    BY <1>4, BytesKind
  <2>2. Good(WriteBytes(w, f, v)) /\ Grows(w, WriteBytes(w, f, v))
    BY <1>4, <2>1, BytesGrow
  <2> QED BY <2>1, <2>2
<1> QED BY <1>1, <1>2, <1>3, <1>4 DEF Field

\* A member is read where it was written, whatever its kind.
LEMMA ReadsMember ==
  ASSUME NEW w, Ready(w), NEW f, Field(f), NEW v \in Values(f),
         NEW x, x = WriteMember(w, f, v), ~ x.failed, NEW B, Begins(x, B), NEW u
  PROVE  ReadMember(ReaderAt(w, B, u), f) = ReaderAt(x, B, v)
<1>1. CASE UintField(f)
  <2>1. v \in f.min .. f.max /\ x = WriteUint(w, f, v)
        /\ ReadMember(ReaderAt(w, B, u), f) = ReadUint(ReaderAt(w, B, u), f)
    BY <1>1, UintKind
  <2> QED BY <1>1, <2>1, ReadsUint
<1>2. CASE SintField(f)
  <2>1. v \in f.min .. f.max /\ x = WriteSint(w, f, v)
        /\ ReadMember(ReaderAt(w, B, u), f) = ReadInt(ReaderAt(w, B, u), f)
    BY <1>2, SintKind
  <2> QED BY <1>2, <2>1, ReadsSint
<1>3. CASE RowField(f)
  <2>1. v \in RowValues(f) /\ x = WriteRow(w, f, v)
        /\ ReadMember(ReaderAt(w, B, u), f) = ReadRow(ReaderAt(w, B, u), f)
    BY <1>3, RowKind
  <2> QED BY <1>3, <2>1, ReadsRow
<1>4. CASE BytesField(f)
  <2>1. v \in [1 .. Words(f) -> Word] /\ x = WriteBytes(w, f, v)
        /\ ReadMember(ReaderAt(w, B, u), f) = ReadBytes(ReaderAt(w, B, u), f)
    BY <1>4, BytesKind
  <2> QED BY <1>4, <2>1, ReadsBytes
<1> QED BY <1>1, <1>2, <1>3, <1>4 DEF Field

\* The first n members of fs, and values they can take.
Suits(fs, vs, n) ==
  n \in Nat /\ \A i \in 1 .. n : Field(fs[i]) /\ vs[i] \in Values(fs[i])

\* The writers before and after each member.
Chain(W, w, fs, vs, n) ==
  /\ W[0] = w
  /\ \A i \in 1 .. n : W[i] = WriteMember(W[i - 1], fs[i], vs[i])
  /\ \A i \in 0 .. n : Good(W[i])

\* Members go through a chain of writers.
LEMMA MembersAreWritten ==
  ASSUME NEW w, Good(w), NEW fs, NEW vs, Suits(fs, vs, Len(fs))
  PROVE  \E W : Chain(W, w, fs, vs, Len(fs)) /\ Written(w, fs, vs) = W[Len(fs)]
<1>1. PICK n : n = Len(fs)
  OBVIOUS
<1>2. n \in Nat
  BY <1>1 DEF Suits
<1>3. \A i \in 1 .. n : Field(fs[i]) /\ vs[i] \in Values(fs[i])
  BY <1>1 DEF Suits
<1> DEFINE A == {x \in Writers : Good(x)}
           G == [i \in 1 .. n |-> [x \in A |-> WriteMember(x, fs[i], vs[i])]]
           F(h) == [i \in 0 .. n |-> IF i = 0 THEN w ELSE WriteMember(h[i - 1], fs[i], vs[i])]
<1>4. Stepwise(n, A, w, G)
  <2>1. w \in A
    BY DEF Good
  <2>2. ASSUME NEW i \in 1 .. n, NEW x \in A PROVE WriteMember(x, fs[i], vs[i]) \in A
    <3>1. Good(WriteMember(x, fs[i], vs[i]))
      BY <1>3, MemberGood
    <3> QED BY <3>1 DEF Good
  <2> HIDE DEF A
  <2> QED BY <1>2, <2>1, <2>2 DEF Stepwise
<1>5. PICK e : Iteration(e, n, A, w, G)
  <2> HIDE DEF A, G
  <2> QED BY <1>4, IterationExists
<1>6. e = F(e)
  <2>1. \A i \in 1 .. n : e[i] = WriteMember(e[i - 1], fs[i], vs[i])
    <3> TAKE i \in 1 .. n
    <3>1. e[i] = G[i][e[i - 1]] /\ e[i - 1] \in A
      <4> HIDE DEF A, G
      <4>1. i - 1 \in 0 .. n
        BY <1>2
      <4> QED BY <1>5, <4>1 DEF Iteration
    <3> HIDE DEF A
    <3> QED BY <3>1
  <2> HIDE DEF A, G
  <2> QED BY <1>5, <2>1 DEF Iteration
<1>7. PICK h : h = F(h) /\ Written(w, fs, vs) = h[n]
  <2>1. Written(w, fs, vs) = (CHOOSE h : h = F(h))[n]
    BY <1>1 DEF Written
  <2> HIDE DEF F
  <2> QED BY <1>6, <2>1
<1>8. h[0] = w /\ \A i \in 1 .. n : h[i] = WriteMember(h[i - 1], fs[i], vs[i])
  <2>1. h[0] = w
    BY <1>2, <1>7
  <2>2. ASSUME NEW i \in 1 .. n PROVE h[i] = WriteMember(h[i - 1], fs[i], vs[i])
    <3>1. i \in 0 .. n /\ i # 0
      BY <1>2
    <3> QED BY <1>7, <3>1
  <2> QED BY <2>1, <2>2
<1>9. \A i \in 0 .. n : Good(h[i])
  <2>1. \A i \in 0 .. n : h[i] = e[i]
    <3>1. h[0] = e[0]
      BY <1>5, <1>8 DEF Iteration
    <3>2. \A i \in 1 .. n : e[i] = WriteMember(e[i - 1], fs[i], vs[i])
      <4> TAKE i \in 1 .. n
      <4>1. i \in 0 .. n /\ i # 0
        BY <1>2
      <4> QED BY <1>6, <4>1
    <3>3. \A i \in 1 .. n : h[i - 1] = e[i - 1] => h[i] = e[i]
      BY <1>8, <3>2
    <3>4. n \in Nat
      BY <1>2
    <3> HIDE DEF F, A, G
    <3> QED
      <4>1. Together(h, e, n)
        BY <3>1, <3>3 DEF Together
      <4>2. n \in Nat
        BY <3>4
      <4> QED BY <4>1, <4>2, SameSteps
  <2>2. \A i \in 0 .. n : e[i] \in A
    <3> HIDE DEF A, G
    <3> QED BY <1>5 DEF Iteration
  <2> QED BY <2>1, <2>2
<1> QED BY <1>1, <1>7, <1>8, <1>9 DEF Chain

\* Each of these goes on from the one before it.
LEMMA ChainLinked ==
  ASSUME NEW W, NEW w, NEW fs, NEW vs, NEW n, Suits(fs, vs, n), Chain(W, w, fs, vs, n)
  PROVE  Linked(W, n) /\ n \in Nat
<1>1. n \in Nat
  BY DEF Suits
<1>2. ASSUME NEW i \in 1 .. n PROVE Grows(W[i - 1], W[i])
  <2>1. Field(fs[i]) /\ vs[i] \in Values(fs[i])
    BY DEF Suits
  <2>2. Good(W[i - 1])
    <3>1. i - 1 \in 0 .. n
      BY <1>1
    <3> QED BY <3>1 DEF Chain
  <2>3. Grows(W[i - 1], WriteMember(W[i - 1], fs[i], vs[i]))
    BY <2>1, <2>2, MemberGood
  <2> QED BY <2>3 DEF Chain
<1> QED BY <1>1, <1>2 DEF Linked

\* Members are read one after the other where they were written.
LEMMA ReadsMembers ==
  ASSUME NEW W, NEW w, NEW fs, NEW vs, Suits(fs, vs, Len(fs)), Chain(W, w, fs, vs, Len(fs)),
         Ready(w), ~ W[Len(fs)].failed, NEW B, Begins(W[Len(fs)], B), NEW u
  PROVE  \E x : ReadMembers(ReaderAt(w, B, u), fs)
                = [reader |-> ReaderAt(W[Len(fs)], B, x), values |-> Part(vs, Len(fs))]
<1>1. PICK n : n = Len(fs)
  OBVIOUS
<1>2. n \in Nat /\ Linked(W, n)
  BY <1>1, ChainLinked
<1>3. \A i \in 1 .. n : Field(fs[i]) /\ vs[i] \in Values(fs[i])
  BY <1>1 DEF Suits
<1>5. W[0] = w /\ \A i \in 1 .. n : W[i] = WriteMember(W[i - 1], fs[i], vs[i])
  BY <1>1 DEF Chain
<1>6. \A i \in 0 .. n : Ready(W[i]) /\ ~ W[i].failed /\ Begins(W[i], B)
  <2>1. Ready(W[0]) /\ ~ W[n].failed /\ Begins(W[n], B)
    BY <1>1, <1>5
  <2>2. \A i \in 0 .. n : /\ Ready(W[i]) /\ ~ W[i].failed
                          /\ \A C : Begins(W[n], C) => Begins(W[i], C)
    BY <1>2, <2>1, LinkedReady
  <2> QED BY <2>1, <2>2
<1>8. ASSUME NEW i \in 1 .. n, NEW x
      PROVE  ReadMember(ReaderAt(W[i - 1], B, x), fs[i]) = ReaderAt(W[i], B, vs[i])
  <2>1. PICK y, z : y = W[i - 1] /\ z = W[i]
    OBVIOUS
  <2>2. z = WriteMember(y, fs[i], vs[i])
    BY <1>5, <2>1
  <2>3. Ready(y) /\ ~ z.failed /\ Begins(z, B)
    <3>1. i - 1 \in 0 .. n /\ i \in 0 .. n
      BY <1>2
    <3> QED BY <1>6, <2>1, <3>1
  <2>4. Field(fs[i]) /\ vs[i] \in Values(fs[i])
    BY <1>3
  <2>5. ReadMember(ReaderAt(y, B, x), fs[i]) = ReaderAt(z, B, vs[i])
    BY <2>2, <2>3, <2>4, ReadsMember
  <2> QED BY <2>1, <2>5
<1> DEFINE r == ReaderAt(w, B, u)
           F(h) == [i \in 0 .. n |->
                      IF i = 0 THEN [reader |-> r, values |-> <<>>]
                      ELSE [reader |-> ReadMember(h[i - 1].reader, fs[i]),
                            values |-> Append(h[i - 1].values, ReadMember(h[i - 1].reader, fs[i]).value)]]
<1>9. PICK e : e = [i \in 0 .. n |-> [reader |-> ReaderAt(W[i], B, IF i = 0 THEN u ELSE vs[i]),
                                      values |-> Part(vs, i)]]
  OBVIOUS
<1>10. e[0] = [reader |-> r, values |-> <<>>]
  <2>1. Part(vs, 0) = <<>>
    BY NoPart
  <2> QED BY <1>2, <1>5, <1>9, <2>1
<1>11. ASSUME NEW i \in 1 .. n
       PROVE  /\ ReadMember(e[i - 1].reader, fs[i]) = ReaderAt(W[i], B, vs[i])
              /\ ReadMember(e[i - 1].reader, fs[i]).value = vs[i]
              /\ Append(e[i - 1].values, vs[i]) = Part(vs, i)
              /\ e[i] = [reader |-> ReaderAt(W[i], B, vs[i]), values |-> Part(vs, i)]
  <2>1. i - 1 \in 0 .. n /\ i \in 0 .. n /\ i # 0 /\ i \in Nat \ {0}
    BY <1>2
  <2>2. PICK x : e[i - 1] = [reader |-> ReaderAt(W[i - 1], B, x), values |-> Part(vs, i - 1)]
    BY <1>9, <2>1
  <2>3. ReadMember(e[i - 1].reader, fs[i]) = ReaderAt(W[i], B, vs[i])
    BY <1>8, <2>2
  <2>4. ReaderAt(W[i], B, vs[i]).value = vs[i]
    BY ReaderAtValue
  <2>5. Append(Part(vs, i - 1), vs[i]) = Part(vs, i)
    BY <2>1, PartsGrow
  <2>6. e[i] = [reader |-> ReaderAt(W[i], B, vs[i]), values |-> Part(vs, i)]
    BY <1>9, <2>1
  <2> QED BY <2>2, <2>3, <2>4, <2>5, <2>6
<1>12. e = F(e)
  <2>1. \A i \in 1 .. n :
          e[i] = [reader |-> ReadMember(e[i - 1].reader, fs[i]),
                  values |-> Append(e[i - 1].values, ReadMember(e[i - 1].reader, fs[i]).value)]
    BY <1>11
  <2> HIDE DEF r
  <2>2. \A i \in 0 .. n : i # 0 => i \in 1 .. n
    BY <1>2
  <2> QED BY <1>9, <1>10, <2>1, <2>2
<1>13. PICK h : h = F(h) /\ ReadMembers(r, fs) = h[n]
  <2> HIDE DEF r
  <2>2. PICK c : c = (CHOOSE h : h = F(h))
    OBVIOUS
  <2>3. ReadMembers(r, fs) = c[n]
    BY <1>1, <2>2 DEF ReadMembers, ReadInTurn
  <2>4. c = F(c)
    <3> HIDE DEF F
    <3> QED BY <1>12, <2>2
  <2> HIDE DEF F
  <2> QED BY <2>3, <2>4
<1>14. h[n] = e[n]
  <2> HIDE DEF r
  <2>1. h[0] = e[0]
    BY <1>2, <1>10, <1>13
  <2>2. ASSUME NEW i \in 1 .. n, h[i - 1] = e[i - 1] PROVE h[i] = e[i]
    <3>1. i \in 0 .. n /\ i # 0
      BY <1>2
    <3>2. h[i] = [reader |-> ReadMember(h[i - 1].reader, fs[i]),
                  values |-> Append(h[i - 1].values, ReadMember(h[i - 1].reader, fs[i]).value)]
      BY <1>13, <3>1
    <3>3. h[i] = [reader |-> ReadMember(e[i - 1].reader, fs[i]),
                  values |-> Append(e[i - 1].values, ReadMember(e[i - 1].reader, fs[i]).value)]
      BY <2>2, <3>2
    <3> QED BY <1>11, <3>3
  <2>3. \A i \in 0 .. n : h[i] = e[i]
    <3> HIDE DEF F
    <3> QED
      <4>1. Together(h, e, n)
        BY <2>1, <2>2 DEF Together
      <4>2. n \in Nat
        BY <1>2
      <4> QED BY <4>1, <4>2, SameSteps
  <2> QED BY <1>2, <2>3
<1>15. \E x : e[n] = [reader |-> ReaderAt(W[n], B, x), values |-> Part(vs, n)]
  BY <1>2, <1>9
<1> QED BY <1>1, <1>13, <1>14, <1>15

-----------------------------------------------------------------------------
(* A part of what is written is read on its own.                           *)

\* fs and vs are the members and values behind the first a of n.
Segment(all, vals, n, a, fs, vs) ==
  /\ a \in Nat /\ Len(fs) \in Nat /\ a + Len(fs) <= n
  /\ \A i \in 1 .. Len(fs) : fs[i] = all[a + i] /\ vs[i] = vals[a + i]

\* Reading fs from the a-th writer on gives vs.
ReadsTo(W, B, u, a, fs, vs) ==
  \E x : ReadMembers(ReaderAt(W[a], B, u), fs)
         = [reader |-> ReaderAt(W[a + Len(fs)], B, x), values |-> Part(vs, Len(fs))]

\* Some members in a row are read where they were written among the others.
LEMMA ReadsSegment ==
  ASSUME NEW W, NEW w, NEW all, NEW vals, NEW n, Suits(all, vals, n), Chain(W, w, all, vals, n),
         Ready(w), ~ W[n].failed, NEW B, Begins(W[n], B), NEW u,
         NEW a, NEW fs, NEW vs, Segment(all, vals, n, a, fs, vs)
  PROVE  ReadsTo(W, B, u, a, fs, vs)
<1>1. PICK b : b = Len(fs)
  OBVIOUS
<1>2. a \in Nat /\ b \in Nat /\ n \in Nat /\ a + b <= n
  BY <1>1 DEF Segment, Suits
<1>3. \A i \in 1 .. b : fs[i] = all[a + i] /\ vs[i] = vals[a + i]
  BY <1>1 DEF Segment
<1>4. PICK V : V = [j \in 0 .. b |-> W[a + j]]
  OBVIOUS
<1>5. V[0] = W[a] /\ V[b] = W[a + b]
  <2>1. a + 0 = a /\ 0 \in 0 .. b /\ b \in 0 .. b
    BY <1>2
  <2> QED BY <1>4, <2>1
<1>6. Suits(fs, vs, b)
  <2>1. \A i \in 1 .. b : a + i \in 1 .. n
    BY <1>2
  <2>2. \A i \in 1 .. b : Field(all[a + i]) /\ vals[a + i] \in Values(all[a + i])
    BY <2>1 DEF Suits
  <2> QED BY <1>2, <1>3, <2>2 DEF Suits
<1>7. Chain(V, W[a], fs, vs, b)
  <2>1. ASSUME NEW i \in 1 .. b PROVE V[i] = WriteMember(V[i - 1], fs[i], vs[i])
    <3>1. a + i \in 1 .. n /\ (a + i) - 1 = a + (i - 1) /\ i \in 0 .. b /\ i - 1 \in 0 .. b
      BY <1>2
    <3>2. W[a + i] = WriteMember(W[(a + i) - 1], all[a + i], vals[a + i])
      BY <3>1 DEF Chain
    <3>3. V[i] = W[a + i] /\ V[i - 1] = W[a + (i - 1)]
      BY <1>4, <3>1
    <3> QED BY <1>3, <3>1, <3>2, <3>3
  <2>2. ASSUME NEW i \in 0 .. b PROVE Good(V[i])
    <3>1. a + i \in 0 .. n
      BY <1>2
    <3>2. Good(W[a + i])
      BY <3>1 DEF Chain
    <3> QED BY <1>4, <3>2
  <2> QED BY <1>5, <2>1, <2>2 DEF Chain
<1>8. \A i \in 0 .. n : Ready(W[i]) /\ ~ W[i].failed /\ Begins(W[i], B)
  <2>1. n \in Nat /\ Linked(W, n)
    BY ChainLinked
  <2>2. W[0] = w
    BY DEF Chain
  <2>3. \A i \in 0 .. n : /\ Ready(W[i]) /\ ~ W[i].failed
                          /\ \A C : Begins(W[n], C) => Begins(W[i], C)
    BY <2>1, <2>2, LinkedReady
  <2> QED BY <2>3
<1>9. Ready(W[a]) /\ ~ V[b].failed /\ Begins(V[b], B)
  <2>1. a \in 0 .. n /\ a + b \in 0 .. n
    BY <1>2
  <2> QED BY <1>5, <1>8, <2>1
<1>10. \E x : ReadMembers(ReaderAt(W[a], B, u), fs)
              = [reader |-> ReaderAt(V[b], B, x), values |-> Part(vs, b)]
  <2>1. PICK z : z = W[a]
    OBVIOUS
  <2>2. /\ Suits(fs, vs, Len(fs)) /\ Chain(V, z, fs, vs, Len(fs)) /\ Ready(z)
        /\ ~ V[Len(fs)].failed /\ Begins(V[Len(fs)], B)
    BY <1>1, <1>6, <1>7, <1>9, <2>1
  <2>3. \E x : ReadMembers(ReaderAt(z, B, u), fs)
               = [reader |-> ReaderAt(V[Len(fs)], B, x), values |-> Part(vs, Len(fs))]
    BY <2>2, ReadsMembers
  <2> QED BY <1>1, <2>1, <2>3
<1> QED BY <1>1, <1>5, <1>10 DEF ReadsTo

-----------------------------------------------------------------------------
(* The messages.                                                           *)

\* The set of these members.
Kinds == {f \in Uints \cup Sints \cup {Row(n, g) : n \in Nat, g \in Uints}
                \cup {ByteArray(n) : n \in Nat} : Field(f)}

\* The members the streams know.
LEMMA FieldKinds ==
  ASSUME NEW f
  PROVE  f \in Kinds <=> Field(f)
<1>1. ASSUME Field(f) PROVE f \in Kinds
  <2>1. CASE UintField(f)
    BY <1>1, <2>1 DEF UintField, Kinds
  <2>2. CASE SintField(f)
    BY <1>1, <2>2 DEF SintField, Kinds
  <2>3. CASE RowField(f)
    BY <1>1, <2>3 DEF RowField, UintField, Kinds
  <2>4. CASE BytesField(f)
    BY <1>1, <2>4 DEF BytesField, Kinds
  <2> QED BY <1>1, <2>1, <2>2, <2>3, <2>4 DEF Field
<1> QED BY <1>1 DEF Kinds

\* An unsigned member.
LEMMA UintKinds ==
  ASSUME NEW a \in Nat, NEW b \in Nat, a <= b, b <= INT_MAX
  PROVE  Uint(a, b) \in Kinds
<1>1. a \in 0 .. INT_MAX /\ b \in 0 .. INT_MAX
  BY IntMax
<1>2. Uint(a, b) \in Uints /\ Uint(a, b).min = a /\ Uint(a, b).max = b
  BY <1>1 DEF Uints, Uint
<1>3. Field(Uint(a, b))
  BY <1>2 DEF Field, UintField
<1> QED BY <1>3, FieldKinds

\* An int.
LEMMA SintKinds ==
  ASSUME NEW a \in - INT_MAX .. INT_MAX, NEW b \in - INT_MAX .. INT_MAX, a <= b
  PROVE  Sint(a, b) \in Kinds
<1>2. Sint(a, b) \in Sints /\ Sint(a, b).min = a /\ Sint(a, b).max = b
  BY DEF Sints, Sint
<1>3. Field(Sint(a, b))
  BY <1>2 DEF Field, SintField
<1> QED BY <1>3, FieldKinds

\* A row.
LEMMA RowKinds ==
  ASSUME NEW n \in Nat, NEW g, UintField(g)
  PROVE  Row(n, g) \in Kinds
BY FieldKinds DEF Field, RowField

\* A byte array.
LEMMA BytesKinds ==
  ASSUME NEW n \in Nat
  PROVE  ByteArray(n) \in Kinds
BY FieldKinds DEF Field, BytesField

\* An unsigned member with a range of the game.
LEMMA SmallUint ==
  ASSUME NEW b \in 0 .. 512
  PROVE  Uint(0, b) \in Kinds
<1>1. b <= INT_MAX /\ b \in Nat /\ 0 <= b
  BY IntMax
<1> QED BY <1>1, UintKinds

\* An int with a range of the game.
LEMMA SmallSint ==
  ASSUME NEW a \in -1 .. 0, NEW b \in 0 .. 4, a <= b
  PROVE  Sint(a, b) \in Kinds
<1>1. a \in - INT_MAX .. INT_MAX /\ b \in - INT_MAX .. INT_MAX /\ a <= b
  BY IntMax
<1> QED BY <1>1, SintKinds, Zenon

\* Every message but one has members the streams know.
LEMMA MessageMembers ==
  /\ Ping \in Seq(Kinds) /\ Pong \in Seq(Kinds) /\ PlayerReady \in Seq(Kinds)
  /\ GameReady \in Seq(Kinds) /\ RoundStart \in Seq(Kinds) /\ RoundOver \in Seq(Kinds)
  /\ PlayerPosition \in Seq(Kinds) /\ PlayerDropBomb \in Seq(Kinds)
  /\ PlayerExploded \in Seq(Kinds) /\ GameOver \in Seq(Kinds) /\ BonusMap \in Seq(Kinds)
  /\ PlayerPickupBonus \in Seq(Kinds) /\ PlayerApplyBonus \in Seq(Kinds)
  /\ PlayerKickBomb \in Seq(Kinds)
<1>1. /\ Uint(0, MAX_PLAYERS) \in Kinds /\ Uint(0, MAP_WIDTH) \in Kinds /\ Uint(0, MAP_HEIGHT) \in Kinds
      /\ Uint(0, 5) \in Kinds /\ Uint(0, BONUS_TYPES_COUNT) \in Kinds
      /\ Uint(0, MAP_WIDTH * TILE_SIZE) \in Kinds /\ Uint(0, MAP_HEIGHT * TILE_SIZE) \in Kinds
  BY SmallUint DEF MAX_PLAYERS, MAP_WIDTH, MAP_HEIGHT, BONUS_TYPES_COUNT, TILE_SIZE
<1>2. Uint(0, INT_MAX) \in Kinds
  BY IntMax, UintKinds
<1>3. Sint(0, MAX_PLAYERS) \in Kinds /\ Sint(-1, MAX_PLAYERS) \in Kinds /\ Sint(-1, 1) \in Kinds
  BY SmallSint DEF MAX_PLAYERS
<1>4. <<Sint(0, MAX_PLAYERS), Uint(0, INT_MAX)>> \in Seq(Kinds)
  BY <1>2, <1>3
<1>5. <<Uint(0, INT_MAX)>> \in Seq(Kinds)
  BY <1>2
<1>6. <<Sint(0, MAX_PLAYERS)>> \in Seq(Kinds) /\ <<Sint(-1, MAX_PLAYERS)>> \in Seq(Kinds)
  BY <1>3
<1>7. <<>> \in Seq(Kinds)
  OBVIOUS
<1>8. [i \in 1 .. MAX_PLAYERS |-> Uint(0, 5)] \in Seq(Kinds)
  BY <1>1 DEF MAX_PLAYERS
<1>9. RoundOver \in Seq(Kinds)
  BY <1>6, <1>8, ConcatProperties DEF RoundOver
<1>10. <<Uint(0, MAX_PLAYERS), Uint(0, MAP_WIDTH * TILE_SIZE), Uint(0, MAP_HEIGHT * TILE_SIZE)>>
       \in Seq(Kinds)
  BY <1>1
<1>11. Tile \in Seq(Kinds) /\ <<PlayerId>> \in Seq(Kinds)
  <2>1. <<Uint(0, MAP_WIDTH), Uint(0, MAP_HEIGHT)>> \in Seq(Kinds)
    BY <1>1
  <2>2. <<Uint(0, MAX_PLAYERS)>> \in Seq(Kinds)
    BY <1>1
  <2> QED BY <2>1, <2>2 DEF Tile, PlayerId
<1>12. <<PlayerId>> \o Tile \in Seq(Kinds)
  BY <1>11, ConcatProperties
<1>13. <<Sint(-1, 1), Sint(-1, 1)>> \in Seq(Kinds)
  BY <1>3
<1>14. (<<PlayerId>> \o Tile) \o <<Sint(-1, 1), Sint(-1, 1)>> \in Seq(Kinds)
  BY <1>12, <1>13, ConcatProperties
<1>15. BonusMap \in Seq(Kinds)
  <2>1. UintField(Uint(0, BONUS_TYPES_COUNT)) /\ MAP_WIDTH \in Nat /\ MAP_HEIGHT \in Nat
    BY IntMax DEF UintField, Uints, Uint, BONUS_TYPES_COUNT, MAP_WIDTH, MAP_HEIGHT
  <2>2. PICK g : g = Row(MAP_WIDTH, Uint(0, BONUS_TYPES_COUNT)) /\ g \in Kinds
    BY <2>1, RowKinds
  <2>3. [y \in 1 .. MAP_HEIGHT |-> g] \in Seq(Kinds)
    BY <2>1, <2>2
  <2> QED BY <2>2, <2>3 DEF BonusMap
<1>16. <<Uint(0, MAX_PLAYERS), Uint(0, BONUS_TYPES_COUNT)>> \in Seq(Kinds)
  BY <1>1
<1> QED BY <1>4, <1>5, <1>6, <1>7, <1>9, <1>10, <1>11, <1>12, <1>14, <1>15, <1>16
        DEF Ping, Pong, PlayerReady, GameReady, RoundStart, PlayerPosition, PlayerDropBomb,
            PlayerExploded, GameOver, PlayerPickupBonus, PlayerApplyBonus, PlayerKickBomb, PlayerId

\* The members of PLAYER_CONNECTED, the last of which counts the nicknames.
LEMMA ConnectionMembers ==
  /\ PlayerConnected \in Seq(Kinds) /\ Len(PlayerConnected) = 7
  /\ PlayerConnected[7] = Uint(0, MAX_PLAYERS)
<1>1. /\ Uint(0, MAX_PLAYERS) \in Kinds /\ Uint(0, 15) \in Kinds /\ Bool \in Kinds
      /\ Uint(0, 350) \in Kinds /\ Uint(0, MAX_REQUIRED_ROUNDS) \in Kinds
  BY SmallUint DEF MAX_PLAYERS, MAX_REQUIRED_ROUNDS, Bool
<1>2. Sint(0, MAX_PLAYERS) \in Kinds
  BY SmallSint DEF MAX_PLAYERS
<1>3. PICK a, b, c : /\ a = <<Sint(0, MAX_PLAYERS), Uint(0, 15), Bool>>
                     /\ b = GameSettings
                     /\ c = <<Uint(0, MAX_PLAYERS)>>
  OBVIOUS
<1>4. a \in Seq(Kinds) /\ Len(a) = 3
  BY <1>1, <1>2, <1>3
<1>5. b \in Seq(Kinds) /\ Len(b) = 3
  BY <1>1, <1>3 DEF GameSettings
<1>6. c \in Seq(Kinds) /\ Len(c) = 1 /\ c[1] = Uint(0, MAX_PLAYERS)
  BY <1>1, <1>3
<1>7. PICK d : d = a \o b
  OBVIOUS
<1>8. d \in Seq(Kinds) /\ Len(d) = 6
  <2>1. a \o b \in Seq(Kinds) /\ Len(a \o b) = Len(a) + Len(b)
    BY <1>4, <1>5, ConcatProperties
  <2> QED BY <1>4, <1>5, <1>7, <2>1
<1>9. PICK e : e = d \o c
  OBVIOUS
<1>10. e \in Seq(Kinds) /\ Len(e) = 7 /\ e[7] = c[1]
  <2>1. /\ d \o c \in Seq(Kinds) /\ Len(d \o c) = Len(d) + Len(c)
        /\ \A i \in 1 .. Len(d) + Len(c) : (d \o c)[i] = IF i <= Len(d) THEN d[i] ELSE c[i - Len(d)]
    BY <1>6, <1>8, ConcatProperties
  <2> QED BY <1>6, <1>8, <1>9, <2>1
<1>11. PlayerConnected = e
  BY <1>3, <1>7, <1>9 DEF PlayerConnected
<1> QED BY <1>6, <1>10, <1>11

\* The types are 0 to 14, and each has a sequence of members.
LEMMA FactoryMembers ==
  /\ DOMAIN Factory = 1 .. 15
  /\ \A i \in 1 .. 15 : Factory[i] \in Seq(Kinds)
  /\ Factory[PLAYER_CONNECTED + 1] = PlayerConnected
<1>1. PICK f : f = Factory
  OBVIOUS
<1>2. /\ f[1] = Ping /\ f[2] = Pong /\ f[3] = PlayerConnected /\ f[4] = PlayerReady
      /\ f[5] = GameReady /\ f[6] = RoundStart /\ f[7] = RoundOver /\ f[8] = PlayerPosition
      /\ f[9] = PlayerDropBomb /\ f[10] = PlayerExploded /\ f[11] = GameOver
      /\ f[12] = BonusMap /\ f[13] = PlayerPickupBonus /\ f[14] = PlayerApplyBonus
      /\ f[15] = PlayerKickBomb
  BY <1>1 DEF Factory
<1>3. DOMAIN Factory = 1 .. 15
  BY DEF Factory
<1>4. \A i \in 1 .. 15 : f[i] \in Seq(Kinds)
  <2> TAKE i \in 1 .. 15
  <2>1. i \in {1, 2, 3, 4, 5, 6, 7, 8, 9, 10, 11, 12, 13, 14, 15}
    OBVIOUS
  <2> QED BY <1>2, <2>1, MessageMembers, ConnectionMembers
<1>5. PLAYER_CONNECTED + 1 = 3
  BY DEF PLAYER_CONNECTED
<1> QED BY <1>1, <1>2, <1>3, <1>4, <1>5

\* The type of a message and the number of messages.
LEMMA HeadFields ==
  /\ Field(Type) /\ UintField(Type) /\ Field(Count) /\ UintField(Count)
  /\ Type.min = 0 /\ Type.max = 32 /\ Count.min = 0 /\ Count.max = 5
<1>1. UintField(Uint(0, 32)) /\ UintField(Uint(0, 5))
  BY IntMax DEF UintField, Uints, Uint
<1> QED BY <1>1 DEF Type, Count, Field, Uint, MAX_MESSAGE_TYPES, MAX_MESSAGES_PER_PACKET

\* The members of a message, its nicknames and all that is written for it.
Fixed(m) == Factory[m.type + 1]
Names(m) == Nicknames(m.type, Fixed(m), m.values)
NameValues(m) == [i \in 1 .. Len(Names(m)) |-> m.values[Len(Fixed(m)) + i]]
AllMembers(m) == <<Type>> \o Members(m)
FixedLength(m) == Len(Fixed(m))
NamesLength(m) == Len(Names(m))
AllValues(m) == <<m.type>> \o m.values

\* The factory makes fifteen types.
LEMMA FactoryLength == Len(Factory) = 15
BY DEF Factory

\* The members and the nicknames of a message are members the streams know; those of a
\* PLAYER_CONNECTED are as many as its last member says.
LEMMA NicknameMembers ==
  ASSUME NEW m, WellFormed(m)
  PROVE  /\ m.type \in 0 .. 14
         /\ Fixed(m) \in Seq(Kinds) /\ Names(m) \in Seq(Kinds)
         /\ m.type = PLAYER_CONNECTED => Len(Fixed(m)) = 7
<1>1. m.type \in 0 .. 14
  BY FactoryLength DEF WellFormed
<1>2. Fixed(m) \in Seq(Kinds)
  <2>1. m.type + 1 \in 1 .. 15
    BY <1>1
  <2> QED BY <2>1, FactoryMembers DEF Fixed
<1>3. CASE m.type # PLAYER_CONNECTED
  <2>1. Names(m) = <<>>
    BY <1>3 DEF Names, Nicknames
  <2> QED BY <1>1, <1>2, <1>3, <2>1
<1>4. CASE m.type = PLAYER_CONNECTED
  <2>1. Fixed(m) = PlayerConnected /\ Len(Fixed(m)) = 7 /\ Fixed(m)[7] = Uint(0, MAX_PLAYERS)
    BY <1>4, FactoryMembers, ConnectionMembers DEF Fixed
  <2>2. m.values[7] \in Values(Uint(0, MAX_PLAYERS))
    <3>1. 7 \in DOMAIN Fixed(m)
      BY <1>2, <2>1
    <3>2. m.values[7] \in Values(Fixed(m)[7])
      BY <3>1 DEF WellFormed, Fixed
    <3> QED BY <2>1, <3>2
  <2>3. m.values[7] \in Nat
    <3>1. Values(Uint(0, MAX_PLAYERS)) = 0 .. MAX_PLAYERS
      BY DEF Values, Uint
    <3> QED BY <2>2, <3>1 DEF MAX_PLAYERS
  <2>4. PICK k \in Nat : k = m.values[7]
    BY <2>3
  <2>5. Names(m) = [i \in 1 .. k |-> ByteArray(PLAYER_NICKNAME_MAX_LENGTH)]
    BY <1>4, <2>1, <2>4 DEF Names, Nicknames
  <2>6. ByteArray(PLAYER_NICKNAME_MAX_LENGTH) \in Kinds
    BY BytesKinds DEF PLAYER_NICKNAME_MAX_LENGTH
  <2>7. Names(m) \in Seq(Kinds)
    BY <2>5, <2>6
  <2> QED BY <1>1, <1>2, <2>1, <2>7
<1> QED BY <1>3, <1>4

\* What is written for a message: its type, its own members and the nicknames.
LEMMA MessageParts ==
  ASSUME NEW m, WellFormed(m), NEW a, a = FixedLength(m), NEW c, c = NamesLength(m)
  PROVE  /\ a \in Nat /\ c \in Nat /\ Len(AllMembers(m)) = 1 + (a + c)
         /\ AllMembers(m)[1] = Type /\ AllValues(m)[1] = m.type
         /\ Segment(AllMembers(m), AllValues(m), 1 + (a + c), 1, Fixed(m), m.values)
         /\ Segment(AllMembers(m), AllValues(m), 1 + (a + c), 1 + a, Names(m), NameValues(m))
<1>1. PICK fs, names : fs = Fixed(m) /\ names = Names(m)
  OBVIOUS
<1>2. fs \in Seq(Kinds) /\ names \in Seq(Kinds) /\ Len(fs) = a /\ Len(names) = c
  BY <1>1, NicknameMembers DEF FixedLength, NamesLength
<1>3. a \in Nat /\ c \in Nat
  BY <1>2, LenProperties
<1>4. PICK both : both = fs \o names
  OBVIOUS
<1>5. both \in Seq(Kinds) /\ Len(both) = a + c
      /\ \A i \in 1 .. a + c : both[i] = IF i <= a THEN fs[i] ELSE names[i - a]
  <2>1. /\ fs \o names \in Seq(Kinds) /\ Len(fs \o names) = Len(fs) + Len(names)
        /\ \A i \in 1 .. Len(fs) + Len(names) :
             (fs \o names)[i] = IF i <= Len(fs) THEN fs[i] ELSE names[i - Len(fs)]
    BY <1>2, ConcatProperties
  <2> QED BY <1>2, <1>4, <2>1
<1>6. PICK one : one = <<Type>>
  OBVIOUS
<1>7. one \in Seq(Kinds) /\ Len(one) = 1 /\ one[1] = Type
  BY <1>6, HeadFields, FieldKinds
<1>8. PICK all : all = one \o both
  OBVIOUS
<1>9. all = AllMembers(m)
  BY <1>1, <1>4, <1>6, <1>8 DEF AllMembers, Members, Fixed, Names
<1>10. Len(all) = 1 + (a + c)
       /\ \A i \in 1 .. 1 + (a + c) : all[i] = IF i <= 1 THEN one[i] ELSE both[i - 1]
  <2>0. one \in Seq(Kinds) /\ both \in Seq(Kinds)
    BY <1>5, <1>7
  <2>1. /\ Len(one \o both) = Len(one) + Len(both)
        /\ \A i \in 1 .. Len(one) + Len(both) :
             (one \o both)[i] = IF i <= Len(one) THEN one[i] ELSE both[i - Len(one)]
    BY <2>0, ConcatProperties
  <2> QED BY <1>5, <1>7, <1>8, <2>1
<1>11. PICK vs, t : vs = m.values /\ t = m.type
  OBVIOUS
<1>12. PICK vals : vals = AllValues(m)
  OBVIOUS
<1>13. vals[1] = t /\ \A i \in 1 .. a + c : vals[1 + i] = vs[i]
  <2> DEFINE V == {vs[i] : i \in 1 .. a + c} \cup {t}
  <2>1. vs = [i \in 1 .. a + c |-> vs[i]]
    <3>1. m.values = [i \in 1 .. Len(Fixed(m)) + Len(Names(m)) |-> m.values[i]]
      BY DEF WellFormed, Fixed, Names
    <3> QED BY <1>1, <1>2, <1>11, <3>1
  <2>2. vs \in [1 .. a + c -> V]
    <3>1. \A i \in 1 .. a + c : vs[i] \in V
      OBVIOUS
    <3> HIDE DEF V
    <3> QED BY <2>1, <3>1
  <2>3. a + c \in Nat
    BY <1>3
  <2>4. <<t>> \in Seq(V) /\ Len(<<t>>) = 1 /\ <<t>>[1] = t
    OBVIOUS
  <2> HIDE DEF V
  <2>5. vs \in Seq(V) /\ Len(vs) = a + c
    <3>1. PICK k \in Nat : k = a + c
      BY <2>3
    <3>2. vs \in [1 .. k -> V]
      BY <2>2, <3>1
    <3>3. vs \in Seq(V) /\ Len(vs) = k
      BY <3>2
    <3> QED BY <3>1, <3>3
  <2>6. PICK s : s = <<t>> /\ s \in Seq(V) /\ Len(s) = 1 /\ s[1] = t
    BY <2>4
  <2>7. \A i \in 1 .. Len(s) + Len(vs) :
          (s \o vs)[i] = IF i <= Len(s) THEN s[i] ELSE vs[i - Len(s)]
    BY <2>5, <2>6, ConcatProperties
  <2>8. vals = s \o vs
    BY <1>11, <1>12, <2>6 DEF AllValues
  <2>9. \A i \in 1 .. 1 + (a + c) : vals[i] = IF i <= 1 THEN s[i] ELSE vs[i - 1]
    BY <2>5, <2>6, <2>7, <2>8
  <2>10. 1 \in 1 .. 1 + (a + c)
    BY <2>3
  <2>11. \A i \in 1 .. a + c : 1 + i \in 1 .. 1 + (a + c) /\ ~ (1 + i <= 1) /\ (1 + i) - 1 = i
    BY <2>3
  <2> QED BY <2>6, <2>9, <2>10, <2>11
<1>14. all[1] = Type
  <2>1. 1 \in 1 .. 1 + (a + c)
    BY <1>3
  <2> QED BY <1>7, <1>10, <2>1
<1>15. Segment(all, vals, 1 + (a + c), 1, fs, vs)
  <2>1. 1 \in Nat /\ 1 + a <= 1 + (a + c)
    BY <1>3
  <2>2. ASSUME NEW i \in 1 .. a PROVE fs[i] = all[1 + i] /\ vs[i] = vals[1 + i]
    <3>1. i \in 1 .. a + c /\ i <= a /\ 1 + i \in 1 .. 1 + (a + c) /\ ~ (1 + i <= 1) /\ (1 + i) - 1 = i
      BY <1>3
    <3> QED BY <1>5, <1>10, <1>13, <3>1
  <2> QED BY <1>2, <1>3, <2>1, <2>2 DEF Segment
<1>16. Segment(all, vals, 1 + (a + c), 1 + a, names, NameValues(m))
  <2>1. 1 + a \in Nat /\ (1 + a) + c <= 1 + (a + c)
    BY <1>3
  <2>2. ASSUME NEW i \in 1 .. c
        PROVE  names[i] = all[(1 + a) + i] /\ NameValues(m)[i] = vals[(1 + a) + i]
    <3>1. /\ a + i \in 1 .. a + c /\ ~ (a + i <= a) /\ (a + i) - a = i
          /\ (1 + a) + i = 1 + (a + i)
          /\ 1 + (a + i) \in 1 .. 1 + (a + c) /\ ~ (1 + (a + i) <= 1) /\ (1 + (a + i)) - 1 = a + i
      BY <1>3
    <3>2. NameValues(m)[i] = vs[a + i]
      BY <1>1, <1>2, <1>11 DEF NameValues
    <3> QED BY <1>5, <1>10, <1>13, <3>1, <3>2
  <2> QED BY <1>2, <1>3, <2>1, <2>2 DEF Segment
<1> QED BY <1>1, <1>3, <1>9, <1>10, <1>11, <1>12, <1>13, <1>14, <1>15, <1>16

\* What is written for a well-formed message suits its members.
LEMMA MessageSuits ==
  ASSUME NEW m, WellFormed(m)
  PROVE  Suits(AllMembers(m), AllValues(m), Len(AllMembers(m)))
<1>1. PICK a, c : a = FixedLength(m) /\ c = NamesLength(m)
  OBVIOUS
<1>2. PICK all, vals, n : all = AllMembers(m) /\ vals = AllValues(m) /\ n = 1 + (a + c)
  OBVIOUS
<1>m. /\ a \in Nat /\ c \in Nat /\ Len(AllMembers(m)) = 1 + (a + c)
      /\ AllMembers(m)[1] = Type /\ AllValues(m)[1] = m.type
      /\ Segment(AllMembers(m), AllValues(m), 1 + (a + c), 1, Fixed(m), m.values)
      /\ Segment(AllMembers(m), AllValues(m), 1 + (a + c), 1 + a, Names(m), NameValues(m))
  BY <1>1, MessageParts
<1>3. /\ a \in Nat /\ c \in Nat /\ Len(all) = n
      /\ all[1] = Type /\ vals[1] = m.type
      /\ Segment(all, vals, n, 1, Fixed(m), m.values)
      /\ Segment(all, vals, n, 1 + a, Names(m), NameValues(m))
  BY <1>2, <1>m
<1>4. Fixed(m) \in Seq(Kinds) /\ Names(m) \in Seq(Kinds)
  BY NicknameMembers
<1>5. \A i \in 1 .. a : Field(Fixed(m)[i]) /\ m.values[i] \in Values(Fixed(m)[i])
  <2> TAKE i \in 1 .. a
  <2>1. i \in DOMAIN Fixed(m) /\ Fixed(m)[i] \in Kinds
    BY <1>1, <1>4 DEF FixedLength, NamesLength
  <2> QED BY <2>1, FieldKinds DEF WellFormed, Fixed
<1>6. \A i \in 1 .. c : Field(Names(m)[i]) /\ NameValues(m)[i] \in Values(Names(m)[i])
  <2> TAKE i \in 1 .. c
  <2>1. i \in DOMAIN Names(m) /\ Names(m)[i] \in Kinds
    BY <1>1, <1>4 DEF FixedLength, NamesLength
  <2>2. m.values[Len(Fixed(m)) + i] \in Values(Names(m)[i])
    BY <2>1 DEF WellFormed, Fixed, Names
  <2>3. NameValues(m)[i] = m.values[Len(Fixed(m)) + i]
    BY <1>1 DEF NameValues, NamesLength
  <2> QED BY <2>1, <2>2, <2>3, FieldKinds
<1>7. ASSUME NEW i \in 1 .. n PROVE Field(all[i]) /\ vals[i] \in Values(all[i])
  <2>1. CASE i = 1
    <3>1. m.type \in 0 .. 32
      BY NicknameMembers
    <3>2. Values(Type) = 0 .. 32
      BY DEF Values, Type, Uint, MAX_MESSAGE_TYPES
    <3> QED BY <1>3, <2>1, <3>1, <3>2, HeadFields
  <2>2. CASE i \in 2 .. 1 + a
    <3>1. PICK k \in 1 .. a : k = i - 1 /\ i = 1 + k
      BY <1>3, <2>2
    <3>2. all[1 + k] = Fixed(m)[k] /\ vals[1 + k] = m.values[k]
      BY <1>1, <1>3 DEF Segment, FixedLength, NamesLength
    <3> QED BY <1>5, <3>1, <3>2
  <2>3. CASE i \in 2 + a .. n
    <3>1. PICK k \in 1 .. c : k = i - (1 + a) /\ i = (1 + a) + k
      BY <1>2, <1>3, <2>3
    <3>2. all[(1 + a) + k] = Names(m)[k] /\ vals[(1 + a) + k] = NameValues(m)[k]
      BY <1>1, <1>3 DEF Segment, FixedLength, NamesLength
    <3> QED BY <1>6, <3>1, <3>2
  <2>4. i = 1 \/ i \in 2 .. 1 + a \/ i \in 2 + a .. n
    BY <1>2, <1>3
  <2> QED BY <2>1, <2>2, <2>3, <2>4
<1>8. n \in Nat
  BY <1>2, <1>3
<1>9. Suits(all, vals, n)
  BY <1>7, <1>8 DEF Suits
<1> QED BY <1>2, <1>3, <1>9

\* The values of the members and of the nicknames, one after the other.
LEMMA ValuesJoin ==
  ASSUME NEW m, WellFormed(m)
  PROVE  Part(m.values, Len(Fixed(m))) \o Part(NameValues(m), Len(Names(m))) = m.values
<1>1. PICK a, c : a = FixedLength(m) /\ c = NamesLength(m)
  OBVIOUS
<1>2. a \in Nat /\ c \in Nat
  BY <1>1, MessageParts
<1>3. PICK vs : vs = m.values
  OBVIOUS
<1>4. vs = [i \in 1 .. a + c |-> vs[i]]
  BY <1>1, <1>3 DEF WellFormed, Fixed, Names, FixedLength, NamesLength
<1> DEFINE V == {vs[i] : i \in 1 .. a + c}
<1>5. PICK p, q : p = Part(vs, a) /\ q = Part(NameValues(m), c)
  OBVIOUS
<1>6. PICK k \in Nat : k = a + c
  BY <1>2
<1>7. \A i \in 1 .. a : i \in 1 .. k
  BY <1>2, <1>6
<1>8. \A i \in 1 .. c : a + i \in 1 .. k
  BY <1>2, <1>6
<1>9. \A i \in 1 .. a : p[i] = vs[i]
  BY <1>5 DEF Part
<1>10. \A i \in 1 .. c : q[i] = vs[a + i]
  BY <1>1, <1>3, <1>5 DEF Part, NameValues, FixedLength, NamesLength
<1>11. p \in Seq(V) /\ Len(p) = a
  <2>1. \A i \in 1 .. a : vs[i] \in V
    BY <1>6, <1>7
  <2> HIDE DEF V
  <2>2. [i \in 1 .. a |-> vs[i]] \in Seq(V) /\ Len([i \in 1 .. a |-> vs[i]]) = a
    BY <1>2, <2>1
  <2> QED BY <1>5, <2>2 DEF Part
<1>12. q \in Seq(V) /\ Len(q) = c
  <2>1. \A i \in 1 .. c : vs[a + i] \in V
    BY <1>6, <1>8
  <2>2. q = [i \in 1 .. c |-> vs[a + i]]
    BY <1>1, <1>3, <1>5 DEF Part, NameValues, FixedLength, NamesLength
  <2> HIDE DEF V
  <2>3. [i \in 1 .. c |-> vs[a + i]] \in Seq(V) /\ Len([i \in 1 .. c |-> vs[a + i]]) = c
    BY <1>2, <2>1
  <2> QED BY <2>2, <2>3
<1>13. vs \in Seq(V) /\ Len(vs) = k
  <2>1. \A i \in 1 .. k : vs[i] \in V
    BY <1>6
  <2> HIDE DEF V
  <2>2. [i \in 1 .. k |-> vs[i]] \in Seq(V) /\ Len([i \in 1 .. k |-> vs[i]]) = k
    BY <1>6, <2>1
  <2> QED BY <1>4, <1>6, <2>2
<1>14. PICK j : j = p \o q
  OBVIOUS
<1>15. j \in Seq(V) /\ Len(j) = k /\ \A i \in 1 .. k : j[i] = IF i <= a THEN p[i] ELSE q[i - a]
  <2> HIDE DEF V
  <2>1. p \in Seq(V) /\ q \in Seq(V)
    BY <1>11, <1>12
  <2>2. /\ p \o q \in Seq(V) /\ Len(p \o q) = Len(p) + Len(q)
        /\ \A i \in 1 .. Len(p) + Len(q) : (p \o q)[i] = IF i <= Len(p) THEN p[i] ELSE q[i - Len(p)]
    BY <2>1, ConcatProperties
  <2> QED BY <1>6, <1>11, <1>12, <1>14, <2>2
<1>16. \A i \in 1 .. k : j[i] = vs[i]
  <2> TAKE i \in 1 .. k
  <2>1. CASE i <= a
    <3>1. i \in 1 .. a
      BY <1>2, <2>1
    <3> QED BY <1>9, <1>15, <2>1, <3>1
  <2>2. CASE ~ (i <= a)
    <3>1. i - a \in 1 .. c /\ a + (i - a) = i
      BY <1>2, <1>6, <2>2
    <3> QED BY <1>10, <1>15, <2>2, <3>1
  <2> QED BY <2>1, <2>2
<1>17. j = vs
  <2> HIDE DEF V
  <2> QED BY <1>13, <1>15, <1>16, SeqEqual
<1> QED BY <1>1, <1>3, <1>5, <1>14, <1>17 DEF FixedLength, NamesLength

\* A message goes through a chain of writers.
LEMMA MessageWritten ==
  ASSUME NEW w, Good(w), NEW m, WellFormed(m)
  PROVE  \E W, n : /\ n \in Nat /\ n = Len(AllMembers(m)) /\ WriteMessage(w, m) = W[n]
                   /\ Suits(AllMembers(m), AllValues(m), n)
                   /\ Chain(W, w, AllMembers(m), AllValues(m), n)
<1>1. PICK n : n = Len(AllMembers(m))
  OBVIOUS
<1>2. Suits(AllMembers(m), AllValues(m), Len(AllMembers(m)))
  BY MessageSuits
<1>3. PICK W : /\ Chain(W, w, AllMembers(m), AllValues(m), Len(AllMembers(m)))
               /\ Written(w, AllMembers(m), AllValues(m)) = W[Len(AllMembers(m))]
  BY <1>2, MembersAreWritten
<1>4. WriteMessage(w, m) = Written(w, AllMembers(m), AllValues(m))
  BY DEF WriteMessage, AllMembers, AllValues
<1>5. n \in Nat
  BY <1>1, <1>2 DEF Suits
<1> QED BY <1>1, <1>2, <1>3, <1>4, <1>5

\* Writing a message keeps the writer good and goes on from it.
LEMMA MessageGood ==
  ASSUME NEW w, Good(w), NEW m, WellFormed(m)
  PROVE  Good(WriteMessage(w, m)) /\ Grows(w, WriteMessage(w, m))
<1>1. PICK W, n : /\ n \in Nat /\ WriteMessage(w, m) = W[n]
                  /\ Suits(AllMembers(m), AllValues(m), n)
                  /\ Chain(W, w, AllMembers(m), AllValues(m), n)
  BY MessageWritten
<1>2. Linked(W, n)
  BY <1>1, ChainLinked
<1>3. Good(W[n]) /\ W[0] = w
  <2>1. n \in 0 .. n
    BY <1>1
  <2> QED BY <1>1, <2>1 DEF Chain
<1>4. Grows(W[0], W[n])
  <2>1. n \in 0 .. n
    BY <1>1
  <2>2. \A i \in 0 .. n : Grows(W[0], W[i]) /\ Grows(W[i], W[n])
    BY <1>1, <1>2, LinkedGrow
  <2> QED BY <2>1, <2>2
<1> QED BY <1>1, <1>3, <1>4

\* The reader finds the message where the writer put it.
LEMMA ReadsMessage ==
  ASSUME NEW w, Ready(w), NEW m, WellFormed(m), NEW x, x = WriteMessage(w, m), ~ x.failed,
         NEW B, Begins(x, B)
  PROVE  \E y : \A u : ReadMessage(ReaderAt(w, B, u)) = [reader |-> ReaderAt(x, B, y), message |-> m]
<1>1. Good(w)
  BY DEF Ready, Good
<1>2. PICK W, n : /\ n \in Nat /\ n = Len(AllMembers(m)) /\ x = W[n]
                  /\ Suits(AllMembers(m), AllValues(m), n)
                  /\ Chain(W, w, AllMembers(m), AllValues(m), n)
  BY <1>1, MessageWritten
<1>3. PICK a, c : a = FixedLength(m) /\ c = NamesLength(m)
  OBVIOUS
<1>4. PICK all, vals : all = AllMembers(m) /\ vals = AllValues(m)
  OBVIOUS
<1>5. /\ a \in Nat /\ c \in Nat /\ n = 1 + (a + c)
      /\ all[1] = Type /\ vals[1] = m.type
      /\ Segment(all, vals, n, 1, Fixed(m), m.values)
      /\ Segment(all, vals, n, 1 + a, Names(m), NameValues(m))
  <2>1. /\ a \in Nat /\ c \in Nat /\ Len(AllMembers(m)) = 1 + (a + c)
        /\ AllMembers(m)[1] = Type /\ AllValues(m)[1] = m.type
        /\ Segment(AllMembers(m), AllValues(m), 1 + (a + c), 1, Fixed(m), m.values)
        /\ Segment(AllMembers(m), AllValues(m), 1 + (a + c), 1 + a, Names(m), NameValues(m))
    BY <1>3, MessageParts
  <2> QED BY <1>2, <1>4, <2>1
<1>s. /\ Segment(all, vals, n, 1, Fixed(m), m.values)
      /\ Segment(all, vals, n, 1 + a, Names(m), NameValues(m))
  BY <1>5
<1>6. Suits(all, vals, n) /\ Chain(W, w, all, vals, n) /\ ~ W[n].failed /\ Begins(W[n], B)
  BY <1>2, <1>4
<1>7. Linked(W, n) /\ W[0] = w
  BY <1>6, ChainLinked DEF Chain
<1>8. \A u : ReadUint(ReaderAt(w, B, u), Type) = ReaderAt(W[1], B, m.type)
  <2> TAKE u
  <2>1. 1 \in 1 .. n /\ 1 \in 0 .. n /\ 1 - 1 = 0
    BY <1>5
  <2>2. W[1] = WriteMember(w, Type, m.type)
    BY <1>5, <1>6, <1>7, <2>1 DEF Chain
  <2>3. W[1] = WriteUint(w, Type, m.type)
    BY <2>2, HeadFields, UintKind
  <2>4. ~ W[1].failed /\ Begins(W[1], B)
    <3>1. \A i \in 0 .. n : /\ Ready(W[i]) /\ ~ W[i].failed
                            /\ \A C : Begins(W[n], C) => Begins(W[i], C)
      BY <1>2, <1>6, <1>7, LinkedReady
    <3> QED BY <1>6, <2>1, <3>1
  <2>5. m.type \in Type.min .. Type.max
    BY NicknameMembers, HeadFields
  <2>6. ~ WriteUint(w, Type, m.type).failed /\ Begins(WriteUint(w, Type, m.type), B)
    BY <2>3, <2>4
  <2>7. ReadUint(ReaderAt(w, B, u), Type) = ReaderAt(WriteUint(w, Type, m.type), B, m.type)
    BY <2>5, <2>6, HeadFields, ReadsUint
  <2> QED BY <2>3, <2>7
<1>9. PICK s : ReadMembers(ReaderAt(W[1], B, m.type), Fixed(m))
               = [reader |-> ReaderAt(W[1 + a], B, s), values |-> Part(m.values, a)]
  <2>1. ReadsTo(W, B, m.type, 1, Fixed(m), m.values)
    BY <1>s, <1>6, ReadsSegment
  <2> QED BY <1>3, <2>1 DEF FixedLength, ReadsTo
<1>10. PICK y : ReadMembers(ReaderAt(W[1 + a], B, s), Names(m))
                = [reader |-> ReaderAt(W[n], B, y), values |-> Part(NameValues(m), c)]
  <2>1. ReadsTo(W, B, s, 1 + a, Names(m), NameValues(m))
    BY <1>s, <1>6, ReadsSegment
  <2>2. (1 + a) + c = n
    BY <1>5
  <2> QED BY <1>3, <2>1, <2>2 DEF NamesLength, ReadsTo
<1>11. Nicknames(m.type, Fixed(m), Part(m.values, a)) = Names(m)
  <2>1. CASE m.type # PLAYER_CONNECTED
    BY <2>1 DEF Names, Nicknames
  <2>2. CASE m.type = PLAYER_CONNECTED
    <3>1. Len(Fixed(m)) = 7 /\ a = 7
      BY <1>3, <2>2, NicknameMembers DEF FixedLength
    <3>2. Part(m.values, a)[7] = m.values[7]
      BY <3>1 DEF Part
    <3> QED BY <2>2, <3>1, <3>2 DEF Names, Nicknames
  <2> QED BY <2>1, <2>2
<1>12. PICK typed, head, tail :
         /\ typed = ReaderAt(W[1], B, m.type)
         /\ head = [reader |-> ReaderAt(W[1 + a], B, s), values |-> Part(m.values, a)]
         /\ tail = [reader |-> ReaderAt(W[n], B, y), values |-> Part(NameValues(m), c)]
  OBVIOUS
<1>13. /\ \A u : ReadUint(ReaderAt(w, B, u), Type) = typed
       /\ ReadMembers(typed, Fixed(m)) = head
       /\ ReadMembers(head.reader, Nicknames(m.type, Fixed(m), head.values)) = tail
  BY <1>8, <1>9, <1>10, <1>11, <1>12
<1>14. typed.value = m.type /\ ~ typed.failed
  <2>1. PICK z, t : z = W[1] /\ t = m.type
    OBVIOUS
  <2>2. ReaderAt(z, B, t).value = t
    BY ReaderAtValue
  <2>3. ReaderAt(z, B, t).failed = FALSE
    BY ReaderAtFails
  <2> QED BY <1>12, <2>1, <2>2, <2>3
<1>15. m.type + 1 \in DOMAIN Factory
  <2>1. m.type \in 0 .. 14
    BY NicknameMembers
  <2>2. m.type + 1 \in 1 .. 15
    BY <2>1
  <2> QED BY <2>2, FactoryMembers
<1>16. \A u : ReadMessage(ReaderAt(w, B, u))
              = [reader |-> tail.reader,
                 message |-> [type |-> m.type, values |-> head.values \o tail.values]]
  <2> TAKE u
  <2>1. /\ ReadUint(ReaderAt(w, B, u), Type) = typed
        /\ ReadMembers(typed, Fixed(m)) = head
        /\ ReadMembers(head.reader, Nicknames(m.type, Fixed(m), head.values)) = tail
    BY <1>13
  <2> QED BY <2>1, <1>14, <1>15 DEF ReadMessage, Fixed
<1>17. head.values \o tail.values = m.values
  BY <1>3, <1>12, ValuesJoin DEF FixedLength, NamesLength
<1>18. m = [type |-> m.type, values |-> m.values]
  BY DEF WellFormed
<1>19. tail.reader = ReaderAt(x, B, y)
  BY <1>2, <1>12
<1> QED BY <1>16, <1>17, <1>18, <1>19

-----------------------------------------------------------------------------
(* The packet.                                                             *)

\* The size of the buffer in words.
BufferWords == BufferSize \div (WORD_SIZE \div 8)

\* The buffer is a number of words.
LEMMA BufferHasWords == BufferWords \in Nat
<1>1. WORD_SIZE \div 8 = 4
  BY DEF WORD_SIZE
<1>2. BufferSize \div 4 \in Nat
  BY NetMessagesAssumption
<1> QED BY <1>1, <1>2 DEF BufferWords

\* A new writer and a new reader are at the start of the buffer.
LEMMA NewWriter ==
  /\ Ready(Writer(BufferWords)) /\ Good(Writer(BufferWords)) /\ ~ Writer(BufferWords).failed
  /\ \A B : ReaderAt(Writer(BufferWords), B, 0) = Reader(B)
<1>1. Writer(BufferWords) \in Writers
  BY BufferHasWords DEF Writer, Writers
<1>2. Len(Writer(BufferWords).scratch) < WORD_SIZE /\ ~ Writer(BufferWords).failed
  BY DEF Writer, WORD_SIZE
<1>3. \A B : ReaderAt(Writer(BufferWords), B, 0) = Reader(B)
  BY DEF Writer, ReaderAt, Reader, Reading
<1> QED BY <1>1, <1>2, <1>3 DEF Ready, Good

\* What is left in the writer is completed to a word.
LEMMA LastWord ==
  ASSUME NEW s \in Seq(Bit), Len(s) < WORD_SIZE
  PROVE  LET n == Lesser(WORD_SIZE, Len(s))
         IN /\ SubSeq(s, 1, n) \o Zeros(WORD_SIZE - n) \in Word
            /\ \E t \in Seq(Bit) : SubSeq(s, 1, n) \o Zeros(WORD_SIZE - n) = s \o t
<1>1. PICK n \in Nat : n = Len(s) /\ n < WORD_SIZE
  BY LenProperties
<1>2. Lesser(WORD_SIZE, Len(s)) = n
  BY <1>1 DEF Lesser, WORD_SIZE
<1>3. SubSeq(s, 1, n) = s
  <2>1. PICK p : p = SubSeq(s, 1, n)
    OBVIOUS
  <2>2. 1 \in 1 .. Len(s) + 1 /\ n \in 1 - 1 .. Len(s) /\ n - 1 + 1 = n
    BY <1>1
  <2>3. p \in Seq(Bit) /\ Len(p) = n - 1 + 1 /\ \A i \in 1 .. n - 1 + 1 : p[i] = s[1 + i - 1]
    BY <2>1, <2>2, PartFacts
  <2>4. Len(p) = Len(s) /\ \A i \in 1 .. Len(p) : p[i] = s[i]
    BY <1>1, <2>2, <2>3
  <2>5. p = s
    BY <2>3, <2>4, SeqEqual
  <2> QED BY <2>1, <2>5
<1>4. PICK z : z = Zeros(WORD_SIZE - n)
  OBVIOUS
<1>5. WORD_SIZE - n \in Nat
  BY <1>1 DEF WORD_SIZE
<1>6. z \in Seq(Bit) /\ Len(z) = WORD_SIZE - n
  BY <1>4, <1>5, ZerosAreBits
<1>7. PICK c : c = s \o z
  OBVIOUS
<1>8. c \in Seq(Bit) /\ Len(c) = WORD_SIZE
  <2>1. s \o z \in Seq(Bit) /\ Len(s \o z) = Len(s) + Len(z)
    BY <1>6, ConcatProperties
  <2>2. n + (WORD_SIZE - n) = WORD_SIZE
    BY <1>1 DEF WORD_SIZE
  <2> QED BY <1>1, <1>6, <1>7, <2>1, <2>2
<1>9. c \in Word
  BY <1>8 DEF Word
<1> QED BY <1>2, <1>3, <1>4, <1>6, <1>7, <1>9

\* The words of a flushed writer begin the buffer of the packet.
LEMMA FlushBegins ==
  ASSUME NEW w, Ready(w), ~ FlushWriter(w).failed, NEW z \in Seq(Word)
  PROVE  Begins(w, FlushWriter(w).words \o z)
<1>0. w.words \in Seq(Word) /\ Len(w.words) \in Nat
  BY LenProperties DEF Ready, Writers
<1>1. PICK W, s, l : W = w.words /\ s = w.scratch /\ l = Len(W) /\ l \in Nat
  BY <1>0
<1>2. W \in Seq(Word) /\ s \in Seq(Bit) /\ Len(s) < WORD_SIZE
  BY <1>1 DEF Ready, Writers
<1>3. PICK d : d = FlushWriter(w).words
  OBVIOUS
<1>4. PICK B : B = d \o z
  OBVIOUS
<1>5. CASE s = <<>>
  <2>1. d = W
    BY <1>1, <1>3, <1>5 DEF FlushWriter
  <2>2. B \in Seq(Word) /\ l <= Len(B) /\ \A i \in 1 .. l : B[i] = W[i]
    <3>1. W \in Seq(Word) /\ z \in Seq(Word) /\ Len(z) \in Nat
      BY <1>2, LenProperties
    <3>2. /\ W \o z \in Seq(Word) /\ Len(W \o z) = Len(W) + Len(z)
          /\ \A i \in 1 .. Len(W) + Len(z) : (W \o z)[i] = IF i <= Len(W) THEN W[i] ELSE z[i - Len(W)]
      BY <3>1, ConcatProperties
    <3> QED BY <1>1, <1>4, <2>1, <3>1, <3>2
  <2> QED BY <1>1, <1>3, <1>4, <1>5, <2>2 DEF Begins
<1>6. CASE s # <<>>
  <2>1. PICK b : b = LET n == Lesser(WORD_SIZE, Len(s)) IN SubSeq(s, 1, n) \o Zeros(WORD_SIZE - n)
    OBVIOUS
  <2>2. b \in Word /\ \E t \in Seq(Bit) : b = s \o t
    BY <1>2, <2>1, LastWord
  <2>3. d = Append(W, b)
    <3>1. ~ w.failed
      BY DEF FlushWriter
    <3>2. FlushWriter(w) = FlushBits(w)
      BY <1>1, <1>6, <3>1 DEF FlushWriter
    <3>3. ~ (Len(w.words) >= w.size)
      <4>1. Len(w.words) >= w.size => FlushBits(w).failed
        <5>1. ASSUME Len(w.words) >= w.size PROVE FlushBits(w) = [w EXCEPT !.failed = TRUE]
          BY <5>1 DEF FlushBits
        <5>2. w \in Writers
          BY DEF Ready
        <5> QED BY <5>1, <5>2 DEF Writers
      <4> QED BY <3>2, <4>1
    <3>4. FlushBits(w).words = Append(w.words, b)
      <4>1. w \in Writers
        BY DEF Ready
      <4> QED BY <1>1, <2>1, <3>3, <4>1 DEF FlushBits, Writers
    <3> QED BY <1>1, <1>3, <3>2, <3>4
  <2>4. d \in Seq(Word) /\ Len(d) = l + 1 /\ (\A i \in 1 .. l : d[i] = W[i]) /\ d[l + 1] = b
    <3>1. W \in Seq(Word) /\ b \in Word
      BY <1>2, <2>2
    <3>2. /\ Append(W, b) \in Seq(Word) /\ Len(Append(W, b)) = Len(W) + 1
          /\ \A i \in 1 .. Len(W) : Append(W, b)[i] = W[i]
          /\ Append(W, b)[Len(W) + 1] = b
      BY <3>1, AppendProperties
    <3> QED BY <1>1, <2>3, <3>2
  <2>5. /\ B \in Seq(Word) /\ l < Len(B) /\ l <= Len(B)
        /\ (\A i \in 1 .. l : B[i] = W[i]) /\ B[l + 1] = b
    <3>1. d \in Seq(Word) /\ z \in Seq(Word) /\ Len(z) \in Nat
      BY <2>4, LenProperties
    <3>2. /\ d \o z \in Seq(Word) /\ Len(d \o z) = Len(d) + Len(z)
          /\ \A i \in 1 .. Len(d) + Len(z) : (d \o z)[i] = IF i <= Len(d) THEN d[i] ELSE z[i - Len(d)]
      BY <3>1, ConcatProperties
    <3>3. PICK k \in Nat : k = Len(z)
      BY <3>1
    <3>4. /\ \A i \in 1 .. l : i \in 1 .. (l + 1) + k /\ i <= l + 1
          /\ l + 1 \in 1 .. (l + 1) + k /\ l + 1 <= l + 1 /\ l < (l + 1) + k /\ l <= (l + 1) + k
      BY <1>1, <3>3
    <3> QED BY <1>4, <2>4, <3>2, <3>3, <3>4
  <2> QED BY <1>1, <1>3, <1>4, <2>2, <2>5 DEF Begins
<1> QED BY <1>5, <1>6

\* The rest of the buffer.
LEMMA RestOfBuffer ==
  ASSUME NEW k \in Int
  PROVE  [i \in 1 .. k |-> Zeros(WORD_SIZE)] \in Seq(Word)
<1>1. Zeros(WORD_SIZE) \in Word
  BY DEF Zeros, Word, Bit
<1>2. CASE k \in Nat
  BY <1>1, <1>2
<1>3. CASE k < 0
  <2>1. 1 .. k = 1 .. 0
    BY <1>3
  <2>2. [i \in 1 .. 0 |-> Zeros(WORD_SIZE)] \in Seq(Word)
    BY <1>1
  <2> QED BY <2>1, <2>2
<1> QED BY <1>2, <1>3

\* The writers of a packet: of the header, and after each message.
PacketChain(W, msgs, n) ==
  /\ W[0] = WriteUint(Writer(BufferWords), Count, n)
  /\ \A i \in 1 .. n : W[i] = WriteMessage(W[i - 1], msgs[i])
  /\ \A i \in 0 .. n : Good(W[i])

\* The words that the writers of a packet leave, when none of them fails.
Sealed(msgs, n, words) ==
  \E W : /\ PacketChain(W, msgs, n) /\ ~ FlushWriter(W[n]).failed
         /\ words = FlushWriter(W[n]).words

\* The n messages of a packet.
Packed(msgs, n) ==
  msgs \in Seq(SampleMessages) /\ n = Len(msgs) /\ n <= MAX_MESSAGES_PER_PACKET

\* The words of a packet and the rest of its buffer.
Delivers(words, z, B) == z \in Seq(Word) /\ B = words \o z

\* Each message is read where it was written.
ReadsEach(W, msgs, n, B) ==
  \A i \in 1 .. n : \E y : \A u :
    ReadMessage(ReaderAt(W[i - 1], B, u)) = [reader |-> ReaderAt(W[i], B, y), message |-> msgs[i]]

\* The messages of a packet are few and well formed.
LEMMA PackedCount ==
  ASSUME NEW msgs, NEW n, Packed(msgs, n)
  PROVE  /\ n \in 0 .. MAX_MESSAGES_PER_PACKET /\ n \in Nat
         /\ \A i \in 1 .. n : WellFormed(msgs[i])
<1>1. n \in Nat /\ n <= 5
  BY LenProperties DEF Packed, MAX_MESSAGES_PER_PACKET
<1>2. \A i \in 1 .. n : msgs[i] \in SampleMessages
  BY DEF Packed
<1> QED BY <1>1, <1>2, SampleMessagesAssumption DEF MAX_MESSAGES_PER_PACKET

\* The number of messages fits in the header.
LEMMA HeaderGood ==
  ASSUME NEW n \in 0 .. MAX_MESSAGES_PER_PACKET
  PROVE  Good(WriteUint(Writer(BufferWords), Count, n)) /\ n \in Count.min .. Count.max
<1>1. n \in Count.min .. Count.max
  BY HeadFields DEF MAX_MESSAGES_PER_PACKET
<1>2. Good(WriteUint(Writer(BufferWords), Count, n))
  BY <1>1, HeadFields, NewWriter, UintGood
<1> QED BY <1>1, <1>2

\* The writers as packet_seal goes through them.
PacketWriters(msgs) ==
  LET n == Len(msgs)
      header == WriteUint(Writer(BufferSize \div (WORD_SIZE \div 8)), Count, n)
      w[i \in 0 .. n] == IF i = 0 THEN header ELSE WriteMessage(w[i - 1], msgs[i])
  IN w

\* packet_seal goes through a chain of writers.
LEMMA SealWrites ==
  ASSUME NEW msgs, NEW m, Packed(msgs, m)
  PROVE  PacketChain(PacketWriters(msgs), msgs, m)
<1>1. PICK n : n = m /\ n = Len(msgs)
  BY DEF Packed
<1>2. n \in 0 .. MAX_MESSAGES_PER_PACKET /\ n \in Nat
  BY <1>1, PackedCount
<1>3. \A i \in 1 .. n : WellFormed(msgs[i])
  BY <1>1, PackedCount
<1>4. PICK header : header = WriteUint(Writer(BufferWords), Count, n) /\ Good(header)
  BY <1>2, HeaderGood
<1> DEFINE A == {x \in Writers : Good(x)}
           G == [i \in 1 .. n |-> [x \in A |-> WriteMessage(x, msgs[i])]]
           F(h) == [i \in 0 .. n |-> IF i = 0 THEN header ELSE WriteMessage(h[i - 1], msgs[i])]
<1>5. Stepwise(n, A, header, G)
  <2>1. header \in A
    BY <1>4 DEF Good
  <2>2. ASSUME NEW i \in 1 .. n, NEW x \in A PROVE WriteMessage(x, msgs[i]) \in A
    <3>1. Good(WriteMessage(x, msgs[i]))
      BY <1>3, MessageGood
    <3> QED BY <3>1 DEF Good
  <2> HIDE DEF A
  <2> QED BY <1>2, <2>1, <2>2 DEF Stepwise
<1>6. PICK e : Iteration(e, n, A, header, G)
  <2> HIDE DEF A, G
  <2> QED BY <1>5, IterationExists
<1>7. \A i \in 1 .. n : e[i] = WriteMessage(e[i - 1], msgs[i])
  <2> TAKE i \in 1 .. n
  <2>1. e[i] = G[i][e[i - 1]] /\ e[i - 1] \in A
    <3> HIDE DEF A, G
    <3>1. i - 1 \in 0 .. n
      BY <1>2
    <3> QED BY <1>6, <3>1 DEF Iteration
  <2> HIDE DEF A
  <2> QED BY <2>1
<1>8. e = F(e)
  <2> HIDE DEF A, G
  <2> QED BY <1>6, <1>7 DEF Iteration
<1>9. PICK h : h = F(h) /\ h = (CHOOSE x : x = F(x))
  <2> HIDE DEF F
  <2> QED BY <1>8
<1>10. h[0] = header /\ \A i \in 1 .. n : h[i] = WriteMessage(h[i - 1], msgs[i])
  <2>1. h[0] = header
    BY <1>2, <1>9
  <2>2. ASSUME NEW i \in 1 .. n PROVE h[i] = WriteMessage(h[i - 1], msgs[i])
    <3>1. i \in 0 .. n /\ i # 0
      BY <1>2
    <3> QED BY <1>9, <3>1
  <2> QED BY <2>1, <2>2
<1>11. \A i \in 0 .. n : Good(h[i])
  <2>1. \A i \in 0 .. n : h[i] = e[i]
    <3>1. h[0] = e[0]
      BY <1>6, <1>10 DEF Iteration
    <3>2. \A i \in 1 .. n : h[i - 1] = e[i - 1] => h[i] = e[i]
      BY <1>7, <1>10
    <3> HIDE DEF F, A, G
    <3> QED
      <4>1. Together(h, e, n)
        BY <3>1, <3>2 DEF Together
      <4>2. n \in Nat
        BY <1>2
      <4> QED BY <4>1, <4>2, SameSteps
  <2>2. \A i \in 0 .. n : e[i] \in A
    <3> HIDE DEF A, G
    <3> QED BY <1>6 DEF Iteration
  <2> QED BY <2>1, <2>2
<1>12. PacketChain(h, msgs, n)
  BY <1>4, <1>10, <1>11 DEF PacketChain
<1>13. PacketWriters(msgs) = (CHOOSE x : x = F(x))
  BY <1>1, <1>4 DEF PacketWriters, BufferWords
<1> QED BY <1>1, <1>9, <1>12, <1>13

\* The readers of a packet.
LEMMA PacketReads ==
  ASSUME NEW msgs, NEW n, Packed(msgs, n), NEW W, PacketChain(W, msgs, n),
         ~ FlushWriter(W[n]).failed, NEW z, NEW B, Delivers(FlushWriter(W[n]).words, z, B)
  PROVE  ReadUint(Reader(B), Count) = ReaderAt(W[0], B, n) /\ ReadsEach(W, msgs, n, B)
<1>1. n \in 0 .. MAX_MESSAGES_PER_PACKET /\ n \in Nat
  BY PackedCount
<1>2. \A i \in 1 .. n : WellFormed(msgs[i])
  BY PackedCount
<1>3. \A i \in 0 .. n : Good(W[i])
  BY DEF PacketChain
<1>4. Linked(W, n)
  <2>1. ASSUME NEW i \in 1 .. n PROVE Grows(W[i - 1], W[i])
    <3>1. i - 1 \in 0 .. n
      BY <1>1
    <3>2. Good(W[i - 1])
      BY <1>3, <3>1
    <3>3. Grows(W[i - 1], WriteMessage(W[i - 1], msgs[i]))
      BY <1>2, <3>2, MessageGood
    <3> QED BY <3>3 DEF PacketChain
  <2> QED BY <2>1 DEF Linked
<1>5. 0 \in 0 .. n /\ n \in 0 .. n
  BY <1>1
<1>6. ~ W[n].failed /\ Ready(W[n])
  <2>1. W[n].failed => FlushWriter(W[n]) = W[n]
    BY DEF FlushWriter
  <2>2. ~ W[n].failed
    BY <2>1
  <2> QED BY <1>3, <1>5, <2>2 DEF Good
<1>7. Begins(W[n], B)
  BY <1>6, FlushBegins DEF Delivers
<1>8. Ready(W[0])
  <2>1. Grows(W[0], W[n])
    <3>1. \A i \in 0 .. n : Grows(W[0], W[i]) /\ Grows(W[i], W[n])
      BY <1>1, <1>4, LinkedGrow
    <3> QED BY <1>5, <3>1
  <2>2. ~ W[0].failed
    BY <1>6, <2>1 DEF Grows
  <2> QED BY <1>3, <1>5, <2>2 DEF Good
<1>9. \A i \in 0 .. n : Ready(W[i]) /\ ~ W[i].failed /\ Begins(W[i], B)
  <2>1. \A i \in 0 .. n : /\ Ready(W[i]) /\ ~ W[i].failed
                          /\ \A C : Begins(W[n], C) => Begins(W[i], C)
    BY <1>1, <1>4, <1>6, <1>8, LinkedReady
  <2> QED BY <1>7, <2>1
<1>10. ReadUint(Reader(B), Count) = ReaderAt(W[0], B, n)
  <2>1. PICK x, v : x = Writer(BufferWords) /\ v = W[0]
    OBVIOUS
  <2>2. v = WriteUint(x, Count, n)
    BY <2>1 DEF PacketChain
  <2>3. Ready(x) /\ ReaderAt(x, B, 0) = Reader(B)
    BY <2>1, NewWriter
  <2>4. ~ v.failed /\ Begins(v, B)
    BY <1>5, <1>9, <2>1
  <2>5. n \in Count.min .. Count.max
    BY <1>1, HeaderGood
  <2>6. ~ WriteUint(x, Count, n).failed /\ Begins(WriteUint(x, Count, n), B)
    BY <2>2, <2>4
  <2>7. ReadUint(ReaderAt(x, B, 0), Count) = ReaderAt(WriteUint(x, Count, n), B, n)
    BY <2>3, <2>5, <2>6, HeadFields, ReadsUint
  <2> QED BY <2>1, <2>2, <2>3, <2>7
<1>11. ASSUME NEW i \in 1 .. n
       PROVE  \E y : \A u : ReadMessage(ReaderAt(W[i - 1], B, u))
                            = [reader |-> ReaderAt(W[i], B, y), message |-> msgs[i]]
  <2>1. PICK x, v, m : x = W[i - 1] /\ v = W[i] /\ m = msgs[i]
    OBVIOUS
  <2>2. v = WriteMessage(x, m)
    BY <2>1 DEF PacketChain
  <2>3. Ready(x) /\ ~ v.failed /\ Begins(v, B) /\ WellFormed(m)
    <3>1. i - 1 \in 0 .. n /\ i \in 0 .. n
      BY <1>1
    <3> QED BY <1>2, <1>9, <2>1, <3>1
  <2>4. \E y : \A u : ReadMessage(ReaderAt(x, B, u)) = [reader |-> ReaderAt(v, B, y), message |-> m]
    BY <2>2, <2>3, ReadsMessage
  <2> QED BY <2>1, <2>4
<1> QED BY <1>10, <1>11 DEF ReadsEach

\* What the peer reads from the words, as packet_create_from_buffer goes through them.
ReadAll(counted, n) ==
  LET read[i \in 0 .. n] ==
        IF i = 0 THEN [reader |-> counted, message |-> "NULL"] ELSE ReadMessage(read[i - 1].reader)
  IN [reader |-> IF read[n].reader.failed THEN "NULL" ELSE "read",
      messages |-> [i \in 1 .. n |-> read[i].message]]
ReadPacket(words) ==
  LET size == BufferSize \div (WORD_SIZE \div 8)
      counted == ReadUint(Reader(words \o [i \in 1 .. size - Len(words) |-> Zeros(WORD_SIZE)]), Count)
  IN ReadAll(counted, counted.value)

\* The peer reads the messages of a sealed packet.
LEMMA ReadsPacket ==
  ASSUME NEW msgs, NEW n, Packed(msgs, n), NEW words, Sealed(msgs, n, words), Len(words) \in Int
  PROVE  ReadPacket(words) = [reader |-> "read", messages |-> msgs]
<1>1. n \in Nat
  BY PackedCount
<1>2. PICK W : PacketChain(W, msgs, n) /\ ~ FlushWriter(W[n]).failed /\ words = FlushWriter(W[n]).words
  BY DEF Sealed
<1>3. PICK z : z = [i \in 1 .. BufferWords - Len(words) |-> Zeros(WORD_SIZE)] /\ z \in Seq(Word)
  <2>1. BufferWords - Len(words) \in Int
    BY BufferHasWords
  <2> QED BY <2>1, RestOfBuffer
<1>4. PICK B : B = words \o z
  OBVIOUS
<1>a. Delivers(FlushWriter(W[n]).words, z, B)
  BY <1>2, <1>3, <1>4 DEF Delivers
<1>b. ReadUint(Reader(B), Count) = ReaderAt(W[0], B, n) /\ ReadsEach(W, msgs, n, B)
  BY <1>2, <1>a, PacketReads
<1>5. /\ n \in Nat
      /\ ReadUint(Reader(B), Count) = ReaderAt(W[0], B, n)
      /\ \A i \in 1 .. n : \E y : \A u :
           ReadMessage(ReaderAt(W[i - 1], B, u)) = [reader |-> ReaderAt(W[i], B, y), message |-> msgs[i]]
  BY <1>1, <1>b DEF ReadsEach
<1> DEFINE Y(i) == CHOOSE y : \A u : ReadMessage(ReaderAt(W[i - 1], B, u))
                                     = [reader |-> ReaderAt(W[i], B, y), message |-> msgs[i]]
<1>6. \A i \in 1 .. n : \A u :
        ReadMessage(ReaderAt(W[i - 1], B, u)) = [reader |-> ReaderAt(W[i], B, Y(i)), message |-> msgs[i]]
  <2> TAKE i \in 1 .. n
  <2>1. \E y : \A u : ReadMessage(ReaderAt(W[i - 1], B, u))
                      = [reader |-> ReaderAt(W[i], B, y), message |-> msgs[i]]
    BY <1>5
  <2> QED BY <2>1
<1> HIDE DEF Y
<1>7. PICK counted : counted = ReadUint(Reader(B), Count)
  OBVIOUS
<1>8. counted = ReaderAt(W[0], B, n) /\ counted.value = n
  BY <1>5, <1>7, ReaderAtValue
<1> DEFINE F(h) == [i \in 0 .. n |-> IF i = 0 THEN [reader |-> counted, message |-> "NULL"]
                                     ELSE ReadMessage(h[i - 1].reader)]
<1>9. PICK e : e = [i \in 0 .. n |->
                      IF i = 0 THEN [reader |-> counted, message |-> "NULL"]
                      ELSE [reader |-> ReaderAt(W[i], B, Y(i)), message |-> msgs[i]]]
  OBVIOUS
<1>10. e[0] = [reader |-> counted, message |-> "NULL"]
  BY <1>5, <1>9
<1>11. \A i \in 0 .. n : \E u : e[i].reader = ReaderAt(W[i], B, u)
  <2> TAKE i \in 0 .. n
  <2>1. CASE i = 0
    BY <1>8, <1>10, <2>1
  <2>2. CASE i # 0
    BY <1>9, <2>2
  <2> QED BY <2>1, <2>2
<1>12. ASSUME NEW i \in 1 .. n
       PROVE  /\ e[i] = [reader |-> ReaderAt(W[i], B, Y(i)), message |-> msgs[i]]
              /\ e[i] = ReadMessage(e[i - 1].reader)
  <2>1. i \in 0 .. n /\ i # 0 /\ i - 1 \in 0 .. n
    BY <1>5
  <2>2. e[i] = [reader |-> ReaderAt(W[i], B, Y(i)), message |-> msgs[i]]
    BY <1>9, <2>1
  <2>3. PICK u : e[i - 1].reader = ReaderAt(W[i - 1], B, u)
    BY <1>11, <2>1
  <2>4. ReadMessage(ReaderAt(W[i - 1], B, u)) = [reader |-> ReaderAt(W[i], B, Y(i)), message |-> msgs[i]]
    BY <1>6
  <2> QED BY <2>2, <2>3, <2>4
<1>13. e = F(e)
  <2>1. \A i \in 1 .. n : e[i] = ReadMessage(e[i - 1].reader)
    BY <1>12
  <2>2. \A i \in 0 .. n : i # 0 => i \in 1 .. n
    BY <1>5
  <2> QED BY <1>9, <1>10, <2>1, <2>2
<1>14. PICK h : h = F(h) /\ h = (CHOOSE x : x = F(x))
  <2> HIDE DEF F
  <2> QED BY <1>13
<1>15. \A i \in 0 .. n : h[i] = e[i]
  <2>1. h[0] = e[0]
    BY <1>5, <1>10, <1>14
  <2>2. ASSUME NEW i \in 1 .. n, h[i - 1] = e[i - 1] PROVE h[i] = e[i]
    <3>1. i \in 0 .. n /\ i # 0
      BY <1>5
    <3>2. h[i] = ReadMessage(h[i - 1].reader)
      BY <1>14, <3>1
    <3> QED BY <1>12, <2>2, <3>2
  <2> HIDE DEF F
  <2> QED
    <3>1. Together(h, e, n)
      BY <2>1, <2>2 DEF Together
    <3>2. n \in Nat
      BY <1>5
    <3> QED BY <3>1, <3>2, SameSteps
<1>16. ~ h[n].reader.failed
  <2>1. n \in 0 .. n
    BY <1>5
  <2>2. PICK u : h[n].reader = ReaderAt(W[n], B, u)
    BY <1>11, <1>15, <2>1
  <2>3. ReaderAt(W[n], B, u).failed = FALSE
    BY ReaderAtFails
  <2> QED BY <2>2, <2>3
<1>17. [i \in 1 .. n |-> h[i].message] = msgs
  <2>1. \A i \in 1 .. n : h[i].message = msgs[i]
    <3> TAKE i \in 1 .. n
    <3>1. i \in 0 .. n
      BY <1>5
    <3>2. h[i] = [reader |-> ReaderAt(W[i], B, Y(i)), message |-> msgs[i]]
      BY <1>12, <1>15, <3>1
    <3> QED BY <3>2
  <2>2. msgs = [i \in 1 .. n |-> msgs[i]]
    BY DEF Packed
  <2>3. [i \in 1 .. n |-> h[i].message] = [i \in 1 .. n |-> msgs[i]]
    BY <2>1
  <2> QED BY <2>2, <2>3
<1>18. ReadPacket(words)
       = [reader |-> IF h[n].reader.failed THEN "NULL" ELSE "read",
          messages |-> [i \in 1 .. n |-> h[i].message]]
  <2>1. counted = ReadUint(Reader(words \o [i \in 1 .. (BufferSize \div (WORD_SIZE \div 8)) - Len(words) |->
                                            Zeros(WORD_SIZE)]), Count)
    BY <1>3, <1>4, <1>7 DEF BufferWords
  <2>2. counted.value = n /\ h = (CHOOSE x : x = F(x))
    BY <1>8, <1>14
  <2>3. ReadPacket(words) = ReadAll(counted, counted.value)
    BY <2>1 DEF ReadPacket
  <2>4. ReadAll(counted, n)
        = LET read == CHOOSE x : x = F(x)
          IN [reader |-> IF read[n].reader.failed THEN "NULL" ELSE "read",
              messages |-> [i \in 1 .. n |-> read[i].message]]
    BY DEF ReadAll
  <2> HIDE DEF F
  <2> QED BY <2>2, <2>3, <2>4
<1> QED BY <1>16, <1>17, <1>18

-----------------------------------------------------------------------------

\* The inductive invariant: only an open packet takes messages, nothing is received from
\* it, and the buffer of a sealed one is what its writers left.
PacketInv ==
  /\ packet \in [state : {"open", "sealed", "failed"}, messages : Seq(SampleMessages),
                 number_of_bits : {packet.number_of_bits}]
  /\ Packed(packet.messages, Len(packet.messages))
  /\ packet.state # "sealed" => received = Nothing
  /\ packet.state = "sealed" => Sealed(packet.messages, Len(packet.messages), buffer) /\ Len(buffer) \in Int
  /\ ReadsBackWhatWasPacked

\* The invariant holds of a packet that is created.
LEMMA PacketInvInit == PacketInit => PacketInv
<1>1. PacketInit => Packed(packet.messages, Len(packet.messages))
  BY DEF PacketInit, Packed, MAX_MESSAGES_PER_PACKET
<1> QED BY <1>1 DEF PacketInit, PacketInv, ReadsBackWhatWasPacked

\* A message more, of at most MAX_MESSAGES_PER_PACKET.
LEMMA AddMessageKeeps ==
  ASSUME PacketInv, NEW m \in SampleMessages, AddMessage(m)
  PROVE  PacketInv'
<1>1. packet.state = "open" /\ received = Nothing /\ buffer' = buffer /\ received' = received
  BY DEF AddMessage, PacketInv
<1>2. PICK b : packet' = [packet EXCEPT !.messages = Append(packet.messages, m), !.number_of_bits = b]
  BY DEF AddMessage
<1>3. /\ packet'.state = "open" /\ packet'.messages = Append(packet.messages, m)
      /\ packet' \in [state : {"open", "sealed", "failed"}, messages : Seq(SampleMessages),
                      number_of_bits : {packet'.number_of_bits}]
  <2>1. Append(packet.messages, m) \in Seq(SampleMessages)
    BY AppendProperties DEF PacketInv
  <2> QED BY <1>1, <1>2, <2>1 DEF PacketInv
<1>4. Packed(Append(packet.messages, m), Len(Append(packet.messages, m)))
  <2>1. PICK s : s = packet.messages /\ s \in Seq(SampleMessages)
    BY DEF PacketInv, Packed
  <2>2. PICK k : k = Len(s) /\ k \in Nat
    BY <2>1, LenProperties
  <2>3. k + 1 <= 5
    <3>1. k + 1 <= Lesser(MaxMessages, MAX_MESSAGES_PER_PACKET)
      BY <2>1, <2>2 DEF AddMessage
    <3> QED BY <2>2, <3>1, NetMessagesAssumption DEF Lesser, MAX_MESSAGES_PER_PACKET
  <2>4. Append(s, m) \in Seq(SampleMessages) /\ Len(Append(s, m)) = Len(s) + 1
    BY <2>1, AppendProperties
  <2> QED BY <2>1, <2>2, <2>3, <2>4 DEF Packed, MAX_MESSAGES_PER_PACKET
<1> QED BY <1>1, <1>3, <1>4 DEF PacketInv, ReadsBackWhatWasPacked

\* A packet that is sealed has gone through its writers; one that fails is not sent.
LEMMA SealKeeps ==
  ASSUME PacketInv, Seal
  PROVE  PacketInv'
<1>1. PICK n, w, done : /\ n = Len(packet.messages) /\ w = PacketWriters(packet.messages)
                        /\ done = FlushWriter(w[n])
  OBVIOUS
<1>2. /\ packet' = [packet EXCEPT !.state = IF done.failed THEN "failed" ELSE "sealed"]
      /\ buffer' = done.words /\ received' = received /\ packet.state = "open"
  BY <1>1 DEF Seal, PacketWriters
<1>3. received = Nothing /\ received' = Nothing
  BY <1>2 DEF PacketInv
<1>4. /\ packet'.state = (IF done.failed THEN "failed" ELSE "sealed")
      /\ packet'.messages = packet.messages
      /\ packet' \in [state : {"open", "sealed", "failed"}, messages : Seq(SampleMessages),
                      number_of_bits : {packet'.number_of_bits}]
  BY <1>2 DEF PacketInv
<1>5. Packed(packet.messages, n)
  BY <1>1 DEF PacketInv
<1>6. PacketChain(w, packet.messages, n)
  BY <1>1, <1>5, SealWrites
<1>7. ~ done.failed => Sealed(packet.messages, n, done.words)
  BY <1>1, <1>6 DEF Sealed
<1>8. Len(done.words) \in Int
  <2>1. Good(w[n])
    <3>1. n \in Nat
      BY <1>5, PackedCount
    <3>2. n \in 0 .. n
      BY <3>1
    <3> QED BY <1>6, <3>2 DEF PacketChain
  <2>2. PICK v : v = w[n] /\ v \in Writers
    BY <2>1 DEF Good
  <2>3. done = v \/ done = FlushBits(v)
    BY <1>1, <2>2 DEF FlushWriter
  <2>4. \E b : done.words = v.words \/ done.words = Append(v.words, b)
    <3>1. FlushBits(v).words = v.words \/ \E b : FlushBits(v).words = Append(v.words, b)
      BY <2>2 DEF FlushBits, Writers
    <3> QED BY <2>3, <3>1
  <2> QED BY <2>2, <2>4 DEF Writers
<1> QED BY <1>1, <1>2, <1>3, <1>4, <1>5, <1>7, <1>8 DEF PacketInv, ReadsBackWhatWasPacked

\* The peer reads what the writers wrote.
LEMMA ReceiveKeeps ==
  ASSUME PacketInv, Receive
  PROVE  PacketInv'
<1>1. packet' = packet /\ buffer' = buffer /\ packet.state = "sealed"
  BY DEF Receive
<1>2. Packed(packet.messages, Len(packet.messages)) /\ Sealed(packet.messages, Len(packet.messages), buffer) /\ Len(buffer) \in Int
  BY <1>1 DEF PacketInv
<1>3. received' = ReadPacket(buffer)
  BY DEF Receive, ReadPacket, ReadAll
<1>4. received' = [reader |-> "read", messages |-> packet.messages]
  BY <1>2, <1>3, ReadsPacket
<1> QED BY <1>1, <1>4 DEF PacketInv, ReadsBackWhatWasPacked

\* For any well-formed messages and a buffer of any size: the peer reads the messages
\* that were packed, in their order, each with its members (packet_seal,
\* packet_create_from_buffer).
THEOREM ReadingBackWhatWasPacked ==
  PacketInit /\ [][PacketNext]_packetVars => []ReadsBackWhatWasPacked
<1>1. PacketInv /\ [PacketNext]_packetVars => PacketInv'
  <2> SUFFICES ASSUME PacketInv, [PacketNext]_packetVars PROVE PacketInv'
    OBVIOUS
  <2>1. CASE \E m \in SampleMessages : AddMessage(m)
    BY <2>1, AddMessageKeeps
  <2>2. CASE Seal
    BY <2>2, SealKeeps
  <2>3. CASE Receive
    BY <2>3, ReceiveKeeps
  <2>4. CASE UNCHANGED packetVars
    BY <2>4 DEF packetVars, PacketInv, ReadsBackWhatWasPacked
  <2> QED BY <2>1, <2>2, <2>3, <2>4 DEF PacketNext
<1>2. PacketInv => ReadsBackWhatWasPacked
  BY DEF PacketInv
<1> QED BY <1>1, <1>2, PacketInvInit, PTL

-----------------------------------------------------------------------------
(* How far a writer gets.                                                  *)

\* The bits that were written, and those a member takes up.
Pos(w) == WORD_SIZE * Len(w.words) + Len(w.scratch)
Fits(w, n) == Pos(w) + n <= WORD_SIZE * w.size

\* A writer with room for n bits goes on by n bits.
Moves(w, v, n) ==
  Ready(w) /\ ~ w.failed /\ Fits(w, n) =>
    Ready(v) /\ ~ v.failed /\ v.size = w.size /\ Pos(v) = Pos(w) + n

\* The position of a writer and the lengths it is made of.
LEMMA PosIs ==
  ASSUME NEW w, Ready(w)
  PROVE  /\ Len(w.words) \in Nat /\ Len(w.scratch) \in Nat /\ Len(w.scratch) < 32 /\ w.size \in Nat
         /\ Pos(w) = 32 * Len(w.words) + Len(w.scratch) /\ Pos(w) \in Nat
<1>1. w.words \in Seq(Word) /\ w.scratch \in Seq(Bit) /\ w.size \in Nat
  BY DEF Ready, Writers
<1>2. Len(w.words) \in Nat /\ Len(w.scratch) \in Nat /\ Len(w.scratch) < WORD_SIZE
  BY <1>1, LenProperties DEF Ready
<1>3. WORD_SIZE = 32
  BY DEF WORD_SIZE
<1>4. PICK l, s : l = Len(w.words) /\ s = Len(w.scratch)
  OBVIOUS
<1>5. Pos(w) = 32 * l + s
  BY <1>3, <1>4 DEF Pos
<1>6. l \in Nat /\ s \in Nat /\ s < 32 /\ 32 * l + s \in Nat
  <2>1. l \in Nat /\ s \in Nat
    BY <1>2, <1>4
  <2>2. s < 32
    BY <1>2, <1>3, <1>4
  <2> QED BY <2>1, <2>2
<1> QED BY <1>1, <1>4, <1>5, <1>6

\* What has room.
LEMMA FitsIs ==
  ASSUME NEW w, NEW n
  PROVE  Fits(w, n) <=> Pos(w) + n <= 32 * w.size
BY Zenon DEF Fits, WORD_SIZE

\* Going on twice.
LEMMA MovesOn ==
  ASSUME NEW w, NEW v, NEW x, NEW n \in Nat, NEW k \in Nat, Moves(w, v, n), Moves(v, x, k)
  PROVE  Moves(w, x, n + k)
<1> SUFFICES ASSUME Ready(w), ~ w.failed, Fits(w, n + k)
             PROVE  Ready(x) /\ ~ x.failed /\ x.size = w.size /\ Pos(x) = Pos(w) + (n + k)
  BY DEF Moves
<1>a. n + k \in Nat
  OBVIOUS
<1>b. /\ Pos(w) \in Nat /\ w.size \in Nat
      /\ Fits(w, n) <=> Pos(w) + n <= 32 * w.size
      /\ Fits(w, n + k) <=> Pos(w) + (n + k) <= 32 * w.size
  BY <1>a, PosIs, FitsIs
<1>1. Pos(w) + (n + k) <= 32 * w.size
  BY <1>b
<1>2. Fits(w, n)
  BY <1>1, <1>b
<1>3. Ready(v) /\ ~ v.failed /\ v.size = w.size /\ Pos(v) = Pos(w) + n
  BY <1>2 DEF Moves
<1>4. Fits(v, k)
  <2>1. Fits(v, k) <=> Pos(v) + k <= 32 * v.size
    BY FitsIs
  <2>2. (Pos(w) + n) + k <= 32 * w.size
    BY <1>1, <1>b
  <2> QED BY <1>3, <2>1, <2>2
<1>5. Ready(x) /\ ~ x.failed /\ x.size = v.size /\ Pos(x) = Pos(v) + k
  BY <1>3, <1>4 DEF Moves
<1> QED BY <1>b, <1>3, <1>5

\* Bits take as many bits as they are.
LEMMA BitsMove ==
  ASSUME NEW w, NEW bits \in Seq(Bit), Len(bits) < WORD_SIZE
  PROVE  Moves(w, WriteBits(w, bits), Len(bits))
<1> SUFFICES ASSUME Ready(w), ~ w.failed, Fits(w, Len(bits)), NEW v, v = WriteBits(w, bits)
             PROVE  Ready(v) /\ ~ v.failed /\ v.size = w.size /\ Pos(v) = Pos(w) + Len(bits)
  BY DEF Moves
<1>1. PICK l, s, n : l = Len(w.words) /\ s = Len(w.scratch) /\ n = Len(bits)
  OBVIOUS
<1>2. /\ l \in Nat /\ s \in Nat /\ s < 32 /\ w.size \in Nat /\ n \in Nat /\ n < 32
      /\ Pos(w) = 32 * l + s /\ (32 * l + s) + n <= 32 * w.size
  BY <1>1, PosIs, FitsIs, LenProperties DEF WORD_SIZE
<1>3. /\ Len(w.scratch) + Len(bits) < WORD_SIZE => Stays(w, bits, v) /\ Ready(v)
      /\ Len(w.scratch) + Len(bits) >= WORD_SIZE /\ Len(w.words) < w.size =>
           Flushes(w, bits, v) /\ Ready(v)
  BY WriteBitsDoes
<1>4. w.scratch \in Seq(Bit) /\ w.words \in Seq(Word)
  BY DEF Ready, Writers
<1>5. PICK c : c = w.scratch \o bits /\ c \in Seq(Bit) /\ Len(c) = s + n
  BY <1>1, <1>4, ConcatProperties
<1>6. CASE s + n < 32
  <2>1. Stays(w, bits, v) /\ Ready(v)
    BY <1>1, <1>3, <1>6 DEF WORD_SIZE
  <2>2. ~ v.failed /\ v.size = w.size /\ v.words = w.words /\ v.scratch = c
    BY <1>5, <2>1 DEF Stays
  <2>3. Pos(v) = 32 * l + (s + n)
    BY <1>1, <1>5, <2>1, <2>2, PosIs
  <2>4. Pos(v) = Pos(w) + n
    BY <1>2, <2>3
  <2> QED BY <1>1, <2>1, <2>2, <2>4
<1>7. CASE s + n >= 32
  <2>1. l < w.size
    BY <1>2, <1>7
  <2>2. Flushes(w, bits, v) /\ Ready(v)
    BY <1>1, <1>3, <1>7, <2>1 DEF WORD_SIZE
  <2>3. PICK b : b = SubSeq(c, 1, WORD_SIZE)
    OBVIOUS
  <2>4. PICK t : t = SubSeq(c, 33, s + n)
    OBVIOUS
  <2>5. ~ v.failed /\ v.size = w.size /\ v.words = Append(w.words, b) /\ v.scratch = t
    <3>1. WORD_SIZE + 1 = 33
      BY DEF WORD_SIZE
    <3>2. v = [size |-> w.size, words |-> Append(w.words, b), scratch |-> t, failed |-> FALSE]
      BY <1>1, <1>5, <2>2, <2>3, <2>4, <3>1, Zenon DEF Flushes
    <3> QED BY <3>2
  <2>6. Len(v.words) = l + 1
    <3>1. \A x : Len(Append(w.words, x)) = Len(w.words) + 1
      BY <1>4
    <3> QED BY <1>1, <2>5, <3>1
  <2>7. Len(v.scratch) = s + n - 32
    <3>1. PICK a, e : a = 33 /\ e = s + n
      OBVIOUS
    <3>2. a \in 1 .. Len(c) + 1 /\ e \in a - 1 .. Len(c)
      BY <1>2, <1>5, <1>7, <3>1
    <3>3. Len(SubSeq(c, a, e)) = e - a + 1
      BY <1>5, <3>2, PartFacts
    <3>4. Len(t) = e - a + 1
      BY <2>4, <3>1, <3>3
    <3> QED BY <1>2, <2>5, <3>1, <3>4
  <2>8. Pos(v) = 32 * (l + 1) + (s + n - 32)
    BY <2>2, <2>6, <2>7, PosIs
  <2>9. Pos(v) = Pos(w) + n
    BY <1>2, <2>8
  <2> QED BY <1>1, <2>2, <2>5, <2>9
<1> QED BY <1>2, <1>6, <1>7

-----------------------------------------------------------------------------
(* The bits a range requires.                                              *)

\* The number of bits is the one of the highest bit.
LEMMA BitsAre ==
  ASSUME NEW v \in Nat \ {0}, NEW n \in 1 .. 31, 2 ^ (n - 1) <= v, v < 2 ^ n
  PROVE  NumberOfBits(v) = n
<1>1. \A k \in 1 .. 31 : \E p \in Nat \ {0} : p = 2 ^ (k - 1) /\ 2 ^ k = 2 * p
  <2> TAKE k \in 1 .. 31
  <2>1. k - 1 \in Nat /\ (k - 1) + 1 = k
    OBVIOUS
  <2> QED BY <2>1, Doubling
<1>2. v \div 2 ^ (n - 1) = 1
  <2>1. PICK p \in Nat \ {0} : p = 2 ^ (n - 1) /\ 2 ^ n = 2 * p
    BY <1>1
  <2>2. v = p * 1 + (v - p) /\ v - p \in 0 .. p - 1
    BY <2>1
  <2>3. v \div p = 1
    BY <2>2, DivisionIs
  <2> QED BY <2>1, <2>3
<1>a. \E k \in 1 .. 31 : v \div 2 ^ (k - 1) = 1
  BY <1>2
<1>3. PICK k \in 1 .. 31 : k = NumberOfBits(v) /\ v \div 2 ^ (k - 1) = 1
  <2> DEFINE High(x) == v \div 2 ^ (x - 1) = 1
  <2>1. NumberOfBits(v) = CHOOSE x \in 1 .. 31 : High(x)
    <3>1. WORD_SIZE - 1 = 31
      BY DEF WORD_SIZE
    <3> QED BY <3>1, Zenon DEF NumberOfBits
  <2>2. \E x \in 1 .. 31 : High(x)
    BY <1>a
  <2> HIDE DEF High
  <2>3. NumberOfBits(v) \in 1 .. 31 /\ High(NumberOfBits(v))
    BY <2>1, <2>2, Zenon
  <2> QED BY <2>3 DEF High
<1>4. 2 ^ (k - 1) <= v /\ v < 2 ^ k
  <2>1. PICK p \in Nat \ {0} : p = 2 ^ (k - 1) /\ 2 ^ k = 2 * p
    BY <1>1
  <2>2. PICK q, r : q = v \div p /\ r = v % p /\ v = p * q + r /\ r \in 0 .. p - 1
    BY Divides
  <2>3. q = 1
    BY <1>3, <2>1, <2>2
  <2>4. v = p + r
    BY <2>2, <2>3
  <2> QED BY <2>1, <2>2, <2>4
<1>5. ~ (k < n)
  <2> SUFFICES ASSUME k < n PROVE FALSE
    OBVIOUS
  <2>1. k \in Nat /\ n - 1 \in Nat /\ k <= n - 1
    OBVIOUS
  <2>2. 2 ^ k <= 2 ^ (n - 1) /\ 2 ^ k \in Nat /\ 2 ^ (n - 1) \in Nat
    BY <2>1, PowersGrow, Doubling
  <2> QED BY <1>4, <2>2
<1>6. ~ (n < k)
  <2> SUFFICES ASSUME n < k PROVE FALSE
    OBVIOUS
  <2>1. n \in Nat /\ k - 1 \in Nat /\ n <= k - 1
    OBVIOUS
  <2>2. 2 ^ n <= 2 ^ (k - 1) /\ 2 ^ n \in Nat /\ 2 ^ (k - 1) \in Nat
    BY <2>1, PowersGrow, Doubling
  <2> QED BY <1>4, <2>2
<1> QED BY <1>3, <1>5, <1>6

\* The first powers of two.
LEMMA Powers ==
  /\ 2 ^ 0 = 1 /\ 2 ^ 1 = 2 /\ 2 ^ 2 = 4 /\ 2 ^ 3 = 8 /\ 2 ^ 4 = 16 /\ 2 ^ 5 = 32
  /\ 2 ^ 6 = 64 /\ 2 ^ 8 = 256 /\ 2 ^ 9 = 512
BY SMT

\* The bits of the ranges of the game.
LEMMA RangeBits ==
  /\ BitsRequired(0, 1) = 1 /\ BitsRequired(0, 4) = 3 /\ BitsRequired(0, 5) = 3
  /\ BitsRequired(0, 7) = 3 /\ BitsRequired(0, 11) = 4 /\ BitsRequired(0, 15) = 4
  /\ BitsRequired(0, 32) = 6 /\ BitsRequired(0, 350) = 9 /\ BitsRequired(0, 352) = 9
  /\ BitsRequired(0, 480) = 9
<1>1. \A v \in Nat \ {0} : BitsRequired(0, v) = NumberOfBits(v)
  BY DEF BitsRequired
<1>2. NumberOfBits(1) = 1
  BY BitsAre, Powers
<1>3. NumberOfBits(4) = 3 /\ NumberOfBits(5) = 3 /\ NumberOfBits(7) = 3
  BY BitsAre, Powers
<1>4. NumberOfBits(11) = 4 /\ NumberOfBits(15) = 4
  BY BitsAre, Powers
<1>5. NumberOfBits(32) = 6
  BY BitsAre, Powers
<1>6. NumberOfBits(350) = 9 /\ NumberOfBits(352) = 9 /\ NumberOfBits(480) = 9
  BY BitsAre, Powers
<1> QED BY <1>1, <1>2, <1>3, <1>4, <1>5, <1>6

\* The bits of an int that is not negative.
LEMMA IntBits == BitsRequired(0, INT_MAX) = 31
<1>1. PICK v \in Nat \ {0} : v = INT_MAX
  BY IntMax
<1>2. 2 ^ 30 <= v /\ v < 2 ^ 31
  BY <1>1, SMT DEF INT_MAX
<1>3. 2 ^ (31 - 1) <= v
  BY <1>2, SMT
<1>4. NumberOfBits(v) = 31
  BY <1>2, <1>3, BitsAre
<1> QED BY <1>1, <1>4 DEF BitsRequired

-----------------------------------------------------------------------------
(* How far each member gets.                                               *)

\* The bits that are measured for a member that is no byte array.
FieldSize(f) == MeasureMember(0, f)
Plain(f) == UintField(f) \/ SintField(f) \/ RowField(f)

\* The range of an unsigned member requires at most 31 bits.
LEMMA UintWidth ==
  ASSUME NEW f, UintField(f)
  PROVE  BitsRequired(f.min, f.max) \in 0 .. 31 /\ BitsRequired(f.min, f.max) \in Nat
<1>1. PICK a, b : a = f.min /\ b = f.max /\ a \in Nat /\ b \in Nat /\ a <= b /\ b <= INT_MAX
  BY IntMax DEF UintField, Uints, Uint
<1>2. BitsRequired(a, b) \in 0 .. 31
  BY <1>1, BitsFit
<1> QED BY <1>1, <1>2

\* An unsigned member takes the bits its range requires.
LEMMA UintMoves ==
  ASSUME NEW w, NEW f, UintField(f), NEW v \in f.min .. f.max
  PROVE  Moves(w, WriteUint(w, f, v), BitsRequired(f.min, f.max))
<1>1. WriteUint(w, f, v) = WriteBits(w, FieldBits(f, v))
  BY DEF WriteUint, FieldBits
<1>2. FieldBits(f, v) \in Seq(Bit) /\ Len(FieldBits(f, v)) < WORD_SIZE
      /\ Len(FieldBits(f, v)) = BitsRequired(f.min, f.max)
  BY UintBits
<1>3. Moves(w, WriteBits(w, FieldBits(f, v)), Len(FieldBits(f, v)))
  BY <1>2, BitsMove
<1> QED BY <1>1, <1>2, <1>3

\* An int takes a bit more than its absolute value.
LEMMA SintMoves ==
  ASSUME NEW w, NEW f, SintField(f), NEW v \in f.min .. f.max
  PROVE  /\ BitsRequired(AbsMember(f).min, AbsMember(f).max) \in Nat
         /\ Moves(w, WriteSint(w, f, v), BitsRequired(AbsMember(f).min, AbsMember(f).max) + 1)
<1>1. PICK s, a, g : s = (IF v < 0 THEN 1 ELSE 0) /\ a = Abs(v) /\ g = AbsMember(f)
  OBVIOUS
<1>2. /\ UintField(Bool) /\ s \in Bool.min .. Bool.max
      /\ UintField(g) /\ a \in g.min .. g.max
  BY <1>1, SignAndAbs
<1>3. PICK x, y : x = WriteUint(w, Bool, s) /\ y = WriteUint(x, g, a) /\ y = WriteSint(w, f, v)
  BY <1>1 DEF WriteSint
<1>4. PICK n \in Nat : n = BitsRequired(g.min, g.max)
  BY <1>2, UintWidth
<1>5. Moves(x, y, n)
  BY <1>2, <1>3, <1>4, UintMoves
<1>6. Moves(w, x, 1)
  <2>1. Moves(w, x, BitsRequired(Bool.min, Bool.max))
    BY <1>2, <1>3, UintMoves
  <2>2. Bool.min = 0 /\ Bool.max = 1
    BY DEF Bool, Uint
  <2> QED BY <2>1, <2>2, RangeBits
<1>7. Moves(w, y, 1 + n)
  BY <1>5, <1>6, MovesOn
<1>8. 1 + n = n + 1
  OBVIOUS
<1> QED BY <1>1, <1>3, <1>4, <1>7, <1>8

\* A row takes the bits of its members.
LEMMA RowMoves ==
  ASSUME NEW w, Good(w), NEW f, RowField(f), NEW vs \in RowValues(f)
  PROVE  /\ f.n * BitsRequired(f.of.min, f.of.max) \in Nat
         /\ Moves(w, WriteRow(w, f, vs), f.n * BitsRequired(f.of.min, f.of.max))
<1>1. PICK n, g : n = f.n /\ g = f.of /\ n \in Nat /\ UintField(g)
  BY RowParts
<1>2. PICK b \in Nat : b = BitsRequired(g.min, g.max)
  BY <1>1, UintWidth
<1>3. n * b \in Nat /\ f.n * BitsRequired(f.of.min, f.of.max) = n * b
  BY <1>1, <1>2
<1>4. CASE w.failed
  BY <1>3, <1>4 DEF Moves
<1>5. CASE ~ w.failed
  <2>1. PICK W : RowChain(W, w, f, vs) /\ WriteRow(w, f, vs) = W[f.n]
    BY <1>5, RowIsWritten
  <2>2. W[0] = w /\ \A i \in 1 .. n : W[i] = WriteUint(W[i - 1], g, vs[i])
    BY <1>1, <2>1 DEF RowChain
  <2>3. \A i \in 1 .. n : vs[i] \in g.min .. g.max
    BY <1>1 DEF RowValues
  <2> DEFINE S == {i \in 0 .. n : Moves(w, W[i], i * b)}
  <2>4. 0 \in S
    <3>1. 0 * b = 0 /\ 0 \in 0 .. n
      BY <1>1, <1>2
    <3>2. Moves(w, w, 0)
      <4>1. Ready(w) => Pos(w) = Pos(w) + 0
        <5>1. Ready(w) => Pos(w) \in Nat
          BY PosIs
        <5> QED BY <5>1
      <4> QED BY <4>1, Zenon DEF Moves
    <3> QED BY <2>2, <3>1, <3>2
  <2>5. ASSUME NEW i \in 0 .. n - 1, i \in S PROVE i + 1 \in S
    <3>1. i \in Nat /\ i + 1 \in 1 .. n /\ i + 1 \in 0 .. n /\ (i + 1) - 1 = i /\ i * b \in Nat
          /\ (i + 1) * b = i * b + b
      BY <1>1, <1>2
    <3>2. W[i + 1] = WriteUint(W[i], g, vs[i + 1])
      BY <2>2, <3>1
    <3>3. Moves(W[i], W[i + 1], b)
      BY <1>1, <1>2, <2>3, <3>1, <3>2, UintMoves
    <3>4. Moves(w, W[i + 1], i * b + b)
      BY <1>2, <2>5, <3>1, <3>3, MovesOn
    <3> QED BY <3>1, <3>4
  <2>6. n \in 0 .. n
    BY <1>1
  <2> HIDE DEF S
  <2>7. n \in S
    BY <1>1, <2>4, <2>5, <2>6, SetInduction
  <2> QED BY <1>1, <1>3, <2>1, <2>7 DEF S
<1> QED BY <1>4, <1>5

\* What is measured for a member that is no byte array is what it takes.
LEMMA PlainMoves ==
  ASSUME NEW w, Good(w), NEW f, Plain(f), NEW v \in Values(f)
  PROVE  /\ FieldSize(f) \in Nat /\ \A n \in Nat : MeasureMember(n, f) = n + FieldSize(f)
         /\ Moves(w, WriteMember(w, f, v), FieldSize(f))
<1>1. CASE UintField(f)
  <2>1. f.kind = "uint"
    BY <1>1 DEF UintField, Uints, Uint
  <2>2. v \in f.min .. f.max /\ WriteMember(w, f, v) = WriteUint(w, f, v)
    BY <1>1, UintKind
  <2>3. PICK b \in Nat : b = BitsRequired(f.min, f.max)
    BY <1>1, UintWidth
  <2>4. \A n : MeasureMember(n, f) = n + b
    BY <2>1, <2>3 DEF MeasureMember
  <2>5. FieldSize(f) = b
    BY <2>3, <2>4 DEF FieldSize
  <2>6. Moves(w, WriteUint(w, f, v), b)
    BY <1>1, <2>2, <2>3, UintMoves
  <2> QED BY <2>2, <2>4, <2>5, <2>6
<1>2. CASE SintField(f)
  <2>1. f.kind = "int"
    BY <1>2 DEF SintField, Sints, Sint
  <2>2. v \in f.min .. f.max /\ WriteMember(w, f, v) = WriteSint(w, f, v)
    BY <1>2, SintKind
  <2>3. PICK b \in Nat : b = BitsRequired(AbsMember(f).min, AbsMember(f).max)
    BY <1>2, <2>2, SintMoves
  <2>4. \A n : MeasureMember(n, f) = n + b + 1
    BY <2>1, <2>3 DEF MeasureMember
  <2>5. FieldSize(f) = b + 1
    BY <2>3, <2>4 DEF FieldSize
  <2>6. Moves(w, WriteSint(w, f, v), b + 1)
    BY <1>2, <2>2, <2>3, SintMoves
  <2> QED BY <2>2, <2>3, <2>4, <2>5, <2>6
<1>3. CASE RowField(f)
  <2>1. f.kind = "row"
    BY <1>3 DEF RowField, Row
  <2>2. v \in RowValues(f) /\ WriteMember(w, f, v) = WriteRow(w, f, v)
    BY <1>3, RowKind
  <2>3. PICK b \in Nat : b = f.n * BitsRequired(f.of.min, f.of.max)
    BY <1>3, <2>2, RowMoves
  <2>4. \A n : MeasureMember(n, f) = n + b
    BY <2>1, <2>3 DEF MeasureMember
  <2>5. FieldSize(f) = b
    BY <2>3, <2>4 DEF FieldSize
  <2>6. Moves(w, WriteRow(w, f, v), b)
    BY <1>3, <2>2, <2>3, RowMoves
  <2> QED BY <2>2, <2>4, <2>5, <2>6
<1> QED BY <1>1, <1>2, <1>3 DEF Plain

-----------------------------------------------------------------------------
(* How far a byte array gets.                                              *)

\* The next boundary of a word.
Up(x) == IF x % 32 = 0 THEN x ELSE (x + 32) - (x % 32)

\* It is less than a word away.
LEMMA UpIs ==
  ASSUME NEW x \in Nat
  PROVE  /\ Up(x) \in Nat /\ x <= Up(x) /\ Up(x) <= x + 31 /\ Up(x) % 32 = 0
         /\ Up(x) = x + 31 => x % 32 = 1
<1>1. PICK q, r : q = x \div 32 /\ r = x % 32 /\ x = 32 * q + r /\ r \in 0 .. 31 /\ q \in Nat
  OBVIOUS
<1>2. CASE r = 0
  BY <1>1, <1>2 DEF Up
<1>3. CASE r # 0
  <2>1. Up(x) = 32 * (q + 1)
    BY <1>1, <1>3 DEF Up
  <2> QED BY <1>1, <1>3, <2>1
<1> QED BY <1>2, <1>3

\* A position of whole words.
LEMMA UpOfWords ==
  ASSUME NEW l \in Nat, NEW s \in 0 .. 31
  PROVE  /\ s = 0 => Up(32 * l + s) = 32 * l
         /\ s # 0 => Up(32 * l + s) = 32 * l + 32
<1>1. (32 * l + s) % 32 = s
  OBVIOUS
<1> QED BY <1>1 DEF Up

\* Padding gets to the next word.
LEMMA PaddingMoves ==
  ASSUME NEW w, Ready(w)
  PROVE  Moves(w, WritePadding(w), Up(Pos(w)) - Pos(w))
<1>1. PICK l, s : l = Len(w.words) /\ s = Len(w.scratch)
  OBVIOUS
<1>2. l \in Nat /\ s \in 0 .. 31 /\ Pos(w) = 32 * l + s
  <2>1. l \in Nat /\ s \in Nat /\ s < 32 /\ Pos(w) = 32 * l + s
    BY <1>1, PosIs
  <2> QED BY <2>1
<1>3. CASE w.scratch = <<>>
  <2>1. s = 0
    BY <1>1, <1>3
  <2>2. WritePadding(w) = w /\ Up(Pos(w)) - Pos(w) = 0
    BY <1>2, <1>3, <2>1, UpOfWords DEF WritePadding
  <2> QED BY <1>2, <2>2 DEF Moves
<1>4. CASE w.scratch # <<>>
  <2>1. s # 0
    BY <1>1, <1>4, EmptySeq DEF Ready, Writers
  <2>2. PICK n \in Nat : n = 32 - s /\ n < 32
    BY <1>2, <2>1
  <2>3. WritePadding(w) = WriteBits(w, Zeros(n))
    BY <1>1, <1>4, <2>2 DEF WritePadding, WORD_SIZE
  <2>4. Zeros(n) \in Seq(Bit) /\ Len(Zeros(n)) = n
    BY <2>2, ZerosAreBits
  <2>5. Moves(w, WriteBits(w, Zeros(n)), n)
    <3>1. Len(Zeros(n)) < WORD_SIZE
      BY <2>2, <2>4 DEF WORD_SIZE
    <3>2. Moves(w, WriteBits(w, Zeros(n)), Len(Zeros(n)))
      BY <2>4, <3>1, BitsMove
    <3> QED BY <2>4, <3>2
  <2>6. Up(Pos(w)) - Pos(w) = n
    BY <1>2, <2>1, <2>2, UpOfWords
  <2> QED BY <2>3, <2>5, <2>6
<1> QED BY <1>3, <1>4

\* A byte array takes its words, from the next word on.
LEMMA BytesMove ==
  ASSUME NEW w, Ready(w), NEW f, BytesField(f), NEW words \in [1 .. Words(f) -> Word]
  PROVE  Moves(w, WriteBytes(w, f, words), (Up(Pos(w)) - Pos(w)) + 32 * WordsOf(f))
<1>1. PICK p, v : p = WritePadding(w) /\ v = WriteBytes(w, f, words)
  OBVIOUS
<1>2. PICK l, k : l = Pos(w) /\ k = WordsOf(f) /\ l \in Nat /\ k \in Nat
  <2>1. Pos(w) \in Nat
    BY PosIs
  <2>2. WordsOf(f) \in Nat
    BY BytesTake
  <2> QED BY <2>1, <2>2
<1>3. Up(l) \in Nat /\ l <= Up(l)
  BY <1>2, UpIs
<1> SUFFICES ASSUME ~ w.failed, Fits(w, (Up(l) - l) + 32 * k)
             PROVE  Ready(v) /\ ~ v.failed /\ v.size = w.size /\ Pos(v) = l + ((Up(l) - l) + 32 * k)
  BY <1>1, <1>2 DEF Moves
<1>4. Fits(w, Up(l) - l)
  <2>1. /\ Fits(w, (Up(l) - l) + 32 * k) <=> Pos(w) + ((Up(l) - l) + 32 * k) <= 32 * w.size
        /\ Fits(w, Up(l) - l) <=> Pos(w) + (Up(l) - l) <= 32 * w.size
        /\ w.size \in Nat
    BY PosIs, FitsIs
  <2>2. PICK u \in Nat : u = Up(l)
    BY <1>3
  <2>3. l + ((u - l) + 32 * k) <= 32 * w.size
    BY <1>2, <2>1, <2>2
  <2>4. l + (u - l) <= 32 * w.size
    <3>1. PICK z \in Nat : z = w.size
      BY <2>1
    <3>2. \A i, j, c \in Nat : i + ((j - i) + 32 * c) <= 32 * z => i + (j - i) <= 32 * z
      BY <3>1
    <3> QED BY <1>2, <2>2, <2>3, <3>1, <3>2
  <2> QED BY <1>2, <2>1, <2>2, <2>4
<1>5. Ready(p) /\ ~ p.failed /\ p.size = w.size /\ Pos(p) = Up(l)
  <2>1. Moves(w, p, Up(l) - l)
    BY <1>1, <1>2, PaddingMoves
  <2>2. Ready(p) /\ ~ p.failed /\ p.size = w.size /\ Pos(p) = Pos(w) + (Up(l) - l)
    BY <1>4, <2>1 DEF Moves
  <2> QED BY <1>2, <1>3, <2>2
<1>6. v = WriteWords(p, f, words)
  BY <1>1, <1>5 DEF WriteBytes, WriteWords
<1>7. p \in Writers
  BY <1>5 DEF Ready
<1>8. /\ v \in Writers /\ v.failed = p.failed /\ v.scratch = p.scratch
      /\ Len(v.words) = Len(p.words) + k
  BY <1>2, <1>6, <1>7, WordsWritten
<1>9. v.size = p.size
  BY <1>6, <1>7 DEF WriteWords, Writers
<1>10. Ready(v)
  BY <1>5, <1>8 DEF Ready
<1>11. Pos(v) = Up(l) + 32 * k
  <2>1. PICK a, s : a = Len(p.words) /\ s = Len(p.scratch) /\ a \in Nat /\ s \in Nat
    BY <1>5, PosIs
  <2>2. Pos(p) = 32 * a + s
    BY <1>5, <2>1, PosIs
  <2>3. Pos(v) = 32 * (a + k) + s
    BY <1>8, <1>10, <2>1, PosIs
  <2>4. 32 * (a + k) + s = (32 * a + s) + 32 * k
    <3>1. a \in Nat /\ s \in Nat /\ k \in Nat
      BY <1>2, <2>1
    <3> QED BY <3>1
  <2> QED BY <1>5, <2>2, <2>3, <2>4
<1> QED BY <1>2, <1>3, <1>5, <1>8, <1>9, <1>10, <1>11

-----------------------------------------------------------------------------
(* The sizes of members.                                                   *)

\* The size of a member that is no byte array does not depend on where it is.
LEMMA PlainSize ==
  ASSUME NEW f, Plain(f)
  PROVE  FieldSize(f) \in Nat /\ \A n \in Nat : MeasureMember(n, f) = n + FieldSize(f)
<1>1. CASE UintField(f)
  <2>1. f.kind = "uint"
    BY <1>1 DEF UintField, Uints, Uint
  <2>2. PICK b \in Nat : b = BitsRequired(f.min, f.max)
    BY <1>1, UintWidth
  <2>3. \A n : MeasureMember(n, f) = n + b
    BY <2>1, <2>2 DEF MeasureMember
  <2> QED BY <2>3 DEF FieldSize
<1>2. CASE SintField(f)
  <2>1. f.kind = "int"
    BY <1>2 DEF SintField, Sints, Sint
  <2>2. PICK b \in Nat : b = BitsRequired(AbsMember(f).min, AbsMember(f).max)
    <3>1. f.min \in f.min .. f.max
      BY <1>2 DEF SintField, Sints, Sint
    <3> QED BY <1>2, <3>1, SintMoves
  <2>3. \A n : MeasureMember(n, f) = n + b + 1
    BY <2>1, <2>2 DEF MeasureMember
  <2> QED BY <2>3 DEF FieldSize
<1>3. CASE RowField(f)
  <2>1. f.kind = "row"
    BY <1>3 DEF RowField, Row
  <2>2. PICK b \in Nat : b = f.n * BitsRequired(f.of.min, f.of.max)
    <3>1. PICK n \in Nat, c \in Nat : n = f.n /\ c = BitsRequired(f.of.min, f.of.max)
      BY <1>3, RowParts, UintWidth
    <3>2. n * c \in Nat
      OBVIOUS
    <3> QED BY <3>1, <3>2
  <2>3. \A n : MeasureMember(n, f) = n + b
    BY <2>1, <2>2 DEF MeasureMember
  <2> QED BY <2>3 DEF FieldSize
<1> QED BY <1>1, <1>2, <1>3 DEF Plain

\* The padding that is measured is the one that is written.
LEMMA PaddingIs ==
  ASSUME NEW n \in Nat
  PROVE  MeasurePadding(n) = Up(n) - n /\ MeasurePadding(n) \in Nat
<1>1. n % 32 \in 0 .. 31
  OBVIOUS
<1> QED BY <1>1 DEF MeasurePadding, Up, WORD_SIZE

\* A nickname is measured as its bytes and twice the padding before it.
LEMMA NicknameSize ==
  ASSUME NEW n \in Nat
  PROVE  LET f == ByteArray(PLAYER_NICKNAME_MAX_LENGTH)
         IN /\ MeasureMember(n, f) = n + 2 * (Up(n) - n) + 96
            /\ BytesField(f) /\ WordsOf(f) = 4
<1>1. PICK f : f = ByteArray(PLAYER_NICKNAME_MAX_LENGTH)
  OBVIOUS
<1>2. f.kind = "bytes" /\ f.length = 12
  BY <1>1 DEF ByteArray, PLAYER_NICKNAME_MAX_LENGTH
<1>3. MeasureMember(n, f) = n + 2 * MeasurePadding(n) + 12 * 8
  BY <1>2 DEF MeasureMember
<1>4. BytesField(f)
  BY <1>1 DEF BytesField, PLAYER_NICKNAME_MAX_LENGTH
<1>5. WordsOf(f) = 4
  BY <1>2 DEF WordsOf, WORD_SIZE
<1> QED BY <1>1, <1>3, <1>4, <1>5, PaddingIs

\* A member of any kind is measured by a natural number.
LEMMA MeasuredIsNat ==
  ASSUME NEW f, Field(f), NEW n \in Nat
  PROVE  MeasureMember(n, f) \in Nat
<1>1. CASE Plain(f)
  BY <1>1, PlainSize
<1>2. CASE BytesField(f)
  <2>1. PICK k \in Nat : f = ByteArray(k)
    BY <1>2 DEF BytesField
  <2>2. MeasureMember(n, f) = n + 2 * MeasurePadding(n) + k * 8
    BY <2>1 DEF MeasureMember, ByteArray
  <2> QED BY <2>2, PaddingIs
<1> QED BY <1>1, <1>2 DEF Field, Plain

\* The bits measured before and after each member.
MeasureChain(M, fs, n) ==
  /\ M[0] = 0 /\ \A i \in 1 .. n : M[i] = MeasureMember(M[i - 1], fs[i])
  /\ \A i \in 0 .. n : M[i] \in Nat

\* Members are measured one after the other.
LEMMA MembersAreMeasured ==
  ASSUME NEW fs, NEW n \in Nat, n = Len(fs), \A i \in 1 .. n : Field(fs[i])
  PROVE  \E M : MeasureChain(M, fs, n) /\ Measured(0, fs) = M[n]
<1> DEFINE G == [i \in 1 .. n |-> [x \in Nat |-> MeasureMember(x, fs[i])]]
           F(h) == [i \in 0 .. n |-> IF i = 0 THEN 0 ELSE MeasureMember(h[i - 1], fs[i])]
<1>1. Stepwise(n, Nat, 0, G)
  BY MeasuredIsNat DEF Stepwise
<1>2. PICK e : Iteration(e, n, Nat, 0, G)
  <2> HIDE DEF G
  <2> QED BY <1>1, IterationExists
<1>3. \A i \in 1 .. n : e[i] = MeasureMember(e[i - 1], fs[i])
  <2> TAKE i \in 1 .. n
  <2>1. e[i] = G[i][e[i - 1]] /\ e[i - 1] \in Nat
    <3> HIDE DEF G
    <3>1. i - 1 \in 0 .. n
      OBVIOUS
    <3> QED BY <1>2, <3>1 DEF Iteration
  <2> QED BY <2>1
<1>4. e = F(e)
  <2> HIDE DEF G
  <2> QED BY <1>2, <1>3 DEF Iteration
<1>5. PICK h : h = F(h) /\ h = (CHOOSE x : x = F(x))
  <2> HIDE DEF F
  <2> QED BY <1>4
<1>6. h[0] = 0 /\ \A i \in 1 .. n : h[i] = MeasureMember(h[i - 1], fs[i])
  <2>1. h[0] = 0
    BY <1>5
  <2>2. ASSUME NEW i \in 1 .. n PROVE h[i] = MeasureMember(h[i - 1], fs[i])
    <3>1. i \in 0 .. n /\ i # 0
      OBVIOUS
    <3> QED BY <1>5, <3>1
  <2> QED BY <2>1, <2>2
<1>7. \A i \in 0 .. n : h[i] \in Nat
  <2> DEFINE S == {i \in 0 .. n : h[i] \in Nat}
  <2>1. 0 \in S
    BY <1>6
  <2>2. ASSUME NEW k \in 0 .. n - 1, k \in S PROVE k + 1 \in S
    <3>1. k + 1 \in 1 .. n /\ k + 1 \in 0 .. n /\ (k + 1) - 1 = k /\ h[k] \in Nat
      BY <2>2
    <3>2. MeasureMember(h[k], fs[k + 1]) \in Nat
      BY <3>1, MeasuredIsNat
    <3>3. h[k + 1] = MeasureMember(h[(k + 1) - 1], fs[k + 1])
      BY <1>6, <3>1
    <3> QED BY <3>1, <3>2, <3>3
  <2> HIDE DEF S
  <2>3. \A i \in 0 .. n : i \in S
    BY <2>1, <2>2, SetInduction
  <2> QED BY <2>3 DEF S
<1>8. MeasureChain(h, fs, n)
  BY <1>6, <1>7 DEF MeasureChain
<1>9. Measured(0, fs) = (CHOOSE x : x = F(x))[n]
  BY DEF Measured
<1> QED
  <2> HIDE DEF F
  <2> QED BY <1>5, <1>8, <1>9

-----------------------------------------------------------------------------
(* Members none of which is a byte array.                                  *)

\* The sizes N of the first k members add up.
AddsUp(N, fs, k) ==
  /\ k \in Nat /\ N[0] = 0
  /\ \A i \in 1 .. k : Plain(fs[i]) /\ N[i] = N[i - 1] + FieldSize(fs[i])

\* What is measured for these members is what they take.
LEMMA PlainRun ==
  ASSUME NEW N, NEW fs, NEW k, AddsUp(N, fs, k), NEW n \in Nat, k <= n,
         NEW M, MeasureChain(M, fs, n)
  PROVE  /\ \A i \in 0 .. k : N[i] \in Nat /\ M[i] = N[i]
         /\ \A W, w, vs : Suits(fs, vs, n) /\ Chain(W, w, fs, vs, n) =>
              \A i \in 0 .. k : Moves(w, W[i], N[i])
<1>1. k \in Nat /\ \A i \in 1 .. k : i \in 1 .. n /\ i \in 0 .. n /\ i - 1 \in 0 .. n
  BY DEF AddsUp
<1>2. \A i \in 0 .. k : N[i] \in Nat /\ M[i] = N[i]
  <2> DEFINE S == {i \in 0 .. k : N[i] \in Nat /\ M[i] = N[i]}
  <2>1. 0 \in S
    BY <1>1 DEF AddsUp, MeasureChain
  <2>2. ASSUME NEW j \in 0 .. k - 1, j \in S PROVE j + 1 \in S
    <3>1. j + 1 \in 1 .. k /\ j + 1 \in 0 .. k /\ (j + 1) - 1 = j /\ j + 1 \in 1 .. n
      BY <1>1
    <3>2. Plain(fs[j + 1]) /\ N[j + 1] = N[j] + FieldSize(fs[j + 1])
      BY <3>1 DEF AddsUp
    <3>3. M[j + 1] = MeasureMember(M[j], fs[j + 1])
      BY <3>1 DEF MeasureChain
    <3>4. FieldSize(fs[j + 1]) \in Nat /\ MeasureMember(N[j], fs[j + 1]) = N[j] + FieldSize(fs[j + 1])
      BY <2>2, <3>2, PlainSize
    <3> QED BY <2>2, <3>1, <3>2, <3>3, <3>4
  <2> HIDE DEF S
  <2>3. \A i \in 0 .. k : i \in S
    BY <1>1, <2>1, <2>2, SetInduction
  <2> QED BY <2>3 DEF S
<1>3. ASSUME NEW W, NEW w, NEW vs, Suits(fs, vs, n), Chain(W, w, fs, vs, n)
      PROVE  \A i \in 0 .. k : Moves(w, W[i], N[i])
  <2> DEFINE S == {i \in 0 .. k : Moves(w, W[i], N[i])}
  <2>1. 0 \in S
    <3>1. W[0] = w /\ N[0] = 0
      BY <1>3 DEF Chain, AddsUp
    <3>2. Ready(w) => Pos(w) = Pos(w) + 0
      <4>1. Ready(w) => Pos(w) \in Nat
        BY PosIs
      <4> QED BY <4>1
    <3>3. Moves(w, w, 0)
      BY <3>2, Zenon DEF Moves
    <3>4. 0 \in 0 .. k
      BY <1>1
    <3> QED BY <3>1, <3>3, <3>4
  <2>2. ASSUME NEW j \in 0 .. k - 1, j \in S PROVE j + 1 \in S
    <3>1. j \in 0 .. k /\ j + 1 \in 1 .. k /\ j + 1 \in 0 .. k /\ (j + 1) - 1 = j /\ j + 1 \in 1 .. n
          /\ j \in 0 .. n
      BY <1>1
    <3>2. Plain(fs[j + 1]) /\ N[j + 1] = N[j] + FieldSize(fs[j + 1])
      BY <3>1 DEF AddsUp
    <3>3. Good(W[j]) /\ W[j + 1] = WriteMember(W[j], fs[j + 1], vs[j + 1])
      BY <1>3, <3>1 DEF Chain
    <3>4. vs[j + 1] \in Values(fs[j + 1])
      BY <1>3, <3>1 DEF Suits
    <3>5. Moves(W[j], W[j + 1], FieldSize(fs[j + 1])) /\ FieldSize(fs[j + 1]) \in Nat
      BY <3>2, <3>3, <3>4, PlainMoves
    <3>6. N[j] \in Nat /\ Moves(w, W[j], N[j])
      BY <1>2, <2>2, <3>1
    <3>7. Moves(w, W[j + 1], N[j] + FieldSize(fs[j + 1]))
      BY <3>5, <3>6, MovesOn
    <3> QED BY <3>1, <3>2, <3>7
  <2> HIDE DEF S
  <2>3. \A i \in 0 .. k : i \in S
    BY <1>1, <2>1, <2>2, SetInduction
  <2> QED BY <2>3 DEF S
<1> QED BY <1>2, <1>3

\* Members none of which is a byte array, of s bits together.
Plains == {f \in Kinds : Plain(f)}
Sized(fs, s) == fs \in Seq(Plains) /\ \E N : AddsUp(N, fs, Len(fs)) /\ N[Len(fs)] = s

\* One member.
LEMMA SizedOne ==
  ASSUME NEW f \in Plains
  PROVE  Sized(<<f>>, FieldSize(f))
<1>1. PICK N : N = [i \in 0 .. 1 |-> IF i = 0 THEN 0 ELSE FieldSize(f)]
  OBVIOUS
<1>a. PICK fs : fs = <<f>>
  OBVIOUS
<1>2. fs = <<f>> /\ fs \in Seq(Plains) /\ Len(fs) = 1 /\ fs[1] = f
  BY <1>a
<1>3. FieldSize(f) \in Nat /\ Plain(f)
  BY PlainSize DEF Plains
<1>4. N[0] = 0 /\ N[1] = N[0] + FieldSize(f) /\ N[1] = FieldSize(f)
  BY <1>1, <1>3
<1>5. AddsUp(N, fs, 1)
  <2>1. \A i \in 1 .. 1 : i = 1 /\ i - 1 = 0
    OBVIOUS
  <2> QED BY <1>2, <1>3, <1>4, <2>1 DEF AddsUp
<1> QED BY <1>2, <1>4, <1>5 DEF Sized

\* None.
LEMMA SizedNone == Sized(<<>>, 0)
<1>1. PICK N : N = [i \in 0 .. 0 |-> 0]
  OBVIOUS
<1>2. AddsUp(N, <<>>, 0) /\ N[0] = 0
  BY <1>1 DEF AddsUp
<1>3. Len(<<>>) = 0 /\ <<>> \in Seq(Plains)
  OBVIOUS
<1> QED BY <1>2, <1>3 DEF Sized

\* Members and others behind them.
LEMMA SizedBoth ==
  ASSUME NEW fs, NEW gs, NEW s, NEW t, Sized(fs, s), Sized(gs, t)
  PROVE  Sized(fs \o gs, s + t) /\ s \in Nat /\ t \in Nat
<1>1. PICK N, K : /\ AddsUp(N, fs, Len(fs)) /\ N[Len(fs)] = s
                  /\ AddsUp(K, gs, Len(gs)) /\ K[Len(gs)] = t
  BY DEF Sized
<1>2. PICK a \in Nat, b \in Nat : a = Len(fs) /\ b = Len(gs)
  BY <1>1 DEF AddsUp
<1>3. PICK hs : hs = fs \o gs
  OBVIOUS
<1>4. hs \in Seq(Plains) /\ Len(hs) = a + b
      /\ \A i \in 1 .. a + b : hs[i] = IF i <= a THEN fs[i] ELSE gs[i - a]
  <2>1. fs \in Seq(Plains) /\ gs \in Seq(Plains)
    BY DEF Sized
  <2>2. /\ fs \o gs \in Seq(Plains) /\ Len(fs \o gs) = Len(fs) + Len(gs)
        /\ \A i \in 1 .. Len(fs) + Len(gs) :
             (fs \o gs)[i] = IF i <= Len(fs) THEN fs[i] ELSE gs[i - Len(fs)]
    BY <2>1, ConcatProperties
  <2> QED BY <1>2, <1>3, <2>2
<1>5. (\A i \in 0 .. a : N[i] \in Nat) /\ (\A i \in 0 .. b : K[i] \in Nat)
  <2>1. ASSUME NEW X, NEW xs, NEW k, AddsUp(X, xs, k) PROVE \A i \in 0 .. k : X[i] \in Nat
    <3> DEFINE S == {i \in 0 .. k : X[i] \in Nat}
    <3>1. k \in Nat /\ 0 \in S
      BY <2>1 DEF AddsUp
    <3>2. ASSUME NEW j \in 0 .. k - 1, j \in S PROVE j + 1 \in S
      <4>1. j + 1 \in 1 .. k /\ j + 1 \in 0 .. k /\ (j + 1) - 1 = j
        BY <3>1
      <4>2. Plain(xs[j + 1]) /\ X[j + 1] = X[j] + FieldSize(xs[j + 1])
        BY <2>1, <4>1 DEF AddsUp
      <4>3. FieldSize(xs[j + 1]) \in Nat /\ X[j] \in Nat
        BY <3>2, <4>2, PlainSize
      <4> QED BY <4>1, <4>2, <4>3
    <3> HIDE DEF S
    <3>3. \A i \in 0 .. k : i \in S
      BY <3>1, <3>2, SetInduction
    <3> QED BY <3>3 DEF S
  <2> QED BY <1>1, <1>2, <2>1
<1>6. s \in Nat /\ t \in Nat
  <2>1. a \in 0 .. a /\ b \in 0 .. b
    OBVIOUS
  <2> QED BY <1>1, <1>2, <1>5, <2>1
<1>7. PICK L : L = [i \in 0 .. a + b |-> IF i <= a THEN N[i] ELSE s + K[i - a]]
  OBVIOUS
<1>8. L[0] = 0
  <2>1. 0 \in 0 .. a + b /\ 0 <= a
    OBVIOUS
  <2> QED BY <1>1, <1>7, <2>1 DEF AddsUp
<1>9. ASSUME NEW i \in 1 .. a + b PROVE Plain(hs[i]) /\ L[i] = L[i - 1] + FieldSize(hs[i])
  <2>1. hs[i] \in Plains
    BY <1>4
  <2>2. CASE i <= a
    <3>1. i \in 1 .. a /\ i \in 0 .. a + b /\ i - 1 \in 0 .. a + b /\ i - 1 <= a
      BY <2>2
    <3>2. hs[i] = fs[i] /\ L[i] = N[i] /\ L[i - 1] = N[i - 1]
      BY <1>4, <1>7, <2>2, <3>1
    <3>3. N[i] = N[i - 1] + FieldSize(fs[i])
      BY <1>1, <1>2, <3>1 DEF AddsUp
    <3> QED BY <2>1, <3>2, <3>3 DEF Plains
  <2>3. CASE ~ (i <= a)
    <3>1. PICK j \in 1 .. b : j = i - a
      BY <2>3
    <3>2. i \in 0 .. a + b /\ i - 1 \in 0 .. a + b /\ j - 1 \in 0 .. b /\ j \in 0 .. b
      BY <2>3, <3>1
    <3>3. hs[i] = gs[j] /\ L[i] = s + K[j]
      BY <1>4, <1>7, <2>3, <3>1, <3>2
    <3>4. K[j] = K[j - 1] + FieldSize(gs[j])
      BY <1>1, <1>2, <3>1 DEF AddsUp
    <3>5. L[i - 1] = s + K[j - 1]
      <4>1. CASE i - 1 <= a
        <5>1. i - 1 = a /\ j - 1 = 0
          BY <2>3, <3>1, <4>1
        <5>2. K[0] = 0 /\ N[a] = s
          BY <1>1, <1>2 DEF AddsUp
        <5>3. L[i - 1] = s
          BY <1>7, <3>2, <4>1, <5>1, <5>2
        <5> QED BY <1>6, <5>1, <5>2, <5>3
      <4>2. CASE ~ (i - 1 <= a)
        <5>1. (i - 1) - a = j - 1
          BY <3>1
        <5> QED BY <1>7, <3>2, <4>2, <5>1
      <4> QED BY <4>1, <4>2
    <3>6. FieldSize(gs[j]) \in Nat /\ K[j - 1] \in Nat
      <4>1. Plain(gs[j])
        BY <2>1, <3>3 DEF Plains
      <4> QED BY <1>5, <3>2, <4>1, PlainSize
    <3> QED BY <1>6, <2>1, <3>3, <3>4, <3>5, <3>6 DEF Plains
  <2> QED BY <2>2, <2>3
<1>10. AddsUp(L, hs, a + b)
  BY <1>8, <1>9 DEF AddsUp
<1>11. L[a + b] = s + t
  <2>1. a + b \in 0 .. a + b
    OBVIOUS
  <2>2. CASE b = 0
    <3>1. t = 0
      BY <1>1, <1>2, <2>2 DEF AddsUp
    <3>2. L[a + b] = N[a]
      BY <1>7, <2>1, <2>2
    <3> QED BY <1>1, <1>2, <1>6, <3>1, <3>2
  <2>3. CASE b # 0
    <3>1. ~ (a + b <= a) /\ (a + b) - a = b
      BY <2>3
    <3> QED BY <1>1, <1>2, <1>7, <2>1, <3>1
  <2> QED BY <2>2, <2>3
<1>12. Sized(hs, s + t)
  BY <1>4, <1>10, <1>11 DEF Sized
<1> QED BY <1>3, <1>6, <1>12

\* The same member n times.
LEMMA SizedMany ==
  ASSUME NEW f \in Plains, NEW n \in Nat
  PROVE  Sized([i \in 1 .. n |-> f], n * FieldSize(f))
<1>1. PICK b \in Nat : b = FieldSize(f) /\ Plain(f)
  BY PlainSize DEF Plains
<1>2. PICK N : N = [i \in 0 .. n |-> i * b]
  OBVIOUS
<1>a. PICK fs : fs = [i \in 1 .. n |-> f]
  OBVIOUS
<1>3. fs = [i \in 1 .. n |-> f] /\ fs \in Seq(Plains) /\ Len(fs) = n
  BY <1>a
<1>4. ASSUME NEW i \in 1 .. n PROVE Plain(fs[i]) /\ N[i] = N[i - 1] + FieldSize(fs[i])
  <2>1. i \in 0 .. n /\ i - 1 \in 0 .. n /\ fs[i] = f
    BY <1>3
  <2>2. N[i] = i * b /\ N[i - 1] = (i - 1) * b
    BY <1>2, <2>1
  <2>3. i * b = (i - 1) * b + b
    OBVIOUS
  <2> QED BY <1>1, <2>1, <2>2, <2>3
<1>5. N[0] = 0 /\ N[n] = n * b
  <2>1. 0 \in 0 .. n /\ n \in 0 .. n /\ 0 * b = 0
    OBVIOUS
  <2> QED BY <1>2, <2>1
<1>6. AddsUp(N, fs, n)
  BY <1>4, <1>5 DEF AddsUp
<1> QED BY <1>1, <1>3, <1>5, <1>6 DEF Sized

-----------------------------------------------------------------------------
(* The sizes of messages.                                                  *)

\* The size of an unsigned member.
LEMMA UintSize ==
  ASSUME NEW b \in Nat, b <= INT_MAX, NEW n, BitsRequired(0, b) = n
  PROVE  Uint(0, b) \in Plains /\ FieldSize(Uint(0, b)) = n /\ UintField(Uint(0, b))
<1>1. Uint(0, b) \in Kinds
  BY UintKinds
<1>2. PICK f : f = Uint(0, b)
  OBVIOUS
<1>3. f.kind = "uint" /\ f.min = 0 /\ f.max = b
  BY <1>2 DEF Uint
<1>4. UintField(f)
  <2>1. 0 \in 0 .. INT_MAX /\ b \in 0 .. INT_MAX
    BY IntMax
  <2> QED BY <1>2, <1>3, <2>1 DEF UintField, Uints
<1>5. FieldSize(f) = 0 + n
  BY <1>3 DEF FieldSize, MeasureMember
<1>6. BitsRequired(0, b) \in Nat
  BY <1>3, <1>4, UintWidth
<1>7. FieldSize(f) = n
  BY <1>5, <1>6
<1> QED BY <1>1, <1>2, <1>4, <1>7 DEF Plains, Plain

\* The size of an int.
LEMMA SintSize ==
  ASSUME NEW a \in -1 .. 0, NEW b \in 1 .. 4, NEW n, BitsRequired(0, b) = n
  PROVE  Sint(a, b) \in Plains /\ FieldSize(Sint(a, b)) = n + 1
<1>1. Sint(a, b) \in Kinds
  <2>1. b \in 0 .. 4 /\ a <= b
    OBVIOUS
  <2> QED BY <2>1, SmallSint
<1>2. PICK f : f = Sint(a, b)
  OBVIOUS
<1>3. f.kind = "int" /\ f.min = a /\ f.max = b
  BY <1>2 DEF Sint
<1>4. SintField(f)
  <2>1. a \in - INT_MAX .. INT_MAX /\ b \in - INT_MAX .. INT_MAX
    BY IntMax
  <2>2. f \in Sints
    BY <1>2, <2>1 DEF Sints
  <2> QED BY <1>3, <2>2 DEF SintField
<1>5. AbsMember(f).min = 0 /\ AbsMember(f).max = b
  <2>1. (IF a < 0 /\ b > 0 THEN 0 ELSE Lesser(Abs(a), Abs(b))) = 0
    BY DEF Lesser, Abs
  <2>2. Greater(Abs(a), Abs(b)) = b
    BY DEF Greater, Abs
  <2> QED BY <1>3, <2>1, <2>2 DEF AbsMember, Uint
<1>6. FieldSize(f) = 0 + n + 1
  BY <1>3, <1>5 DEF FieldSize, MeasureMember
<1>7. n \in Nat
  <2>1. f.min \in f.min .. f.max
    BY <1>3
  <2> QED BY <1>4, <1>5, <2>1, SintMoves
<1>8. FieldSize(f) = n + 1
  BY <1>6, <1>7
<1> QED BY <1>1, <1>2, <1>4, <1>8 DEF Plains, Plain

\* The sizes of the members that the messages of the game are made of.
LEMMA GameFields ==
  /\ \A b \in {4, 5, 7} : Uint(0, b) \in Plains /\ FieldSize(Uint(0, b)) = 3
  /\ \A b \in {11, 15} : Uint(0, b) \in Plains /\ FieldSize(Uint(0, b)) = 4
  /\ \A b \in {350, 352, 480} : Uint(0, b) \in Plains /\ FieldSize(Uint(0, b)) = 9
  /\ Uint(0, INT_MAX) \in Plains /\ FieldSize(Uint(0, INT_MAX)) = 31
  /\ Bool \in Plains /\ FieldSize(Bool) = 1
  /\ Type \in Plains /\ FieldSize(Type) = 6
  /\ Sint(0, 4) \in Plains /\ FieldSize(Sint(0, 4)) = 4
  /\ Sint(-1, 4) \in Plains /\ FieldSize(Sint(-1, 4)) = 4
  /\ Sint(-1, 1) \in Plains /\ FieldSize(Sint(-1, 1)) = 2
  /\ Row(15, Uint(0, 7)) \in Plains /\ FieldSize(Row(15, Uint(0, 7))) = 45
<1>1. \A b \in 0 .. 512 : b \in Nat /\ b <= INT_MAX
  BY IntMax
<1>2. \A b \in {4, 5, 7} : Uint(0, b) \in Plains /\ FieldSize(Uint(0, b)) = 3
  <2> TAKE b \in {4, 5, 7}
  <2>1. b \in 0 .. 512 /\ BitsRequired(0, b) = 3
    BY RangeBits
  <2> QED BY <1>1, <2>1, UintSize
<1>3. \A b \in {11, 15} : Uint(0, b) \in Plains /\ FieldSize(Uint(0, b)) = 4
  <2> TAKE b \in {11, 15}
  <2>1. b \in 0 .. 512 /\ BitsRequired(0, b) = 4
    BY RangeBits
  <2> QED BY <1>1, <2>1, UintSize
<1>4. \A b \in {350, 352, 480} : Uint(0, b) \in Plains /\ FieldSize(Uint(0, b)) = 9
  <2> TAKE b \in {350, 352, 480}
  <2>1. b \in 0 .. 512 /\ BitsRequired(0, b) = 9
    BY RangeBits
  <2> QED BY <1>1, <2>1, UintSize
<1>5. Uint(0, INT_MAX) \in Plains /\ FieldSize(Uint(0, INT_MAX)) = 31
  <2>1. INT_MAX \in Nat /\ INT_MAX <= INT_MAX
    BY IntMax
  <2> QED BY <2>1, IntBits, UintSize
<1>6. Bool \in Plains /\ FieldSize(Bool) = 1
  <2>1. 1 \in 0 .. 512 /\ BitsRequired(0, 1) = 1
    BY RangeBits
  <2> QED BY <1>1, <2>1, UintSize DEF Bool
<1>7. Type \in Plains /\ FieldSize(Type) = 6
  <2>1. 32 \in 0 .. 512 /\ BitsRequired(0, 32) = 6
    BY RangeBits
  <2> QED BY <1>1, <2>1, UintSize DEF Type, MAX_MESSAGE_TYPES
<1>8. /\ Sint(0, 4) \in Plains /\ FieldSize(Sint(0, 4)) = 4
      /\ Sint(-1, 4) \in Plains /\ FieldSize(Sint(-1, 4)) = 4
  <2>1. BitsRequired(0, 4) = 3 /\ 3 + 1 = 4 /\ 0 \in -1 .. 0 /\ -1 \in -1 .. 0 /\ 4 \in 1 .. 4
    BY RangeBits
  <2> QED BY <2>1, SintSize
<1>9. Sint(-1, 1) \in Plains /\ FieldSize(Sint(-1, 1)) = 2
  <2>1. BitsRequired(0, 1) = 1 /\ 1 + 1 = 2 /\ -1 \in -1 .. 0 /\ 1 \in 1 .. 4
    BY RangeBits
  <2> QED BY <2>1, SintSize
<1>10. Row(15, Uint(0, 7)) \in Plains /\ FieldSize(Row(15, Uint(0, 7))) = 45
  <2>1. PICK g : g = Uint(0, 7)
    OBVIOUS
  <2>2. UintField(g) /\ g.min = 0 /\ g.max = 7
    <3>1. 7 \in 0 .. 512 /\ BitsRequired(0, 7) = 3
      BY RangeBits
    <3>2. UintField(g)
      BY <1>1, <2>1, <3>1, UintSize
    <3> QED BY <2>1, <3>2 DEF Uint
  <2>3. PICK f : f = Row(15, g)
    OBVIOUS
  <2>4. f \in Kinds /\ Plain(f)
    BY <2>2, <2>3, RowKinds DEF Plain, RowField
  <2>5. f.kind = "row" /\ f.n = 15 /\ f.of = g
    BY <2>3 DEF Row
  <2>6. FieldSize(f) = 0 + 15 * 3
    BY <2>2, <2>5, RangeBits DEF FieldSize, MeasureMember
  <2> QED BY <2>1, <2>3, <2>4, <2>6 DEF Plains
<1> QED BY <1>2, <1>3, <1>4, <1>5, <1>6, <1>7, <1>8, <1>9, <1>10

\* Sequences written out.
LEMMA WrittenOut ==
  ASSUME NEW S, NEW f \in S, NEW g \in S, NEW h \in S
  PROVE  <<f>> \o <<g>> = <<f, g>> /\ <<f, g>> \o <<h>> = <<f, g, h>>
<1>1. PICK a, b, c, d, e : a = <<f>> /\ b = <<g>> /\ c = <<h>> /\ d = <<f, g>> /\ e = <<f, g, h>>
  OBVIOUS
<1>2. a \in Seq(S) /\ Len(a) = 1 /\ a[1] = f /\ b \in Seq(S) /\ Len(b) = 1 /\ b[1] = g
  BY <1>1
<1>3. /\ c \in Seq(S) /\ Len(c) = 1 /\ c[1] = h
      /\ d \in Seq(S) /\ Len(d) = 2 /\ d[1] = f /\ d[2] = g
  BY <1>1
<1>4. e \in Seq(S) /\ Len(e) = 3 /\ e[1] = f /\ e[2] = g /\ e[3] = h
  BY <1>1
<1>5. a \o b = d
  <2>1. /\ a \o b \in Seq(S) /\ Len(a \o b) = Len(a) + Len(b)
        /\ \A i \in 1 .. Len(a) + Len(b) : (a \o b)[i] = IF i <= Len(a) THEN a[i] ELSE b[i - Len(a)]
    BY <1>2, ConcatProperties
  <2>2. Len(a \o b) = Len(d) /\ \A i \in 1 .. Len(a \o b) : (a \o b)[i] = d[i]
    BY <1>2, <1>3, <2>1
  <2> QED BY <1>3, <2>1, <2>2, SeqEqual
<1>6. d \o c = e
  <2>1. /\ d \o c \in Seq(S) /\ Len(d \o c) = Len(d) + Len(c)
        /\ \A i \in 1 .. Len(d) + Len(c) : (d \o c)[i] = IF i <= Len(d) THEN d[i] ELSE c[i - Len(d)]
    BY <1>3, ConcatProperties
  <2>2. Len(d \o c) = Len(e) /\ \A i \in 1 .. Len(d \o c) : (d \o c)[i] = e[i]
    BY <1>3, <1>4, <2>1
  <2> QED BY <1>4, <2>1, <2>2, SeqEqual
<1> QED BY <1>1, <1>5, <1>6

\* Two and three members.
LEMMA SizedFew ==
  ASSUME NEW f \in Plains, NEW g \in Plains
  PROVE  /\ Sized(<<f, g>>, FieldSize(f) + FieldSize(g))
         /\ \A h \in Plains : Sized(<<f, g, h>>, (FieldSize(f) + FieldSize(g)) + FieldSize(h))
<1>1. Sized(<<f>>, FieldSize(f)) /\ Sized(<<g>>, FieldSize(g))
  BY SizedOne
<1>2. <<f>> \o <<g>> = <<f, g>>
  BY WrittenOut
<1>3. Sized(<<f, g>>, FieldSize(f) + FieldSize(g))
  BY <1>1, <1>2, SizedBoth
<1>4. ASSUME NEW h \in Plains
      PROVE  Sized(<<f, g, h>>, (FieldSize(f) + FieldSize(g)) + FieldSize(h))
  <2>1. Sized(<<h>>, FieldSize(h))
    BY SizedOne
  <2>2. <<f, g>> \o <<h>> = <<f, g, h>>
    BY WrittenOut
  <2> QED BY <1>3, <2>1, <2>2, SizedBoth
<1> QED BY <1>3, <1>4

\* The sizes of the members of each message.
LEMMA MemberSizes ==
  /\ Sized(Ping, 35) /\ Sized(Pong, 31) /\ Sized(PlayerConnected, 27) /\ Sized(PlayerReady, 4)
  /\ Sized(GameReady, 0) /\ Sized(RoundStart, 0) /\ Sized(RoundOver, 16)
  /\ Sized(PlayerPosition, 21) /\ Sized(PlayerDropBomb, 11) /\ Sized(PlayerExploded, 3)
  /\ Sized(GameOver, 4) /\ Sized(BonusMap, 495) /\ Sized(PlayerPickupBonus, 11)
  /\ Sized(PlayerApplyBonus, 6) /\ Sized(PlayerKickBomb, 15)
<1>1. PICK id, ready, over, way :
        id = Uint(0, 4) /\ ready = Sint(0, 4) /\ over = Sint(-1, 4) /\ way = Sint(-1, 1)
  OBVIOUS
<1>2. /\ id \in Plains /\ FieldSize(id) = 3 /\ ready \in Plains /\ FieldSize(ready) = 4
      /\ over \in Plains /\ FieldSize(over) = 4 /\ way \in Plains /\ FieldSize(way) = 2
  BY <1>1, GameFields
<1>3. MAX_PLAYERS = 4 /\ MAP_WIDTH = 15 /\ MAP_HEIGHT = 11
  BY DEF MAX_PLAYERS, MAP_WIDTH, MAP_HEIGHT
<1>4. PlayerId = id
  BY <1>1, <1>3 DEF PlayerId
<1>5. Sized(<<PlayerId>>, 3) /\ Sized(PlayerExploded, 3)
  BY <1>2, <1>4, SizedOne DEF PlayerExploded
<1>6. Sized(Ping, 35)
  <2>1. Sized(<<ready, Uint(0, INT_MAX)>>, 4 + 31)
    BY <1>2, GameFields, SizedFew
  <2>2. Ping = <<ready, Uint(0, INT_MAX)>> /\ 4 + 31 = 35
    BY <1>1, <1>3 DEF Ping
  <2> QED BY <2>1, <2>2
<1>7. Sized(Pong, 31)
  BY GameFields, SizedOne DEF Pong
<1>8. Sized(PlayerReady, 4)
  BY <1>1, <1>2, <1>3, SizedOne DEF PlayerReady
<1>9. Sized(GameReady, 0) /\ Sized(RoundStart, 0)
  BY SizedNone DEF GameReady, RoundStart
<1>10. Sized(GameOver, 4)
  BY <1>1, <1>2, <1>3, SizedOne DEF GameOver
<1>11. Sized(RoundOver, 16)
  <2>1. PICK g : g = Uint(0, 5) /\ g \in Plains /\ FieldSize(g) = 3
    BY GameFields
  <2>2. Sized([i \in 1 .. 4 |-> g], 4 * 3)
    BY <2>1, SizedMany
  <2>3. Sized(<<over>> \o [i \in 1 .. 4 |-> g], 4 + 4 * 3)
    BY <1>2, <2>2, SizedOne, SizedBoth
  <2>4. RoundOver = <<over>> \o [i \in 1 .. 4 |-> g]
    BY <1>1, <1>3, <2>1 DEF RoundOver
  <2>5. 4 + 4 * 3 = 16
    OBVIOUS
  <2> QED BY <2>3, <2>4, <2>5
<1>12. Sized(PlayerPosition, 21)
  <2>1. PICK g, h : /\ g = Uint(0, 480) /\ h = Uint(0, 352) /\ g \in Plains /\ h \in Plains
                    /\ FieldSize(g) = 9 /\ FieldSize(h) = 9
    BY GameFields
  <2>a. g \in Plains /\ h \in Plains /\ FieldSize(g) = 9 /\ FieldSize(h) = 9
    BY <2>1
  <2>2. Sized(<<id, g, h>>, (3 + 9) + 9)
    BY <1>2, <2>a, SizedFew
  <2>3. PlayerPosition = <<id, g, h>>
    <3>1. MAP_WIDTH * TILE_SIZE = 480 /\ MAP_HEIGHT * TILE_SIZE = 352
      BY DEF MAP_WIDTH, MAP_HEIGHT, TILE_SIZE
    <3> QED BY <1>4, <2>1, <3>1 DEF PlayerPosition
  <2>4. (3 + 9) + 9 = 21
    OBVIOUS
  <2> QED BY <2>2, <2>3, <2>4
<1>13. Sized(<<PlayerId>> \o Tile, 11)
  <2>1. Sized(<<Uint(0, 15), Uint(0, 11)>>, 4 + 4)
    BY GameFields, SizedFew
  <2>2. Sized(<<PlayerId>> \o <<Uint(0, 15), Uint(0, 11)>>, 3 + (4 + 4))
    BY <1>5, <2>1, SizedBoth
  <2>3. Tile = <<Uint(0, 15), Uint(0, 11)>> /\ 3 + (4 + 4) = 11
    BY <1>3 DEF Tile
  <2> QED BY <2>2, <2>3
<1>14. Sized(PlayerDropBomb, 11) /\ Sized(PlayerPickupBonus, 11)
  BY <1>13 DEF PlayerDropBomb, PlayerPickupBonus
<1>15. Sized(PlayerKickBomb, 15)
  <2>1. Sized(<<way, way>>, 2 + 2)
    BY <1>2, SizedFew
  <2>2. Sized((<<PlayerId>> \o Tile) \o <<way, way>>, 11 + (2 + 2))
    BY <1>13, <2>1, SizedBoth
  <2>3. 11 + (2 + 2) = 15
    OBVIOUS
  <2> QED BY <1>1, <2>2, <2>3 DEF PlayerKickBomb
<1>16. Sized(PlayerApplyBonus, 6)
  <2>1. PICK g : g = Uint(0, 7) /\ g \in Plains /\ FieldSize(g) = 3
    BY GameFields
  <2>2. Sized(<<id, g>>, 3 + 3)
    BY <1>2, <2>1, SizedFew
  <2>3. PlayerApplyBonus = <<id, g>> /\ 3 + 3 = 6
    BY <1>4, <2>1 DEF PlayerApplyBonus, BONUS_TYPES_COUNT
  <2> QED BY <2>2, <2>3
<1>17. Sized(BonusMap, 495)
  <2>1. PICK g : g = Row(15, Uint(0, 7)) /\ g \in Plains /\ FieldSize(g) = 45
    BY GameFields
  <2>2. Sized([i \in 1 .. 11 |-> g], 11 * 45)
    BY <2>1, SizedMany
  <2>3. BonusMap = [i \in 1 .. 11 |-> g]
    BY <1>3, <2>1 DEF BonusMap, BONUS_TYPES_COUNT
  <2>4. 11 * 45 = 495
    OBVIOUS
  <2> QED BY <2>2, <2>3, <2>4
<1>18. Sized(PlayerConnected, 27)
  <2>1. PICK p, q, r, s : p = Uint(0, 15) /\ q = Bool /\ r = Uint(0, 350) /\ s = Uint(0, 5)
    OBVIOUS
  <2>2. /\ p \in Plains /\ FieldSize(p) = 4 /\ q \in Plains /\ FieldSize(q) = 1
        /\ r \in Plains /\ FieldSize(r) = 9 /\ s \in Plains /\ FieldSize(s) = 3
    BY <2>1, GameFields
  <2>3. Sized(<<ready, p, q>>, (4 + 4) + 1) /\ Sized(<<id, r, s>>, (3 + 9) + 3) /\ Sized(<<id>>, 3)
    BY <1>2, <2>2, SizedFew, SizedOne
  <2>4. Sized(<<ready, p, q>> \o <<id, r, s>>, ((4 + 4) + 1) + ((3 + 9) + 3))
    BY <2>3, SizedBoth
  <2>5. Sized((<<ready, p, q>> \o <<id, r, s>>) \o <<id>>, (((4 + 4) + 1) + ((3 + 9) + 3)) + 3)
    BY <2>3, <2>4, SizedBoth
  <2>6. PlayerConnected = (<<ready, p, q>> \o <<id, r, s>>) \o <<id>>
    BY <1>1, <1>3, <2>1 DEF PlayerConnected, GameSettings, MAX_REQUIRED_ROUNDS
  <2>7. (((4 + 4) + 1) + ((3 + 9) + 3)) + 3 = 27
    OBVIOUS
  <2> QED BY <2>5, <2>6, <2>7
<1> QED BY <1>5, <1>6, <1>7, <1>8, <1>9, <1>10, <1>11, <1>12, <1>14, <1>15, <1>16, <1>17, <1>18

\* The sizes of the messages but PLAYER_CONNECTED.
Smalls == {41, 37, 10, 6, 22, 27, 17, 9, 12, 21}
Larges == {501}

\* A message but PLAYER_CONNECTED has one of these.
LEMMA PlainMessage ==
  ASSUME NEW m, WellFormed(m), m.type # PLAYER_CONNECTED
  PROVE  \E s \in Smalls \cup Larges : Sized(AllMembers(m), s)
<1>1. m.type \in 0 .. 14
  BY NicknameMembers
<1>2. PICK i : i = m.type + 1 /\ i \in 1 .. 15 /\ i # 3
  BY <1>1 DEF PLAYER_CONNECTED
<1>3. PICK f : f = Factory
  OBVIOUS
<1>4. /\ f[1] = Ping /\ f[2] = Pong /\ f[4] = PlayerReady
      /\ f[5] = GameReady /\ f[6] = RoundStart /\ f[7] = RoundOver /\ f[8] = PlayerPosition
      /\ f[9] = PlayerDropBomb /\ f[10] = PlayerExploded /\ f[11] = GameOver
      /\ f[12] = BonusMap /\ f[13] = PlayerPickupBonus /\ f[14] = PlayerApplyBonus
      /\ f[15] = PlayerKickBomb
  BY <1>3 DEF Factory
<1>5. \E s \in {35, 31, 4, 0, 16, 21, 11, 3, 495, 6, 15} : Sized(f[i], s)
  <2>1. i \in {1, 2, 4, 5, 6, 7, 8, 9, 10, 11, 12, 13, 14, 15}
    BY <1>2
  <2> QED BY <1>4, <2>1, MemberSizes
<1>6. PICK s \in {35, 31, 4, 0, 16, 21, 11, 3, 495, 6, 15} : Sized(f[i], s)
  BY <1>5
<1>7. AllMembers(m) = <<Type>> \o (f[i] \o <<>>)
  <2>1. Nicknames(m.type, f[i], m.values) = <<>>
    BY DEF Nicknames
  <2> QED BY <1>2, <1>3, <2>1 DEF AllMembers, Members
<1>8. Sized(<<Type>>, 6)
  BY GameFields, SizedOne
<1>9. Sized(<<Type>> \o (f[i] \o <<>>), 6 + (s + 0))
  BY <1>6, <1>8, SizedNone, SizedBoth
<1>10. 6 + (s + 0) \in Smalls \cup Larges
  BY DEF Smalls, Larges
<1> QED BY <1>7, <1>9, <1>10

\* What is measured for such a message is what it takes.
LEMMA PlainMessageMoves ==
  ASSUME NEW w, Good(w), NEW m, WellFormed(m), NEW s, Sized(AllMembers(m), s)
  PROVE  MessageSize(m) = s /\ s \in Nat /\ Moves(w, WriteMessage(w, m), s)
<1>1. PICK W, n : /\ n \in Nat /\ n = Len(AllMembers(m)) /\ WriteMessage(w, m) = W[n]
                  /\ Suits(AllMembers(m), AllValues(m), n)
                  /\ Chain(W, w, AllMembers(m), AllValues(m), n)
  BY MessageWritten
<1>2. PICK N : AddsUp(N, AllMembers(m), n) /\ N[n] = s
  BY <1>1 DEF Sized
<1>3. \A i \in 1 .. n : Field(AllMembers(m)[i])
  BY <1>1 DEF Suits
<1>4. PICK M : MeasureChain(M, AllMembers(m), n) /\ Measured(0, AllMembers(m)) = M[n]
  BY <1>1, <1>3, MembersAreMeasured
<1>5. n \in 0 .. n /\ n <= n
  BY <1>1
<1>6. N[n] \in Nat /\ M[n] = N[n] /\ Moves(w, W[n], N[n])
  BY <1>1, <1>2, <1>4, <1>5, PlainRun
<1>7. MessageSize(m) = Measured(0, AllMembers(m))
  BY DEF MessageSize, AllMembers
<1> QED BY <1>1, <1>2, <1>4, <1>6, <1>7

-----------------------------------------------------------------------------
(* The size of PLAYER_CONNECTED, and what it takes.                        *)

\* A member of the nicknames.
Nickname == ByteArray(PLAYER_NICKNAME_MAX_LENGTH)

\* A PLAYER_CONNECTED with k nicknames is 33 bits and its nicknames.
LEMMA ConnectionParts ==
  ASSUME NEW m, WellFormed(m), m.type = PLAYER_CONNECTED
  PROVE  \E k \in 0 .. 4 : \E N :
           /\ Len(AllMembers(m)) = 8 + k
           /\ AddsUp(N, AllMembers(m), 8) /\ N[8] = 33
           /\ \A i \in 1 .. k : AllMembers(m)[8 + i] = Nickname
<1>1. Fixed(m) = PlayerConnected /\ Len(Fixed(m)) = 7 /\ Fixed(m)[7] = Uint(0, MAX_PLAYERS)
      /\ 7 \in DOMAIN Fixed(m)
  BY FactoryMembers, ConnectionMembers DEF Fixed
<1>2. m.values[7] \in 0 .. 4
  <2>1. m.values[7] \in Values(Fixed(m)[7])
    BY <1>1 DEF WellFormed, Fixed
  <2>2. Values(Uint(0, MAX_PLAYERS)) = 0 .. 4
    BY DEF Values, Uint, MAX_PLAYERS
  <2> QED BY <1>1, <2>1, <2>2
<1>3. PICK k \in 0 .. 4 : k = m.values[7]
  BY <1>2
<1>4. Names(m) = [i \in 1 .. k |-> Nickname]
  BY <1>1, <1>3 DEF Names, Nicknames, Nickname
<1>5. Len(Names(m)) = k /\ \A i \in 1 .. k : Names(m)[i] = Nickname
  BY <1>4
<1>6. /\ Len(AllMembers(m)) = 1 + (7 + k) /\ AllMembers(m)[1] = Type
      /\ Segment(AllMembers(m), AllValues(m), 1 + (7 + k), 1, Fixed(m), m.values)
      /\ Segment(AllMembers(m), AllValues(m), 1 + (7 + k), 1 + 7, Names(m), NameValues(m))
  <2>1. 7 = FixedLength(m) /\ k = NamesLength(m)
    BY <1>1, <1>5 DEF FixedLength, NamesLength
  <2> QED BY <2>1, MessageParts
<1>7. PICK all : all = AllMembers(m)
  OBVIOUS
<1>8. Len(all) = 8 + k
  <2>1. 1 + (7 + k) = 8 + k
    BY <1>3
  <2> QED BY <1>6, <1>7, <2>1
<1>9. \A i \in 1 .. 7 : all[1 + i] = PlayerConnected[i]
  BY <1>1, <1>6, <1>7 DEF Segment
<1>10. \A i \in 1 .. k : all[8 + i] = Nickname
  <2>1. \A i \in 1 .. k : all[(1 + 7) + i] = Nickname
    BY <1>5, <1>6, <1>7 DEF Segment
  <2>2. 1 + 7 = 8
    OBVIOUS
  <2> QED BY <2>1, <2>2
<1>11. PICK hs : hs = <<Type>> \o PlayerConnected
  OBVIOUS
<1>12. Sized(hs, 6 + 27)
  <2>1. Sized(<<Type>>, 6)
    BY GameFields, SizedOne
  <2>2. Sized(PlayerConnected, 27)
    BY MemberSizes
  <2> QED BY <1>11, <2>1, <2>2, SizedBoth
<1>13. Len(hs) = 8 /\ \A i \in 1 .. 8 : hs[i] = all[i]
  <2>1. PICK one : one = <<Type>>
    OBVIOUS
  <2>2. one \in Seq(Kinds) /\ Len(one) = 1 /\ one[1] = Type
    BY <2>1, HeadFields, FieldKinds
  <2>3. PlayerConnected \in Seq(Kinds) /\ Len(PlayerConnected) = 7
    BY ConnectionMembers
  <2>4. PICK c : c = PlayerConnected
    OBVIOUS
  <2>5. /\ Len(one \o c) = Len(one) + Len(c)
        /\ \A i \in 1 .. Len(one) + Len(c) :
             (one \o c)[i] = IF i <= Len(one) THEN one[i] ELSE c[i - Len(one)]
    BY <2>2, <2>3, <2>4, ConcatProperties
  <2>a. hs = one \o c /\ Len(c) = 7
    BY <1>11, <2>1, <2>3, <2>4
  <2>6. Len(hs) = 8 /\ \A i \in 1 .. 8 : hs[i] = IF i <= 1 THEN Type ELSE c[i - 1]
    <3>1. one[1] = Type /\ Len(one) = 1
      BY <2>2
    <3>2. \A i \in 1 .. 8 : i <= 1 => i = 1
      OBVIOUS
    <3> HIDE DEF Type
    <3> QED BY <2>5, <2>a, <3>1, <3>2
  <2>7. ASSUME NEW i \in 1 .. 8 PROVE hs[i] = all[i]
    <3>1. CASE i = 1
      BY <1>6, <1>7, <2>6, <3>1
    <3>2. CASE i # 1
      <4>1. PICK j \in 1 .. 7 : j = i - 1 /\ i = 1 + j /\ ~ (i <= 1)
        BY <3>2
      <4> QED BY <1>9, <2>4, <2>6, <4>1
    <3> QED BY <3>1, <3>2
  <2> QED BY <2>6, <2>7
<1>14. PICK N : AddsUp(N, hs, 8) /\ N[8] = 33
  BY <1>12, <1>13 DEF Sized
<1>15. AddsUp(N, all, 8)
  BY <1>13, <1>14 DEF AddsUp
<1> QED BY <1>7, <1>8, <1>10, <1>14, <1>15

\* The bits that are measured for k nicknames, and those they take from x on.
Measures == <<33, 191, 289, 447, 545>>
Takes(x, k) == IF k = 0 THEN 33 ELSE (Up(x + 33) - x) + 128 * k

\* The boundary that is less than a word away is the next one.
LEMMA NextWordIs ==
  ASSUME NEW x \in Nat, NEW y \in Nat, y % 32 = 0, x < y, y < x + 32
  PROVE  Up(x) = y
<1>1. PICK z \in Nat : z = Up(x) /\ x <= z /\ z <= x + 31 /\ z % 32 = 0
  BY UpIs
<1>2. PICK i \in Nat, j \in Nat : y = 32 * i /\ z = 32 * j
  BY <1>1
<1>3. i = j
  BY <1>1, <1>2
<1> QED BY <1>1, <1>2, <1>3

\* The size that is measured.
LEMMA ConnectionMeasured ==
  ASSUME NEW fs, NEW k \in 0 .. 4, NEW M, MeasureChain(M, fs, 8 + k), M[8] = 33,
         \A i \in 1 .. k : fs[8 + i] = Nickname
  PROVE  M[8 + k] = Measures[k + 1]
<1>1. ASSUME NEW i \in 1 .. k, NEW x \in Nat, M[7 + i] = x
      PROVE  M[8 + i] = x + 2 * (Up(x) - x) + 96
  <2>1. 8 + i \in 1 .. 8 + k /\ (8 + i) - 1 = 7 + i
    OBVIOUS
  <2>2. M[8 + i] = MeasureMember(M[(8 + i) - 1], fs[8 + i])
    BY <2>1 DEF MeasureChain
  <2> QED BY <1>1, <2>1, <2>2, NicknameSize DEF Nickname
<1>2. Up(33) = 64 /\ Up(191) = 192 /\ Up(289) = 320 /\ Up(447) = 448
  <2>1. 64 % 32 = 0 /\ 192 % 32 = 0 /\ 320 % 32 = 0 /\ 448 % 32 = 0
    OBVIOUS
  <2>2. Up(33) = 64
    BY <2>1, NextWordIs
  <2>3. Up(191) = 192
    BY <2>1, NextWordIs
  <2>4. Up(289) = 320
    BY <2>1, NextWordIs
  <2>5. Up(447) = 448
    BY <2>1, NextWordIs
  <2> QED BY <2>2, <2>3, <2>4, <2>5
<1>3. k >= 1 => M[9] = 191
  <2> SUFFICES ASSUME k >= 1 PROVE M[9] = 191
    OBVIOUS
  <2>1. 1 \in 1 .. k /\ 7 + 1 = 8 /\ 8 + 1 = 9
    OBVIOUS
  <2>2. M[9] = 33 + 2 * (64 - 33) + 96
    BY <1>1, <1>2, <2>1
  <2> QED BY <2>2
<1>4. k >= 2 => M[10] = 289
  <2> SUFFICES ASSUME k >= 2 PROVE M[10] = 289
    OBVIOUS
  <2>1. 2 \in 1 .. k /\ 7 + 2 = 9 /\ 8 + 2 = 10
    OBVIOUS
  <2>2. M[10] = 191 + 2 * (192 - 191) + 96
    BY <1>1, <1>2, <1>3, <2>1
  <2> QED BY <2>2
<1>5. k >= 3 => M[11] = 447
  <2> SUFFICES ASSUME k >= 3 PROVE M[11] = 447
    OBVIOUS
  <2>1. 3 \in 1 .. k /\ 7 + 3 = 10 /\ 8 + 3 = 11
    OBVIOUS
  <2>2. M[11] = 289 + 2 * (320 - 289) + 96
    BY <1>1, <1>2, <1>4, <2>1
  <2> QED BY <2>2
<1>6. k = 4 => M[12] = 545
  <2> SUFFICES ASSUME k = 4 PROVE M[12] = 545
    OBVIOUS
  <2>1. 4 \in 1 .. k /\ 7 + 4 = 11 /\ 8 + 4 = 12
    OBVIOUS
  <2>2. M[12] = 447 + 2 * (448 - 447) + 96
    BY <1>1, <1>2, <1>5, <2>1
  <2> QED BY <2>2
<1>7. k = 0 \/ k = 1 \/ k = 2 \/ k = 3 \/ k = 4
  OBVIOUS
<1> QED BY <1>3, <1>4, <1>5, <1>6, <1>7 DEF Measures

\* A writer at x, in the buffer of n words.
At(w, x, n) == Ready(w) /\ ~ w.failed /\ w.size = n /\ Pos(w) = x

\* A writer with enough room gets where it goes.
LEMMA AtMoves ==
  ASSUME NEW w, NEW v, NEW x, NEW n, NEW k, At(w, x, n), Moves(w, v, k), x + k <= 32 * n
  PROVE  At(v, x + k, n)
<1>1. Fits(w, k)
  <2>1. Pos(w) + k <= 32 * w.size
    BY DEF At
  <2> QED BY <2>1, FitsIs
<1> QED BY <1>1 DEF At, Moves

\* What it takes.
LEMMA ConnectionMoves ==
  ASSUME NEW w, NEW x \in Nat, NEW n \in Nat, At(w, x, n), Good(w),
         NEW m, WellFormed(m), m.type = PLAYER_CONNECTED
  PROVE  \E k \in 0 .. 4 :
           /\ MessageSize(m) = Measures[k + 1]
           /\ x + Takes(x, k) <= 32 * n => At(WriteMessage(w, m), x + Takes(x, k), n)
<1>0. PICK k \in 0 .. 4 : \E N : /\ Len(AllMembers(m)) = 8 + k
                                 /\ AddsUp(N, AllMembers(m), 8) /\ N[8] = 33
                                 /\ \A i \in 1 .. k : AllMembers(m)[8 + i] = Nickname
  BY ConnectionParts
<1>1. PICK N : /\ Len(AllMembers(m)) = 8 + k
               /\ AddsUp(N, AllMembers(m), 8) /\ N[8] = 33
               /\ \A i \in 1 .. k : AllMembers(m)[8 + i] = Nickname
  BY <1>0
<1>2. PICK W : /\ WriteMessage(w, m) = W[8 + k]
               /\ Suits(AllMembers(m), AllValues(m), 8 + k)
               /\ Chain(W, w, AllMembers(m), AllValues(m), 8 + k)
  BY <1>1, MessageWritten
<1>3. PICK all, vals : all = AllMembers(m) /\ vals = AllValues(m)
  OBVIOUS
<1>4. 8 + k \in Nat /\ 8 <= 8 + k /\ 8 \in 0 .. 8
  OBVIOUS
<1>5. PICK M : MeasureChain(M, all, 8 + k) /\ Measured(0, all) = M[8 + k]
  <2>1. \A i \in 1 .. 8 + k : Field(all[i])
    BY <1>2, <1>3 DEF Suits
  <2> QED BY <1>1, <1>3, <1>4, <2>1, MembersAreMeasured
<1>6. M[8] = 33 /\ Moves(w, W[8], 33)
  BY <1>1, <1>2, <1>3, <1>4, <1>5, PlainRun
<1>7. MessageSize(m) = Measures[k + 1]
  <2>1. MessageSize(m) = Measured(0, all)
    BY <1>3 DEF MessageSize, AllMembers
  <2>2. M[8 + k] = Measures[k + 1]
    BY <1>1, <1>3, <1>5, <1>6, ConnectionMeasured
  <2> QED BY <1>5, <2>1, <2>2
<1>8. ASSUME x + Takes(x, k) <= 32 * n PROVE At(W[8 + k], x + Takes(x, k), n)
  <2>1. PICK u : u = Up(x + 33)
    OBVIOUS
  <2>2. u \in Nat /\ x + 33 <= u /\ u % 32 = 0
    BY <2>1, UpIs
  <2>3. CASE k = 0
    <3>1. Takes(x, k) = 33 /\ 8 + k = 8
      BY <2>3 DEF Takes
    <3> QED BY <1>6, <1>8, <3>1, AtMoves
  <2>4. CASE k # 0
    <3>1. x + Takes(x, k) = u + 128 * k
      <4>1. Takes(x, k) = (u - x) + 128 * k
        BY <2>1, <2>4 DEF Takes
      <4> QED BY <2>2, <4>1
    <3>2. u + 128 * k <= 32 * n
      BY <1>8, <3>1
    <3>3. At(W[8], x + 33, n)
      <4>1. x + 33 <= 32 * n
        BY <2>2, <3>2
      <4> QED BY <1>6, <4>1, AtMoves
    <3>4. ASSUME NEW i \in 1 .. k, NEW y \in Nat, At(W[7 + i], y, n), Up(y) + 128 <= 32 * n
          PROVE  At(W[8 + i], Up(y) + 128, n)
      <4>1. 8 + i \in 1 .. 8 + k /\ (8 + i) - 1 = 7 + i /\ 7 + i \in 0 .. 8 + k
        OBVIOUS
      <4>2. W[8 + i] = WriteMember(W[7 + i], all[8 + i], vals[8 + i])
            /\ vals[8 + i] \in Values(all[8 + i])
        BY <1>2, <1>3, <4>1 DEF Chain, Suits
      <4>3. PICK f : f = Nickname /\ f = all[8 + i] /\ BytesField(f) /\ WordsOf(f) = 4
        BY <1>1, <1>3, NicknameSize DEF Nickname
      <4>4. vals[8 + i] \in [1 .. Words(f) -> Word]
            /\ W[8 + i] = WriteBytes(W[7 + i], f, vals[8 + i])
        <5>1. PICK g, v : g = W[7 + i] /\ v = vals[8 + i]
          OBVIOUS
        <5>2. Values(f) = [1 .. Words(f) -> Word] /\ WriteMember(g, f, v) = WriteBytes(g, f, v)
          BY <4>3, BytesKind
        <5>3. v \in Values(f) /\ W[8 + i] = WriteMember(g, f, v)
          BY <4>2, <4>3, <5>1
        <5> QED BY <5>1, <5>2, <5>3
      <4>5. Pos(W[7 + i]) = y /\ Ready(W[7 + i])
        BY <3>4 DEF At
      <4>6. Moves(W[7 + i], W[8 + i], (Up(Pos(W[7 + i])) - Pos(W[7 + i])) + 32 * WordsOf(f))
        BY <4>3, <4>4, <4>5, BytesMove
      <4>7. Moves(W[7 + i], W[8 + i], (Up(y) - y) + 32 * 4)
        BY <4>3, <4>5, <4>6
      <4>8. Up(y) \in Nat /\ y <= Up(y) /\ y + ((Up(y) - y) + 32 * 4) = Up(y) + 128
        BY <3>4, UpIs
      <4>9. y + ((Up(y) - y) + 32 * 4) <= 32 * n
        BY <3>4, <4>8
      <4> QED BY <3>4, <4>7, <4>8, <4>9, AtMoves
    <3> DEFINE S == {i \in 0 .. k : i # 0 => At(W[8 + i], u + 128 * i, n)}
    <3>5. 0 \in S
      OBVIOUS
    <3>6. ASSUME NEW i \in 0 .. k - 1, i \in S PROVE i + 1 \in S
      <4>1. i + 1 \in 1 .. k /\ i + 1 \in 0 .. k /\ 7 + (i + 1) = 8 + i /\ i + 1 \in Nat
        OBVIOUS
      <4>2. u + 128 * (i + 1) <= 32 * n
        <5>1. u + 128 * (i + 1) <= u + 128 * k
          BY <2>2
        <5> QED BY <2>2, <3>2, <5>1
      <4>3. CASE i = 0
        <5>1. At(W[7 + 1], x + 33, n) /\ Up(x + 33) + 128 <= 32 * n /\ 1 \in 1 .. k
          <6>1. 7 + 1 = 8 /\ 128 * (0 + 1) = 128 /\ 1 \in 1 .. k
            BY <4>3
          <6> QED BY <2>1, <3>3, <4>2, <4>3, <6>1
        <5>2. At(W[8 + 1], Up(x + 33) + 128, n)
          BY <3>4, <5>1
        <5>3. 0 + 1 = 1 /\ 128 * 1 = 128 /\ 1 \in 0 .. k
          BY <5>1
        <5> QED BY <2>1, <4>3, <5>2, <5>3
      <4>4. CASE i # 0
        <5>1. PICK y \in Nat : y = u + 128 * i
          BY <2>2
        <5>2. At(W[7 + (i + 1)], y, n)
          BY <3>6, <4>1, <4>4, <5>1
        <5>3. Up(y) = y
          <6>1. y % 32 = 0
            <7>1. PICK q \in Nat : u = 32 * q
              BY <2>2
            <7>2. y = 32 * (q + 4 * i) + 0
              BY <5>1, <7>1
            <7>3. q + 4 * i \in Nat
              BY <7>1
            <7> QED BY <7>2, <7>3
          <6> QED BY <6>1 DEF Up
        <5>4. y + 128 = u + 128 * (i + 1)
          BY <2>2, <5>1
        <5>5. Up(y) + 128 <= 32 * n
          BY <4>2, <5>3, <5>4
        <5>6. At(W[8 + (i + 1)], y + 128, n)
          BY <3>4, <4>1, <5>2, <5>3, <5>5
        <5> QED BY <4>1, <5>4, <5>6
      <4> QED BY <4>3, <4>4
    <3> HIDE DEF S
    <3>7. k \in 0 .. k /\ k \in Nat
      OBVIOUS
    <3>8. k \in S
      BY <3>5, <3>6, <3>7, SetInduction
    <3> QED BY <2>4, <3>1, <3>8 DEF S
  <2> QED BY <2>3, <2>4
<1> QED BY <1>2, <1>7, <1>8

-----------------------------------------------------------------------------
(* What fits a packet.                                                     *)

\* Four messages but PLAYER_CONNECTED, or none in the place of some of them.
Any == Smalls \cup Larges \cup {0}

\* Those before and those behind the PLAYER_CONNECTED of a packet.
Splits(p, q) ==
  \E a, b, c, d \in Any : p + q = ((a + b) + c) + d /\ p \in {0, a, a + b, (a + b) + c, ((a + b) + c) + d}

\* Three small sizes that are 73 together: no part of them ends where the padding
\* would be a whole word less a bit.
Bad == {8, 29, 40, 61, 72}

\* No part of three small sizes that are 73 together is one of those.
LEMMA SmallSums ==
  ASSUME NEW u \in Smalls \cup {0}, NEW v \in Smalls \cup {0}, NEW t \in Smalls \cup {0}, (u + v) + t = 73
  PROVE  /\ u \in 0 .. 73 \ Bad /\ u + v \in 0 .. 73 \ Bad
<1>1. ASSUME NEW x \in Smalls \cup {0} PROVE x \in 0 .. 41 /\ x \notin Bad \cup {65, 44, 33, 1}
  BY DEF Smalls, Bad
<1>2. u \in 0 .. 41 /\ v \in 0 .. 41 /\ t \in 0 .. 41 /\ u \notin Bad
      /\ t \notin {65, 44, 33, 1}
  BY <1>1
<1>3. u + v # 61
  BY DEF Smalls
<1>4. u + v = 73 - t
  BY <1>2
<1>5. u + v \notin Bad
  BY <1>2, <1>3, <1>4 DEF Bad
<1> QED BY <1>2, <1>4, <1>5

\* Where such a part ends, with and without BONUS_MAP.
LEMMA Offsets ==
  ASSUME NEW r \in 0 .. 73 \ Bad
  PROVE  (36 + r) % 32 # 1 /\ (36 + (501 + r)) % 32 # 1
BY DEF Bad

\* The sum of two sizes.
LEMMA TwoSizes ==
  ASSUME NEW x \in 0 .. 41 \cup {501}, NEW y \in 0 .. 41 \cup {501}
  PROVE  x + y \in Nat /\ (x + y <= 82 \/ (501 <= x + y /\ x + y <= 542) \/ x + y = 1002)
<1>1. CASE x = 501 /\ y = 501
  BY <1>1
<1>2. CASE x = 501 /\ y \in 0 .. 41
  BY <1>2
<1>3. CASE x \in 0 .. 41 /\ y = 501
  BY <1>3
<1>4. CASE x \in 0 .. 41 /\ y \in 0 .. 41
  BY <1>4
<1> QED BY <1>1, <1>2, <1>3, <1>4

\* The sizes of four messages: none, one or more of them a BONUS_MAP.
LEMMA FourSizes ==
  ASSUME NEW a \in Any, NEW b \in Any, NEW c \in Any, NEW d \in Any
  PROVE  ((a + b) + c) + d <= 164 \/ (501 <= ((a + b) + c) + d /\ ((a + b) + c) + d <= 624)
         \/ ((a + b) + c) + d >= 1002
<1>1. \A x \in Any : x \in 0 .. 41 \cup {501}
  BY DEF Any, Smalls, Larges
<1>2. PICK u \in Nat : u = a + b /\ (u <= 82 \/ (501 <= u /\ u <= 542) \/ u = 1002)
  BY <1>1, TwoSizes
<1>3. PICK v \in Nat : v = c + d /\ (v <= 82 \/ (501 <= v /\ v <= 542) \/ v = 1002)
  BY <1>1, TwoSizes
<1>4. ((a + b) + c) + d = u + v
  <2>1. a \in Nat /\ b \in Nat /\ c \in Nat /\ d \in Nat
    BY <1>1
  <2> QED BY <1>2, <1>3, <2>1
<1>5. u + v <= 164 \/ (501 <= u + v /\ u + v <= 624) \/ u + v >= 1002
  BY <1>2, <1>3
<1> QED BY <1>4, <1>5

\* With a BONUS_MAP and three others of 73 bits, the padding is less than 31 bits.
LEMMA TightPacket ==
  ASSUME NEW p \in Nat, NEW q \in Nat, Splits(p, q), p + q = 574
  PROVE  (36 + p) % 32 # 1
<1>1. PICK a \in Any, b \in Any, c \in Any, d \in Any :
        574 = ((a + b) + c) + d /\ p \in {0, a, a + b, (a + b) + c, ((a + b) + c) + d}
  BY DEF Splits
<1>2. \A x \in Any : x \in Smalls \cup {0} \/ x = 501
  BY DEF Any, Larges
<1>3. \A x \in Smalls \cup {0} : x \in 0 .. 41
  BY DEF Smalls
<1>4. 0 \in 0 .. 73 \ Bad /\ 73 \in 0 .. 73 \ Bad
  BY DEF Bad
<1>5. ASSUME NEW r \in 0 .. 73 \ Bad, p = r \/ p = 501 + r PROVE (36 + p) % 32 # 1
  BY <1>5, Offsets
<1>6. CASE a = 501
  <2>1. b \in Smalls \cup {0} /\ c \in Smalls \cup {0} /\ d \in Smalls \cup {0} /\ (b + c) + d = 73
    BY <1>1, <1>2, <1>3, <1>6
  <2>2. b \in 0 .. 73 \ Bad /\ b + c \in 0 .. 73 \ Bad
    BY <2>1, SmallSums
  <2>3. p = 0 \/ p = 501 + 0 \/ p = 501 + b \/ p = 501 + (b + c) \/ p = 501 + 73
    BY <1>1, <1>3, <1>6, <2>1
  <2> QED BY <1>4, <1>5, <2>2, <2>3
<1>7. CASE b = 501
  <2>1. a \in Smalls \cup {0} /\ c \in Smalls \cup {0} /\ d \in Smalls \cup {0} /\ (a + c) + d = 73
    BY <1>1, <1>2, <1>3, <1>7
  <2>2. a \in 0 .. 73 \ Bad /\ a + c \in 0 .. 73 \ Bad
    BY <2>1, SmallSums
  <2>3. p = 0 \/ p = a \/ p = 501 + a \/ p = 501 + (a + c) \/ p = 501 + 73
    BY <1>1, <1>3, <1>7, <2>1
  <2> QED BY <1>4, <1>5, <2>2, <2>3
<1>8. CASE c = 501
  <2>1. a \in Smalls \cup {0} /\ b \in Smalls \cup {0} /\ d \in Smalls \cup {0} /\ (a + b) + d = 73
    BY <1>1, <1>2, <1>3, <1>8
  <2>2. a \in 0 .. 73 \ Bad /\ a + b \in 0 .. 73 \ Bad
    BY <2>1, SmallSums
  <2>3. p = 0 \/ p = a \/ p = a + b \/ p = 501 + (a + b) \/ p = 501 + 73
    BY <1>1, <1>3, <1>8, <2>1
  <2> QED BY <1>4, <1>5, <2>2, <2>3
<1>9. CASE d = 501
  <2>1. a \in Smalls \cup {0} /\ b \in Smalls \cup {0} /\ c \in Smalls \cup {0} /\ (a + b) + c = 73
    BY <1>1, <1>2, <1>3, <1>9
  <2>2. a \in 0 .. 73 \ Bad /\ a + b \in 0 .. 73 \ Bad
    BY <2>1, SmallSums
  <2>3. p = 0 \/ p = a \/ p = a + b \/ p = 73 \/ p = 501 + 73
    BY <1>1, <1>3, <1>9, <2>1
  <2> QED BY <1>4, <1>5, <2>2, <2>3
<1>10. a = 501 \/ b = 501 \/ c = 501 \/ d = 501
  <2>1. SUFFICES ASSUME a # 501, b # 501, c # 501, d # 501 PROVE FALSE
    OBVIOUS
  <2>2. a \in 0 .. 41 /\ b \in 0 .. 41 /\ c \in 0 .. 41 /\ d \in 0 .. 41
    BY <1>2, <1>3, <2>1
  <2>3. ((a + b) + c) + d = 574
    BY <1>1
  <2> QED BY <2>2, <2>3
<1> QED BY <1>6, <1>7, <1>8, <1>9, <1>10

\* A PLAYER_CONNECTED that is measured to fit among four other messages does.
LEMMA ConnectionFits ==
  ASSUME NEW p \in Nat, NEW q \in Nat, Splits(p, q), NEW k \in 0 .. 4,
         ((p + Measures[k + 1]) + q) + 3 <= 1024
  PROVE  ((3 + p) + Takes(3 + p, k)) + q <= 1024 /\ Takes(3 + p, k) \in Nat
<1>1. p + q <= 164 \/ (501 <= p + q /\ p + q <= 624) \/ p + q >= 1002
  <2>1. PICK a \in Any, b \in Any, c \in Any, d \in Any : p + q = ((a + b) + c) + d
    BY DEF Splits
  <2> QED BY <2>1, FourSizes
<1>2. PICK u \in Nat : u = Up(36 + p) /\ 36 + p <= u /\ u <= 36 + p + 31
                       /\ (u = 36 + p + 31 => (36 + p) % 32 = 1)
  <2>1. 36 + p \in Nat
    OBVIOUS
  <2> QED BY <2>1, UpIs
<1>3. (3 + p) + 33 = 36 + p
  OBVIOUS
<1>4. k # 0 => Takes(3 + p, k) = (u - (3 + p)) + 128 * k
  BY <1>2, <1>3 DEF Takes
<1>5. CASE k = 0
  <2>1. Takes(3 + p, k) = 33 /\ Measures[k + 1] = 33
    BY <1>5 DEF Takes, Measures
  <2> QED BY <2>1
<1>6. CASE k = 1
  <2>1. Measures[k + 1] = 191 /\ Takes(3 + p, k) = (u - (3 + p)) + 128
    BY <1>4, <1>6 DEF Measures
  <2> QED BY <1>1, <1>2, <2>1
<1>7. CASE k = 2
  <2>1. Measures[k + 1] = 289 /\ Takes(3 + p, k) = (u - (3 + p)) + 256
    BY <1>4, <1>7 DEF Measures
  <2> QED BY <1>1, <1>2, <2>1
<1>8. CASE k = 3
  <2>1. Measures[k + 1] = 447 /\ Takes(3 + p, k) = (u - (3 + p)) + 384
    BY <1>4, <1>8 DEF Measures
  <2>2. p + q = 574 => u <= 36 + p + 30
    BY <1>2, TightPacket
  <2> QED BY <1>1, <1>2, <2>1, <2>2
<1>9. CASE k = 4
  <2>1. Measures[k + 1] = 545 /\ Takes(3 + p, k) = (u - (3 + p)) + 512
    BY <1>4, <1>9 DEF Measures
  <2> QED BY <1>1, <1>2, <2>1
<1> QED BY <1>5, <1>6, <1>7, <1>8, <1>9

-----------------------------------------------------------------------------
(* The writers of a packet.                                                *)

\* The sizes of the first messages of a packet.
Sums(N, msgs, n) == N[0] = 0 /\ \A i \in 1 .. n : N[i] = N[i - 1] + MessageSize(msgs[i])

\* The size of a message.
LEMMA SizeIs ==
  ASSUME NEW m, WellFormed(m)
  PROVE  /\ MessageSize(m) \in Nat
         /\ m.type # PLAYER_CONNECTED => MessageSize(m) \in Smalls \cup Larges
<1>1. CASE m.type # PLAYER_CONNECTED
  <2>1. PICK s \in Smalls \cup Larges : Sized(AllMembers(m), s)
    BY <1>1, PlainMessage
  <2>2. MessageSize(m) = s /\ s \in Nat
    BY <2>1, NewWriter, PlainMessageMoves
  <2> QED BY <2>1, <2>2
<1>2. CASE m.type = PLAYER_CONNECTED
  <2>1. At(Writer(BufferWords), Pos(Writer(BufferWords)), BufferWords) /\ Pos(Writer(BufferWords)) \in Nat
    BY NewWriter, PosIs DEF At, Writer
  <2>2. PICK k \in 0 .. 4 : MessageSize(m) = Measures[k + 1]
    BY <1>2, <2>1, NewWriter, BufferHasWords, ConnectionMoves
  <2>3. Measures[k + 1] \in Nat
    <3>1. k = 0 \/ k = 1 \/ k = 2 \/ k = 3 \/ k = 4
      OBVIOUS
    <3> QED BY <3>1 DEF Measures
  <2> QED BY <1>2, <2>2, <2>3
<1> QED BY <1>1, <1>2

\* Messages none of which is PLAYER_CONNECTED, from the a-th on.
LEMMA MessagesMove ==
  ASSUME NEW W, NEW msgs, NEW n \in Nat, PacketChain(W, msgs, n),
         \A i \in 1 .. n : WellFormed(msgs[i]), NEW N, Sums(N, msgs, n),
         NEW a \in 0 .. n, NEW b \in a .. n,
         \A i \in a + 1 .. b : msgs[i].type # PLAYER_CONNECTED, N[a] \in Nat
  PROVE  N[b] \in Nat /\ N[a] <= N[b] /\ Moves(W[a], W[b], N[b] - N[a])
<1> DEFINE S == {d \in 0 .. b - a : /\ N[a + d] \in Nat /\ N[a] <= N[a + d]
                                    /\ Moves(W[a], W[a + d], N[a + d] - N[a])}
<1>1. 0 \in S
  <2>1. a + 0 = a /\ 0 \in 0 .. b - a /\ N[a] - N[a] = 0
    OBVIOUS
  <2>2. Ready(W[a]) => Pos(W[a]) = Pos(W[a]) + 0
    <3>1. Ready(W[a]) => Pos(W[a]) \in Nat
      BY PosIs
    <3> QED BY <3>1
  <2>3. Moves(W[a], W[a], 0)
    BY <2>2, Zenon DEF Moves
  <2>4. N[a] <= N[a]
    OBVIOUS
  <2> QED BY <2>1, <2>3, <2>4
<1>2. ASSUME NEW d \in 0 .. (b - a) - 1, d \in S PROVE d + 1 \in S
  <2>1. PICK i : i = a + d
    OBVIOUS
  <2>2. /\ i + 1 = a + (d + 1) /\ i + 1 \in 1 .. n /\ i \in 0 .. n /\ (i + 1) - 1 = i
        /\ i + 1 \in a + 1 .. b /\ d + 1 \in 0 .. b - a
    BY <2>1
  <2>3. N[i] \in Nat /\ N[a] <= N[i] /\ Moves(W[a], W[i], N[i] - N[a])
    BY <1>2, <2>1
  <2>4. PICK m : m = msgs[i + 1] /\ WellFormed(m) /\ m.type # PLAYER_CONNECTED
    BY <2>2
  <2>5. PICK s : s \in Nat /\ s = MessageSize(m) /\ Sized(AllMembers(m), s)
    <3>1. PICK t : Sized(AllMembers(m), t)
      BY <2>4, PlainMessage
    <3>2. MessageSize(m) = t /\ t \in Nat
      BY <2>4, <3>1, NewWriter, PlainMessageMoves
    <3> QED BY <3>1, <3>2
  <2>6. Good(W[i]) /\ W[i + 1] = WriteMessage(W[i], m)
    BY <2>2, <2>4 DEF PacketChain
  <2>7. Moves(W[i], W[i + 1], s)
    BY <2>4, <2>5, <2>6, PlainMessageMoves
  <2>8. N[i + 1] = N[i] + s
    BY <2>2, <2>4, <2>5 DEF Sums
  <2>9. N[i] - N[a] \in Nat
    BY <2>3
  <2>10. Moves(W[a], W[i + 1], (N[i] - N[a]) + s)
    BY <2>3, <2>5, <2>7, <2>9, MovesOn
  <2>11. N[i + 1] \in Nat /\ N[a] <= N[i + 1] /\ (N[i] - N[a]) + s = N[i + 1] - N[a]
    BY <2>3, <2>5, <2>8
  <2> QED BY <2>2, <2>10, <2>11
<1> HIDE DEF S
<1>3. b - a \in Nat /\ b - a \in 0 .. b - a /\ a + (b - a) = b
  OBVIOUS
<1>4. b - a \in S
  BY <1>1, <1>2, <1>3, SetInduction
<1> QED BY <1>3, <1>4 DEF S

\* What is left in a writer with enough room fits as well.
LEMMA FlushFits ==
  ASSUME NEW w, NEW x, NEW n \in Nat, At(w, x, n), x <= 32 * n
  PROVE  ~ FlushWriter(w).failed /\ Len(FlushWriter(w).words) <= n
<1>1. PICK l, s : l = Len(w.words) /\ s = Len(w.scratch)
  OBVIOUS
<1>2. l \in Nat /\ s \in Nat /\ 32 * l + s <= 32 * n /\ w.size = n /\ ~ w.failed
      /\ w \in Writers
  <2>1. Ready(w) /\ Pos(w) = x /\ w.size = n /\ ~ w.failed
    BY DEF At
  <2>2. l \in Nat /\ s \in Nat /\ Pos(w) = 32 * l + s
    BY <1>1, <2>1, PosIs
  <2> QED BY <2>1, <2>2 DEF Ready
<1>3. CASE w.scratch = <<>>
  <2>1. FlushWriter(w) = w
    BY <1>3 DEF FlushWriter
  <2>2. l <= n
    BY <1>2
  <2> QED BY <1>1, <1>2, <2>1, <2>2
<1>4. CASE w.scratch # <<>>
  <2>1. s # 0
    BY <1>1, <1>2, <1>4, EmptySeq DEF Writers
  <2>2. l + 1 <= n /\ ~ (l >= n)
    BY <1>2, <2>1
  <2>3. FlushWriter(w) = FlushBits(w)
    BY <1>2, <1>4 DEF FlushWriter
  <2>4. ~ (Len(w.words) >= w.size)
    BY <1>1, <1>2, <2>2
  <2>5. PICK b, c : /\ b = SubSeq(w.scratch, 1, Lesser(WORD_SIZE, Len(w.scratch)))
                           \o Zeros(WORD_SIZE - Lesser(WORD_SIZE, Len(w.scratch)))
                    /\ c = SubSeq(w.scratch, Lesser(WORD_SIZE, Len(w.scratch)) + 1, Len(w.scratch))
    OBVIOUS
  <2>6. FlushWriter(w) = [w EXCEPT !.words = Append(@, b), !.scratch = c]
    BY <2>3, <2>4, <2>5 DEF FlushBits
  <2>7. FlushWriter(w).failed = w.failed /\ FlushWriter(w).words = Append(w.words, b)
    BY <1>2, <2>6 DEF Writers
  <2>8. Len(Append(w.words, b)) = l + 1
    <3>1. w.words \in Seq(Word)
      BY <1>2 DEF Writers
    <3> QED BY <1>1, <3>1
  <2> QED BY <1>2, <2>2, <2>7, <2>8
<1> QED BY <1>3, <1>4

-----------------------------------------------------------------------------
(* A packet whose measure leaves room for the header fits.                 *)

\* The sizes are numbers.
LEMMA SumsAreNat ==
  ASSUME NEW msgs, NEW n \in Nat, \A i \in 1 .. n : WellFormed(msgs[i]),
         NEW N, Sums(N, msgs, n), NEW j \in 0 .. n
  PROVE  N[j] \in Nat
<1> DEFINE S == {i \in 0 .. n : N[i] \in Nat}
<1>1. 0 \in S
  BY DEF Sums
<1>2. ASSUME NEW i \in 0 .. j - 1, i \in S PROVE i + 1 \in S
  <2>1. i + 1 \in 1 .. n /\ i + 1 \in 0 .. n /\ (i + 1) - 1 = i
    OBVIOUS
  <2>2. MessageSize(msgs[i + 1]) \in Nat
    BY <2>1, SizeIs
  <2>3. N[i + 1] = N[i] + MessageSize(msgs[i + 1])
    BY <2>1 DEF Sums
  <2> QED BY <1>2, <2>1, <2>2, <2>3
<1> HIDE DEF S
<1>3. j \in S
  <2>1. j \in Nat
    OBVIOUS
  <2> QED BY <1>1, <1>2, <2>1, SetInduction
<1> QED BY <1>3 DEF S

\* The sizes before and behind one of five messages.
LEMMA SplitsAt ==
  ASSUME NEW E, NEW K, E[0] = 0, \A i \in 1 .. 5 : E[i] = E[i - 1] + K[i], NEW j \in 1 .. 5,
         K[j] \in Nat, \A i \in 1 .. 5 : i # j => K[i] \in Any
  PROVE  Splits(E[j - 1], E[5] - E[j])
<1>1. \A x \in Any : x \in Nat
  BY DEF Any, Smalls, Larges
<1>2. K[1] \in Nat /\ K[2] \in Nat /\ K[3] \in Nat /\ K[4] \in Nat /\ K[5] \in Nat
  BY <1>1
<1>3. E[1] = E[1 - 1] + K[1] /\ E[2] = E[2 - 1] + K[2] /\ E[3] = E[3 - 1] + K[3]
      /\ E[4] = E[4 - 1] + K[4] /\ E[5] = E[5 - 1] + K[5]
  OBVIOUS
<1>4. E[1] = K[1] /\ E[2] = K[1] + K[2] /\ E[3] = (K[1] + K[2]) + K[3]
      /\ E[4] = ((K[1] + K[2]) + K[3]) + K[4] /\ E[5] = (((K[1] + K[2]) + K[3]) + K[4]) + K[5]
  BY <1>2, <1>3
<1>5. PICK a \in Nat, b \in Nat, c \in Nat, d \in Nat, e \in Nat :
        a = K[1] /\ b = K[2] /\ c = K[3] /\ d = K[4] /\ e = K[5]
  BY <1>2
<1>6. E[0] = 0 /\ E[1] = a /\ E[2] = a + b /\ E[3] = (a + b) + c /\ E[4] = ((a + b) + c) + d
      /\ E[5] = (((a + b) + c) + d) + e
  BY <1>4, <1>5
<1>7. CASE j = 1
  <2>1. b \in Any /\ c \in Any /\ d \in Any /\ e \in Any
    BY <1>5, <1>7
  <2>2. E[j - 1] = 0 /\ E[5] - E[j] = ((b + c) + d) + e /\ 0 + (((b + c) + d) + e) = ((b + c) + d) + e
    BY <1>6, <1>7
  <2> QED BY <2>1, <2>2 DEF Splits
<1>8. CASE j = 2
  <2>1. a \in Any /\ c \in Any /\ d \in Any /\ e \in Any
    BY <1>5, <1>8
  <2>2. E[j - 1] = a /\ E[5] - E[j] = (c + d) + e /\ a + ((c + d) + e) = ((a + c) + d) + e
    BY <1>6, <1>8
  <2> QED BY <2>1, <2>2 DEF Splits
<1>9. CASE j = 3
  <2>1. a \in Any /\ b \in Any /\ d \in Any /\ e \in Any
    BY <1>5, <1>9
  <2>2. E[j - 1] = a + b /\ E[5] - E[j] = d + e /\ (a + b) + (d + e) = ((a + b) + d) + e
    BY <1>6, <1>9
  <2> QED BY <2>1, <2>2 DEF Splits
<1>10. CASE j = 4
  <2>1. a \in Any /\ b \in Any /\ c \in Any /\ e \in Any
    BY <1>5, <1>10
  <2>2. E[j - 1] = (a + b) + c /\ E[5] - E[j] = e /\ ((a + b) + c) + e = ((a + b) + c) + e
    BY <1>6, <1>10
  <2> QED BY <2>1, <2>2 DEF Splits
<1>11. CASE j = 5
  <2>1. a \in Any /\ b \in Any /\ c \in Any /\ d \in Any
    BY <1>5, <1>11
  <2>2. E[j - 1] = ((a + b) + c) + d /\ E[5] - E[j] = 0
        /\ (((a + b) + c) + d) + 0 = ((a + b) + c) + d
    BY <1>6, <1>11
  <2> QED BY <2>1, <2>2 DEF Splits
<1> QED BY <1>7, <1>8, <1>9, <1>10, <1>11

\* The sizes before and behind the only PLAYER_CONNECTED of a packet.
LEMMA OthersSplit ==
  ASSUME NEW msgs, NEW n \in 0 .. 5, \A i \in 1 .. n : WellFormed(msgs[i]),
         NEW N, Sums(N, msgs, n), NEW j \in 1 .. n,
         \A i \in 1 .. n : i # j => msgs[i].type # PLAYER_CONNECTED
  PROVE  Splits(N[j - 1], N[n] - N[j])
<1> DEFINE E == [i \in 0 .. 5 |-> IF i <= n THEN N[i] ELSE N[n]]
           K == [i \in 1 .. 5 |-> IF i <= n THEN MessageSize(msgs[i]) ELSE 0]
<1>1. \A i \in 0 .. n : N[i] \in Nat
  BY SumsAreNat
<1>2. E[0] = 0
  BY DEF Sums
<1>3. ASSUME NEW i \in 1 .. 5 PROVE E[i] = E[i - 1] + K[i]
  <2>1. i \in 0 .. 5 /\ i - 1 \in 0 .. 5
    OBVIOUS
  <2>2. CASE i <= n
    <3>1. i \in 1 .. n /\ i - 1 <= n
      BY <2>2
    <3> QED BY <2>1, <2>2, <3>1 DEF Sums
  <2>3. CASE ~ (i <= n)
    <3>1. E[i] = N[n] /\ K[i] = 0
      BY <2>1, <2>3
    <3>2. E[i - 1] = N[n]
      <4>1. i - 1 <= n => i - 1 = n
        BY <2>3
      <4> QED BY <2>1, <4>1
    <3>3. N[n] \in Nat
      BY <1>1
    <3> QED BY <3>1, <3>2, <3>3
  <2> QED BY <2>2, <2>3
<1>4. j \in 1 .. 5 /\ K[j] \in Nat
  <2>1. MessageSize(msgs[j]) \in Nat
    BY SizeIs
  <2> QED BY <2>1
<1>5. ASSUME NEW i \in 1 .. 5, i # j PROVE K[i] \in Any
  <2>1. CASE i <= n
    <3>1. i \in 1 .. n
      BY <2>1
    <3>2. MessageSize(msgs[i]) \in Smalls \cup Larges
      BY <1>5, <3>1, SizeIs
    <3> QED BY <2>1, <3>2 DEF Any
  <2>2. CASE ~ (i <= n)
    BY <2>2 DEF Any
  <2> QED BY <2>1, <2>2
<1>6. E[j - 1] = N[j - 1] /\ E[5] = N[n] /\ E[j] = N[j]
  <2>1. j - 1 \in 0 .. 5 /\ j - 1 <= n /\ 5 \in 0 .. 5 /\ j \in 0 .. 5 /\ j <= n
    OBVIOUS
  <2>2. 5 <= n => n = 5
    OBVIOUS
  <2> QED BY <2>1, <2>2
<1> HIDE DEF E, K
<1>7. Splits(E[j - 1], E[5] - E[j])
  BY <1>2, <1>3, <1>4, <1>5, SplitsAt
<1> QED BY <1>6, <1>7

\* A packet with at most one PLAYER_CONNECTED.
OneConnection(msgs, n) ==
  \A i, j \in 1 .. n : msgs[i].type = PLAYER_CONNECTED /\ msgs[j].type = PLAYER_CONNECTED => i = j

\* The writers of a packet that is measured to leave room for its header do not fill
\* a buffer of 128 bytes.
LEMMA PacketFits ==
  ASSUME BufferSize = 128, NEW msgs, NEW n, Packed(msgs, n), NEW W, PacketChain(W, msgs, n),
         NEW N, Sums(N, msgs, n), N[n] + 3 <= 1024, OneConnection(msgs, n)
  PROVE  \E y : y <= 1024 /\ At(W[n], y, 32)
<1>1. n \in Nat /\ n \in 0 .. 5 /\ \A i \in 1 .. n : WellFormed(msgs[i])
  BY PackedCount DEF MAX_MESSAGES_PER_PACKET
<1>2. BufferWords = 32
  <2>1. WORD_SIZE \div 8 = 4
    BY DEF WORD_SIZE
  <2>2. 128 \div 4 = 32
    OBVIOUS
  <2> QED BY <2>1, <2>2 DEF BufferWords
<1>3. At(W[0], 3, 32)
  <2>1. PICK x : x = Writer(BufferWords)
    OBVIOUS
  <2>2. Ready(x) /\ ~ x.failed /\ x.size = 32 /\ x.words = <<>> /\ x.scratch = <<>>
    <3>1. x.size = BufferWords /\ x.words = <<>> /\ x.scratch = <<>>
      BY <2>1 DEF Writer
    <3> QED BY <1>2, <2>1, <3>1, NewWriter
  <2>3. Pos(x) = 0
    <3>1. PICK l, r : l = Len(x.words) /\ r = Len(x.scratch) /\ l = 0 /\ r = 0
      BY <2>2
    <3>2. Pos(x) = 32 * l + r
      <4>1. Ready(x)
        BY <2>2
      <4>2. Pos(x) = 32 * Len(x.words) + Len(x.scratch)
        BY <4>1, PosIs, Zenon
      <4> QED BY <3>1, <4>2, Zenon
    <3>3. 32 * 0 + 0 = 0
      OBVIOUS
    <3> QED BY <3>1, <3>2, <3>3
  <2>4. At(x, 0, 32)
    BY <2>2, <2>3 DEF At
  <2>5. PICK f : f = Count /\ UintField(f) /\ n \in f.min .. f.max /\ BitsRequired(f.min, f.max) = 3
    <3>1. n \in Count.min .. Count.max /\ UintField(Count)
      BY <1>1, HeadFields, HeaderGood DEF MAX_MESSAGES_PER_PACKET
    <3>2. Count.min = 0 /\ Count.max = 5
      BY DEF Count, Uint, MAX_MESSAGES_PER_PACKET
    <3> QED BY <3>1, <3>2, RangeBits
  <2>6. Moves(x, WriteUint(x, f, n), BitsRequired(f.min, f.max))
    BY <2>5, UintMoves
  <2>7. W[0] = WriteUint(x, f, n)
    BY <2>1, <2>5 DEF PacketChain
  <2>8. Moves(x, W[0], 3)
    BY <2>5, <2>6, <2>7
  <2>9. 0 + 3 <= 32 * 32 /\ 0 + 3 = 3
    OBVIOUS
  <2> QED BY <2>4, <2>8, <2>9, AtMoves
<1>4. N[0] = 0 /\ \A i \in 0 .. n : N[i] \in Nat
  <2>1. N[0] = 0
    BY DEF Sums
  <2> QED BY <1>1, <2>1, SumsAreNat
<1>5. ASSUME \A i \in 1 .. n : msgs[i].type # PLAYER_CONNECTED
      PROVE  \E y : y <= 1024 /\ At(W[n], y, 32)
  <2>1. 0 \in 0 .. n /\ n \in 0 .. n /\ 0 + 1 = 1
    BY <1>1
  <2>2. N[n] \in Nat /\ Moves(W[0], W[n], N[n] - N[0])
    BY <1>1, <1>4, <1>5, <2>1, MessagesMove
  <2>3. N[n] - N[0] = N[n] /\ 3 + N[n] <= 32 * 32 /\ 3 + N[n] <= 1024
    BY <1>4, <2>2
  <2>4. At(W[n], 3 + N[n], 32)
    BY <1>3, <2>2, <2>3, AtMoves
  <2> QED BY <2>3, <2>4
<1>6. ASSUME NEW j \in 1 .. n, msgs[j].type = PLAYER_CONNECTED
      PROVE  \E y : y <= 1024 /\ At(W[n], y, 32)
  <2>1. \A i \in 1 .. n : i # j => msgs[i].type # PLAYER_CONNECTED
    BY <1>6 DEF OneConnection
  <2>2. /\ j - 1 \in 0 .. n /\ j \in 0 .. n /\ 0 \in 0 .. n /\ j - 1 \in 0 .. n /\ n \in j .. n
        /\ 0 + 1 = 1 /\ n \in 0 .. n
    BY <1>1
  <2>3. PICK p \in Nat, s \in Nat, t \in Nat : p = N[j - 1] /\ s = N[j] /\ t = N[n]
    BY <1>4, <2>2
  <2>4. Moves(W[0], W[j - 1], p)
    <3>1. \A i \in 0 + 1 .. j - 1 : msgs[i].type # PLAYER_CONNECTED
      <4>1. \A i \in 0 + 1 .. j - 1 : i \in 1 .. n /\ i # j
        BY <1>1
      <4> QED BY <2>1, <4>1
    <3>2. Moves(W[0], W[j - 1], N[j - 1] - N[0])
      BY <1>1, <1>4, <2>2, <3>1, MessagesMove
    <3>3. p - N[0] = p
      BY <1>4
    <3> QED BY <2>3, <3>2, <3>3
  <2>5. s <= t /\ Moves(W[j], W[n], t - s)
    <3>1. \A i \in j + 1 .. n : msgs[i].type # PLAYER_CONNECTED
      <4>1. \A i \in j + 1 .. n : i \in 1 .. n /\ i # j
        BY <1>1
      <4> QED BY <2>1, <4>1
    <3>2. N[j] \in Nat
      BY <1>4, <2>2
    <3>3. N[j] <= N[n] /\ Moves(W[j], W[n], N[n] - N[j])
      BY <1>1, <2>2, <3>1, <3>2, MessagesMove
    <3> QED BY <2>3, <3>3
  <2>6. PICK m : m = msgs[j] /\ WellFormed(m) /\ m.type = PLAYER_CONNECTED
    BY <1>1, <1>6
  <2>7. W[j] = WriteMessage(W[j - 1], m) /\ Good(W[j - 1])
    BY <2>2, <2>6 DEF PacketChain
  <2>8. PICK q \in Nat : q = t - s
    BY <2>5
  <2>9. Splits(p, q)
    BY <1>1, <2>1, <2>3, <2>8, OthersSplit
  <2>10. s = p + MessageSize(m)
    BY <2>3, <2>6 DEF Sums
  <2>11. MessageSize(m) \in Nat
    BY <2>6, SizeIs
  <2>12. p <= s /\ s + q = t /\ t + 3 <= 1024
    BY <2>3, <2>5, <2>8, <2>10, <2>11
  <2>13. At(W[j - 1], 3 + p, 32)
    <3>1. 3 + p <= 32 * 32
      BY <2>5, <2>12
    <3> QED BY <1>3, <2>4, <3>1, AtMoves
  <2>14. PICK k \in 0 .. 4 :
           /\ MessageSize(m) = Measures[k + 1]
           /\ (3 + p) + Takes(3 + p, k) <= 32 * 32
              => At(W[j], (3 + p) + Takes(3 + p, k), 32)
    <3>1. 3 + p \in Nat /\ 32 \in Nat
      OBVIOUS
    <3> QED BY <2>6, <2>7, <2>13, <3>1, ConnectionMoves
  <2>15. ((p + Measures[k + 1]) + q) + 3 <= 1024
    <3>1. p + Measures[k + 1] = s
      BY <2>10, <2>14
    <3> QED BY <2>12, <3>1
  <2>16. PICK x \in Nat : x = Takes(3 + p, k) /\ ((3 + p) + x) + q <= 1024
    BY <2>9, <2>15, ConnectionFits
  <2>17. At(W[j], (3 + p) + x, 32)
    <3>1. (3 + p) + x <= 32 * 32
      BY <2>16
    <3> QED BY <2>14, <2>16, <3>1
  <2>18. At(W[n], ((3 + p) + x) + q, 32)
    <3>1. ((3 + p) + x) + q <= 32 * 32
      BY <2>16
    <3> QED BY <2>5, <2>8, <2>17, <3>1, AtMoves
  <2> QED BY <2>16, <2>18
<1> QED BY <1>5, <1>6

-----------------------------------------------------------------------------

\* The inductive invariant: the measured size of a packet is that of its messages, and
\* what was sealed is within the buffer.
MeasuredInv ==
  /\ PacketInv
  /\ \E N : /\ Sums(N, packet.messages, Len(packet.messages))
            /\ packet.number_of_bits = N[Len(packet.messages)]
  /\ packet.state = "open" => buffer = <<>>
  /\ MeasureCoversWriting

\* What the property says of a packet of the game.
LEMMA RoomForHeader ==
  ASSUME BufferSize = 128
  PROVE  BitsRequired(Count.min, Count.max) = 3 /\ BufferSize * 8 = 1024
         /\ BufferSize \div (WORD_SIZE \div 8) = 32
<1>1. Count.min = 0 /\ Count.max = 5
  BY DEF Count, Uint, MAX_MESSAGES_PER_PACKET
<1>2. WORD_SIZE \div 8 = 4
  BY DEF WORD_SIZE
<1>3. 128 \div 4 = 32 /\ 128 * 8 = 1024
  OBVIOUS
<1> QED BY <1>1, <1>2, <1>3, RangeBits

\* An open packet is within its buffer, which is empty.
LEMMA OpenCovers ==
  ASSUME BufferSize = 128, packet.state = "open", buffer = <<>>
  PROVE  MeasureCoversWriting
<1>1. Len(buffer) = 0 /\ packet.state # "failed"
  OBVIOUS
<1>2. BufferSize \div (WORD_SIZE \div 8) = 32
  BY RoomForHeader
<1>3. Len(buffer) <= BufferSize \div (WORD_SIZE \div 8)
  BY <1>1, <1>2
<1> QED BY <1>1, <1>3 DEF MeasureCoversWriting

\* The invariant holds of a packet that is created.
LEMMA MeasuredInvInit == BufferSize = 128 /\ PacketInit => MeasuredInv
<1> SUFFICES ASSUME BufferSize = 128, PacketInit PROVE MeasuredInv
  OBVIOUS
<1>1. PacketInv /\ MeasureCoversWriting
  <2>1. packet.state = "open" /\ buffer = <<>>
    BY DEF PacketInit
  <2> QED BY <2>1, PacketInvInit, OpenCovers
<1>2. packet.messages = <<>> /\ packet.number_of_bits = 0 /\ Len(packet.messages) = 0 /\ buffer = <<>>
  BY DEF PacketInit
<1>3. PICK N : N = [i \in {0} |-> 0]
  OBVIOUS
<1>4. N[0] = 0 /\ Sums(N, packet.messages, 0)
  BY <1>3 DEF Sums
<1> QED BY <1>1, <1>2, <1>4 DEF MeasuredInv

\* A message more adds its size.
LEMMA AddMessageMeasures ==
  ASSUME BufferSize = 128, MeasuredInv, NEW m \in SampleMessages, AddMessage(m)
  PROVE  MeasuredInv'
<1>1. PacketInv'
  BY AddMessageKeeps DEF MeasuredInv
<1>2. PICK s : s = packet.messages /\ s \in Seq(SampleMessages)
  BY DEF MeasuredInv, PacketInv, Packed
<1>3. PICK k \in Nat : k = Len(s)
  BY <1>2
<1>4. packet.state = "open" /\ buffer' = buffer /\ buffer = <<>>
  BY DEF AddMessage, MeasuredInv
<1>5. /\ packet'.messages = Append(s, m)
      /\ packet'.number_of_bits = packet.number_of_bits + MessageSize(m)
      /\ packet'.state = "open"
  <2>1. packet' = [packet EXCEPT !.messages = Append(packet.messages, m),
                                 !.number_of_bits = packet.number_of_bits + MessageSize(m)]
    BY DEF AddMessage
  <2> QED BY <1>2, <1>4, <2>1 DEF MeasuredInv, PacketInv
<1>6. PICK N : Sums(N, s, k) /\ packet.number_of_bits = N[k]
  BY <1>2, <1>3 DEF MeasuredInv
<1>7. PICK t : t = Append(s, m) /\ Len(t) = k + 1 /\ t[k + 1] = m /\ \A i \in 1 .. k : t[i] = s[i]
  <2>1. /\ Len(Append(s, m)) = Len(s) + 1 /\ Append(s, m)[Len(s) + 1] = m
        /\ \A i \in 1 .. Len(s) : Append(s, m)[i] = s[i]
    BY <1>2, AppendProperties
  <2> QED BY <1>3, <2>1
<1>8. PICK b : b = N[k] + MessageSize(m)
  OBVIOUS
<1>9. PICK M : M = [i \in 0 .. k + 1 |-> IF i <= k THEN N[i] ELSE b]
  OBVIOUS
<1>10. Sums(M, t, k + 1)
  <2>1. M[0] = 0
    BY <1>6, <1>9 DEF Sums
  <2>2. ASSUME NEW i \in 1 .. k + 1 PROVE M[i] = M[i - 1] + MessageSize(t[i])
    <3>1. i - 1 \in 0 .. k + 1 /\ i \in 0 .. k + 1 /\ i - 1 <= k
      OBVIOUS
    <3>2. M[i - 1] = N[i - 1]
      BY <1>9, <3>1
    <3>3. CASE i <= k
      <4>1. i \in 1 .. k
        BY <3>3
      <4>2. N[i] = N[i - 1] + MessageSize(s[i])
        BY <1>6, <4>1 DEF Sums
      <4> QED BY <1>7, <1>9, <3>1, <3>2, <3>3, <4>1, <4>2
    <3>4. CASE ~ (i <= k)
      <4>1. i = k + 1 /\ i - 1 = k
        BY <3>4
      <4>2. M[i] = b
        BY <1>9, <3>1, <3>4
      <4> QED BY <1>7, <1>8, <3>2, <4>1, <4>2
    <3> QED BY <3>3, <3>4
  <2> QED BY <2>1, <2>2 DEF Sums
<1>11. packet'.number_of_bits = M[k + 1]
  <2>1. k + 1 \in 0 .. k + 1 /\ ~ (k + 1 <= k)
    OBVIOUS
  <2> QED BY <1>5, <1>6, <1>8, <1>9, <2>1
<1>12. \E L : /\ Sums(L, packet'.messages, Len(packet'.messages))
              /\ packet'.number_of_bits = L[Len(packet'.messages)]
  BY <1>5, <1>7, <1>10, <1>11
<1>13. MeasureCoversWriting'
  <2>1. packet'.state # "failed" /\ Len(buffer') = 0
    BY <1>4, <1>5
  <2>2. BufferSize \div (WORD_SIZE \div 8) = 32
    BY RoomForHeader
  <2>3. Len(buffer') <= BufferSize \div (WORD_SIZE \div 8)
    BY <2>1, <2>2
  <2> QED BY <2>1, <2>3 DEF MeasureCoversWriting
<1> QED BY <1>1, <1>4, <1>12, <1>13 DEF MeasuredInv

\* A packet is sealed within its buffer.
LEMMA SealMeasures ==
  ASSUME BufferSize = 128, MeasuredInv, Seal
  PROVE  MeasuredInv'
<1>1. PacketInv'
  BY SealKeeps DEF MeasuredInv
<1>2. PICK msgs, n, w, done : /\ msgs = packet.messages /\ n = Len(msgs) /\ w = PacketWriters(msgs)
                              /\ done = FlushWriter(w[n])
  OBVIOUS
<1>3. packet' = [packet EXCEPT !.state = IF done.failed THEN "failed" ELSE "sealed"]
      /\ buffer' = done.words
  BY <1>2 DEF Seal, PacketWriters
<1>4. /\ packet'.state = (IF done.failed THEN "failed" ELSE "sealed")
      /\ packet'.messages = msgs /\ packet'.number_of_bits = packet.number_of_bits
  BY <1>2, <1>3 DEF MeasuredInv, PacketInv
<1>5. Packed(msgs, n) /\ PacketChain(w, msgs, n)
  <2>1. Packed(msgs, n)
    BY <1>2 DEF MeasuredInv, PacketInv
  <2> QED BY <1>2, <2>1, SealWrites
<1>6. PICK N : Sums(N, msgs, n) /\ packet.number_of_bits = N[n]
  BY <1>2 DEF MeasuredInv
<1>7. msgs \in Seq(SampleMessages) /\ n \in Nat
  BY <1>5, PackedCount DEF Packed
<1>8. MeasureCoversWriting'
  <2>1. SUFFICES ASSUME packet'.number_of_bits + BitsRequired(Count.min, Count.max) <= BufferSize * 8,
                        \A i, j \in Connections' : i = j
                 PROVE  packet'.state # "failed" /\ Len(buffer') <= BufferSize \div (WORD_SIZE \div 8)
    BY DEF MeasureCoversWriting
  <2>2. N[n] + 3 <= 1024
    BY <1>4, <1>6, <2>1, RoomForHeader
  <2>3. OneConnection(msgs, n)
    <3>1. DOMAIN msgs = 1 .. n
      BY <1>2, <1>7
    <3>2. Connections' = {i \in 1 .. n : msgs[i].type = PLAYER_CONNECTED}
      BY <1>4, <3>1 DEF Connections
    <3> QED BY <2>1, <3>2 DEF OneConnection
  <2>4. PICK y : y <= 1024 /\ At(w[n], y, 32)
    BY <1>5, <1>6, <2>2, <2>3, PacketFits
  <2>5. y <= 32 * 32
    BY <2>4
  <2>6. ~ done.failed /\ Len(done.words) <= 32
    BY <1>2, <2>4, <2>5, FlushFits
  <2> QED BY <1>3, <1>4, <2>6, RoomForHeader
<1>9. packet'.state # "open"
  BY <1>4
<1>10. \E L : /\ Sums(L, packet'.messages, Len(packet'.messages))
              /\ packet'.number_of_bits = L[Len(packet'.messages)]
  BY <1>2, <1>4, <1>6
<1> QED BY <1>1, <1>8, <1>9, <1>10 DEF MeasuredInv

\* In the packets of the game, of 128 bytes, whatever its well-formed messages: a packet
\* with at most one PLAYER_CONNECTED whose measured size leaves room for the header is
\* sealed, and within its buffer (measure_stream.c, packet_can_add_message, packet_seal).
THEOREM MeasuringCoversWriting ==
  ASSUME BufferSize = 128
  PROVE  PacketInit /\ [][PacketNext]_packetVars => []MeasureCoversWriting
<1>1. MeasuredInv /\ [PacketNext]_packetVars => MeasuredInv'
  <2> SUFFICES ASSUME MeasuredInv, [PacketNext]_packetVars PROVE MeasuredInv'
    OBVIOUS
  <2>1. CASE \E m \in SampleMessages : AddMessage(m)
    BY <2>1, AddMessageMeasures
  <2>2. CASE Seal
    BY <2>2, SealMeasures
  <2>3. CASE Receive
    <3>1. packet' = packet /\ buffer' = buffer /\ PacketInv'
      BY <2>3, ReceiveKeeps DEF Receive, MeasuredInv
    <3> QED BY <3>1 DEF MeasuredInv, MeasureCoversWriting, Connections
  <2>4. CASE UNCHANGED packetVars
    <3>1. packet' = packet /\ buffer' = buffer /\ received' = received
      BY <2>4 DEF packetVars
    <3>2. PacketInv'
      BY <3>1 DEF MeasuredInv, PacketInv, ReadsBackWhatWasPacked
    <3> QED BY <3>1, <3>2 DEF MeasuredInv, MeasureCoversWriting, Connections
  <2> QED BY <2>1, <2>2, <2>3, <2>4 DEF PacketNext
<1>2. MeasuredInv => MeasureCoversWriting
  BY DEF MeasuredInv
<1>3. PacketInit => MeasuredInv
  BY MeasuredInvInit
<1> QED BY <1>1, <1>2, <1>3, PTL

-----------------------------------------------------------------------------
(* The timer.                                                              *)

USE DEF Never

Hook ==
  [type : {"wait", "repeat"}, ms : Nat, last : Nat, enabled : BOOLEAN, delay : Nat,
   early : BOOLEAN, since : Nat, stalls : Nat, waited : Int]

TimerType ==
  /\ clock \in Nat /\ seen \in Nat \cup {Never} /\ stalled \in Nat
  /\ timer \in [elapsed : Nat, current : Nat, running : BOOLEAN]
  /\ callouts \in Seq(Hook)
  /\ walk \in [at : Nat, inHook : BOOLEAN]

\* What may be read at a time.
ReadingsAt(t) == {t % Second} \cup (IF t % Second = 0 THEN {Second} ELSE {})

\* Nothing has moved before the first update; after it the clock is past the
\* last one, whose reading the timer keeps.
Readable ==
  /\ seen = Never => timer.elapsed = 0 /\ timer.current = 0 /\ stalled = 0 /\ walk = Outside
  /\ seen # Never => seen <= clock /\ timer.current \in ReadingsAt(seen)

\* The elapsed time at which the wait of a hook began.
Base(h) == IF h.type = "wait" THEN h.ms - h.delay ELSE h.last

\* The timer has moved since then as far as the clock, less the stalls, or for
\* an early hook more by the reading of the first update.
InTime(h) ==
  /\ timer.elapsed - Base(h) >= (seen - h.since) - (stalled - h.stalls)
  /\ timer.elapsed - Base(h) <= (seen - h.since) + (IF h.early THEN Second ELSE 0)

Sound(h) ==
  /\ h.delay > 0
  /\ h.type = "repeat" => h.ms = h.delay
  /\ h.waited # Never => h.waited >= h.delay
  /\ seen = Never => h.early /\ h.enabled /\ Base(h) = 0 /\ h.stalls = 0
  /\ seen # Never /\ h.enabled => InTime(h)

Walking ==
  /\ walk # Outside => walk.at >= 1 /\ seen = clock
  /\ walk.inHook => walk.at \in DOMAIN callouts /\ HookDue(callouts[walk.at])

\* The hooks that were visited are not due any more.
Visited ==
  seen # Never =>
    \A i \in DOMAIN callouts : walk = Outside \/ i < walk.at => ~ HookDue(callouts[i])

TimerIInv ==
  /\ TimerType /\ Readable /\ Walking /\ Visited
  /\ \A i \in DOMAIN callouts : Sound(callouts[i])

-----------------------------------------------------------------------------
(* Readings.                                                               *)

\* Multiples keep their order.
LEMMA Multiples ==
  ASSUME NEW s \in Int, s > 0, NEW j \in Int, NEW k \in Int, j <= k
  PROVE  s * j <= s * k
PROOF BY SMTT(20)

\* A time is whole seconds and a rest of less than one.
LEMMA DivMod ==
  ASSUME NEW s \in Int, s > 0, NEW t \in Int
  PROVE  /\ t \div s \in Int /\ t % s \in Int
         /\ 0 <= t % s /\ t % s < s
         /\ t = s * (t \div s) + (t % s)
PROOF OBVIOUS

\* What a reading b adds after a reading a is what the clock moved, less the
\* whole seconds of it or less.
LEMMA Moved ==
  ASSUME NEW s \in Int, s > 0, NEW t \in Int, NEW u \in Int, t < u,
         NEW a \in Int, a = t % s \/ (t % s = 0 /\ a = s),
         NEW b \in Int, b = u % s \/ (u % s = 0 /\ b = s),
         NEW moved \in Int, moved = IF b < a THEN (s - a) + b ELSE b - a
  PROVE  /\ (u - t) \div s \in Nat
         /\ moved \in Nat
         /\ moved >= (u - t) - s * ((u - t) \div s)
         /\ moved <= u - t
PROOF
<1> DEFINE p == t \div s
           q == u \div s
           e == (u - t) \div s
           x == t % s
           y == u % s
           z == (u - t) % s
<1>1. /\ p \in Int /\ x \in Int /\ 0 <= x /\ x < s /\ t = s * p + x
      /\ q \in Int /\ y \in Int /\ 0 <= y /\ y < s /\ u = s * q + y
      /\ e \in Int /\ z \in Int /\ 0 <= z /\ z < s /\ u - t = s * e + z
  BY DivMod
<1>2. /\ a = x \/ (x = 0 /\ a = s)
      /\ b = y \/ (y = 0 /\ b = s)
  OBVIOUS
<1> HIDE DEF p, q, e, x, y, z
<1> DEFINE sp == s * p
           sq == s * q
           se == s * e
           d == q - p - e
<1>3. /\ sp \in Int /\ sq \in Int /\ se \in Int /\ d \in Int
      /\ t = sp + x /\ u = sq + y /\ u - t = se + z
  BY <1>1
<1>4. s * d = sq - sp - se
  BY <1>1
<1>5. e >= 0
  <2> SUFFICES ASSUME e <= -1 PROVE FALSE BY <1>1
  <2>1. s * e <= s * (-1) BY <1>1, Multiples
  <2> QED BY <2>1, <1>1
<1>6. d = 0 \/ d = 1
  <2>1. ASSUME d <= -1 PROVE FALSE
    <3>1. s * d <= s * (-1) BY <2>1, <1>3, Multiples
    <3>2. s * d <= - s BY <3>1, <1>3
    <3> HIDE DEF d, sp, sq, se
    <3> QED BY <3>2, <1>1, <1>3, <1>4
  <2>2. ASSUME d >= 2 PROVE FALSE
    <3>1. s * 2 <= s * d BY <2>2, <1>3, Multiples
    <3>2. 2 * s <= s * d BY <3>1, <1>3
    <3> HIDE DEF d, sp, sq, se
    <3> QED BY <3>2, <1>1, <1>3, <1>4
  <2> QED BY <2>1, <2>2, <1>3
<1>7. e = 0 \/ se >= s
  <2>1. CASE e >= 1
    <3>1. s * 1 <= s * e BY <2>1, <1>1, Multiples
    <3> QED BY <3>1
  <2> QED BY <2>1, <1>5, <1>1
<1>8. e = 0 => se = 0
  BY <1>1
<1>9. d = 0 => sq - sp - se = 0
  BY <1>4
<1>10. d = 1 => sq - sp - se = s
  BY <1>4
<1> HIDE DEF d, sp, sq, se
<1>11. moved >= 0 /\ moved >= (u - t) - se /\ moved <= u - t
  BY <1>1, <1>2, <1>3, <1>5, <1>6, <1>7, <1>8, <1>9, <1>10
<1> QED BY <1>11, <1>5, <1>1 DEF se, e

-----------------------------------------------------------------------------
(* Hooks.                                                                  *)

\* The fields of a new hook.
LEMMA NewHookIs ==
  ASSUME TimerType, NEW type \in {"wait", "repeat"}, NEW delay \in Delays
  PROVE  LET h == NewHook(type, delay)
         IN /\ h \in Hook
            /\ h.type = type /\ h.ms = timer.elapsed + delay /\ h.last = 0 /\ h.enabled
            /\ h.delay = delay /\ h.delay > 0 /\ h.early = (seen = Never)
            /\ h.since = IF seen = Never THEN clock ELSE seen
            /\ h.stalls = stalled /\ h.waited = Never
PROOF BY GameTimerAssumption DEF NewHook, Hook, TimerType

\* A hook that begins to wait is otherwise the same.
LEMMA BegunIs ==
  ASSUME TimerType, NEW h \in Hook
  PROVE  LET b == Begun(h)
         IN /\ b \in Hook /\ b.since = clock
            /\ b.type = h.type /\ b.ms = h.ms /\ b.last = h.last /\ b.enabled = h.enabled
            /\ b.delay = h.delay /\ b.early = h.early /\ b.stalls = h.stalls
            /\ b.waited = h.waited
PROOF BY DEF Begun, Hook, TimerType

\* The fields of a hook that was called.
LEMMA CalledIs ==
  ASSUME TimerType, NEW h \in Hook
  PROVE  LET c == Called(h)
         IN /\ c \in Hook
            /\ c.type = h.type /\ c.ms = h.ms /\ c.delay = h.delay
            /\ c.enabled = (h.enabled /\ h.type = "repeat")
            /\ c.last = IF h.type = "repeat" THEN timer.elapsed ELSE h.last
            /\ c.since = clock /\ c.stalls = stalled /\ c.early = FALSE
            /\ c.waited = clock - h.since + (IF h.early THEN Second ELSE 0)
PROOF
<1> DEFINE c == Called(h)
<1>1. /\ h.type \in {"wait", "repeat"} /\ h.enabled \in BOOLEAN /\ h.early \in BOOLEAN
      /\ h.ms \in Nat /\ h.last \in Nat /\ h.delay \in Nat /\ h.since \in Nat
      /\ clock \in Nat /\ stalled \in Nat /\ timer.elapsed \in Nat /\ Second \in Nat
  BY GameTimerAssumption DEF Hook, TimerType
<1>2. c.type = h.type /\ c.ms = h.ms /\ c.delay = h.delay
  BY DEF Called, Hook
<1>3. c.enabled = (h.enabled /\ h.type = "repeat")
  BY DEF Called, Hook
<1>4. c.last = IF h.type = "repeat" THEN timer.elapsed ELSE h.last
  BY DEF Called, Hook
<1>5. c.since = clock /\ c.stalls = stalled /\ c.early = FALSE
  BY DEF Called, Hook
<1>6. c.waited = clock - h.since + (IF h.early THEN Second ELSE 0)
  BY DEF Called, Hook
<1>7. c \in Hook
  <2>1. clock - h.since + (IF h.early THEN Second ELSE 0) \in Int BY <1>1
  <2>2. (IF h.type = "repeat" THEN timer.elapsed ELSE h.last) \in Nat BY <1>1
  <2> QED BY <1>1, <2>1, <2>2 DEF Called, Hook
<1> HIDE DEF c
<1> QED BY <1>2, <1>3, <1>4, <1>5, <1>6, <1>7 DEF c

\* A hook is due when the timer has moved by its delay since its wait began.
LEMMA DueIs ==
  ASSUME TimerType, NEW h \in Hook, Sound(h)
  PROVE  HookDue(h) <=> h.enabled /\ timer.elapsed - Base(h) >= h.delay
PROOF BY DEF HookDue, Base, Sound, Hook, TimerType

\* What is read lies in the second.
LEMMA ReadingIs ==
  ASSUME NEW t \in Nat, NEW r \in ReadingsAt(t)
  PROVE  /\ r \in 0 .. Second
         /\ r = t % Second \/ (t % Second = 0 /\ r = Second)
PROOF
<1>1. Second \in Int /\ Second > 0 BY GameTimerAssumption
<1>2. t % Second \in Int /\ 0 <= t % Second /\ t % Second < Second BY <1>1, DivMod
<1> QED BY <1>1, <1>2 DEF ReadingsAt

\* An update moves the elapsed time as the clock did, less its whole seconds or less.
LEMMA ElapsedMoves ==
  ASSUME TimerType, Readable, seen # Never, clock > seen, NEW r \in Readings
  PROVE  /\ Elapsed(r) \in Nat /\ r \in Nat
         /\ Second * ((clock - seen) \div Second) \in Nat
         /\ Elapsed(r) - timer.elapsed >= (clock - seen) - Second * ((clock - seen) \div Second)
         /\ Elapsed(r) - timer.elapsed <= clock - seen
PROOF
<1>1. Second \in Int /\ Second > 0 BY GameTimerAssumption
<1>2. seen \in Nat /\ clock \in Nat /\ timer.elapsed \in Nat BY DEF TimerType
<1>3. timer.current \in 0 .. Second
      /\ (timer.current = seen % Second \/ (seen % Second = 0 /\ timer.current = Second))
  BY <1>2, ReadingIs DEF Readable
<1>4. r \in 0 .. Second /\ (r = clock % Second \/ (clock % Second = 0 /\ r = Second))
  BY <1>2, ReadingIs DEF Readings, ReadingsAt
<1> DEFINE moved == IF r < timer.current THEN (Second - timer.current) + r ELSE r - timer.current
           k == (clock - seen) \div Second
<1>5. moved \in Int /\ Elapsed(r) = timer.elapsed + moved
  BY <1>1, <1>2, <1>3, <1>4 DEF Elapsed
<1>6. /\ k \in Nat /\ moved \in Nat
      /\ moved >= (clock - seen) - Second * k /\ moved <= clock - seen
  <2>1. timer.current \in Int /\ r \in Int BY <1>3, <1>4, <1>1
  <2>2. seen \in Int /\ clock \in Int /\ seen < clock BY <1>2
  <2>3. moved = IF r < timer.current THEN (Second - timer.current) + r
                ELSE r - timer.current
    OBVIOUS
  <2>4. moved \in Int BY <1>5
  <2>5. timer.current = seen % Second \/ (seen % Second = 0 /\ timer.current = Second)
    BY <1>3
  <2>6. r = clock % Second \/ (clock % Second = 0 /\ r = Second) BY <1>4
  <2> HIDE DEF moved, k
  <2>7. /\ (clock - seen) \div Second \in Nat /\ moved \in Nat
        /\ moved >= (clock - seen) - Second * ((clock - seen) \div Second)
        /\ moved <= clock - seen
    BY ONLY <1>1, <2>1, <2>2, <2>3, <2>4, <2>5, <2>6, Moved, ZenonT(120)
  <2> QED BY <2>7 DEF k
<1>7. Second * k \in Nat BY <1>1, <1>6
<1> HIDE DEF moved
<1> QED BY <1>1, <1>2, <1>4, <1>5, <1>6, <1>7
-----------------------------------------------------------------------------
(* The invariant.                                                          *)

\* The invariant holds at first.
LEMMA TimerInitHolds == TimerInit => TimerIInv
PROOF
<1> SUFFICES ASSUME TimerInit PROVE TimerIInv OBVIOUS
<1>1. clock \in Nat BY GameTimerAssumption DEF TimerInit
<1>2. callouts = <<>> /\ DOMAIN callouts = {} BY DEF TimerInit
<1> QED BY <1>1, <1>2 DEF TimerInit, TimerIInv, TimerType, Readable, Walking, Visited, Outside, Hook

\* Outside is no hook of the list.
LEMMA OutsideIs ==
  ASSUME NEW w \in [at : Nat, inHook : BOOLEAN]
  PROVE  w = Outside <=> w.at = 0 /\ ~ w.inHook
PROOF BY DEF Outside

\* A step that leaves the hooks, the elapsed time and the last update alone keeps
\* every hook sound.
LEMMA SoundKept ==
  ASSUME TimerIInv, UNCHANGED <<seen, stalled, callouts>>, timer'.elapsed = timer.elapsed
  PROVE  \A i \in DOMAIN callouts' : Sound(callouts[i])'
PROOF
<1> SUFFICES ASSUME NEW i \in DOMAIN callouts PROVE Sound(callouts[i])' OBVIOUS
<1>1. Sound(callouts[i]) BY DEF TimerIInv
<1>2. callouts'[i] = callouts[i] OBVIOUS
<1> QED BY <1>1, <1>2 DEF Sound, InTime, Base

\* The timer is started, or time passes.
LEMMA QuietSteps ==
  ASSUME TimerIInv, StartTimer \/ PassTime
  PROVE  TimerIInv'
PROOF
<1>1. /\ UNCHANGED <<seen, stalled, callouts, walk>>
      /\ timer' \in [elapsed : Nat, current : Nat, running : BOOLEAN]
      /\ timer'.elapsed = timer.elapsed /\ timer'.current = timer.current
      /\ clock' \in Nat /\ clock' >= clock
      /\ clock' = clock \/ walk = Outside
  <2>1. CASE StartTimer
    <3>1. timer' = [timer EXCEPT !.running = TRUE] BY <2>1 DEF StartTimer
    <3>2. /\ timer' \in [elapsed : Nat, current : Nat, running : BOOLEAN]
          /\ timer'.elapsed = timer.elapsed /\ timer'.current = timer.current
      BY <3>1 DEF TimerIInv, TimerType
    <3>3. clock \in Nat BY DEF TimerIInv, TimerType
    <3> QED BY <2>1, <3>2, <3>3 DEF StartTimer
  <2>2. CASE PassTime
    <3>1. Stall \in Nat BY GameTimerAssumption
    <3> QED BY <2>2, <3>1 DEF PassTime, TimerIInv, TimerType
  <2> QED BY <2>1, <2>2
<1>2. TimerType' BY <1>1 DEF TimerIInv, TimerType
<1>3. Readable' BY <1>1 DEF TimerIInv, Readable, ReadingsAt, TimerType
<1>4. Walking' BY <1>1 DEF TimerIInv, Walking, HookDue, Outside
<1>5. Visited' BY <1>1 DEF TimerIInv, Visited, HookDue, Outside
<1> QED BY <1>1, <1>2, <1>3, <1>4, <1>5, SoundKept DEF TimerIInv

\* Visiting a hook: one that is not due is left behind.
LEMMA VisitHookStep ==
  ASSUME TimerIInv, VisitHook
  PROVE  TimerIInv'
PROOF
<1> DEFINE h == callouts[walk.at]
<1>1. /\ walk.at \in DOMAIN callouts /\ ~ walk.inHook /\ walk.at \in Nat /\ walk.at >= 1
      /\ UNCHANGED <<clock, seen, stalled, timer, callouts>>
  BY DEF VisitHook, TimerIInv, TimerType
<1>2. walk # Outside /\ seen # Never /\ seen = clock
  BY <1>1 DEF Outside, TimerIInv, Readable, Walking
<1>3. CASE HookDue(h)
  <2>1. walk' \in [at : Nat, inHook : BOOLEAN] /\ walk'.at = walk.at /\ walk'.inHook
    BY <1>1, <1>3 DEF VisitHook, TimerIInv, TimerType
  <2>2. walk' # Outside BY <2>1, OutsideIs
  <2>3. TimerType' BY <1>1, <2>1 DEF TimerIInv, TimerType
  <2>4. Readable' BY <1>1, <1>2 DEF TimerIInv, Readable, ReadingsAt
  <2>5. Walking' BY <1>1, <1>2, <1>3, <2>1 DEF Walking, HookDue
  <2>6. Visited' BY <1>1, <1>2, <2>1, <2>2 DEF TimerIInv, Visited, HookDue
  <2> QED BY <1>1, <2>3, <2>4, <2>5, <2>6, SoundKept DEF TimerIInv
<1>4. CASE ~ HookDue(h)
  <2>1. walk' \in [at : Nat, inHook : BOOLEAN] /\ walk'.at = walk.at + 1 /\ ~ walk'.inHook
    BY <1>1, <1>4 DEF VisitHook, TimerIInv, TimerType
  <2>2. walk' # Outside BY <1>1, <2>1, OutsideIs
  <2>3. TimerType' BY <1>1, <2>1 DEF TimerIInv, TimerType
  <2>4. Readable' BY <1>1, <1>2 DEF TimerIInv, Readable, ReadingsAt
  <2>5. Walking' BY <1>1, <1>2, <2>1 DEF Walking
  <2>6. Visited'
    <3> SUFFICES ASSUME NEW i \in DOMAIN callouts, i < walk.at + 1
                 PROVE  ~ HookDue(callouts[i])'
      BY <1>1, <2>1, <2>2 DEF Visited
    <3>1. i < walk.at \/ i = walk.at BY <1>1 DEF TimerIInv, TimerType
    <3>2. ~ HookDue(callouts[i]) BY <3>1, <1>2, <1>4 DEF TimerIInv, Visited
    <3> QED BY <3>2, <1>1 DEF HookDue
  <2> QED BY <1>1, <2>3, <2>4, <2>5, <2>6, SoundKept DEF TimerIInv
<1> QED BY <1>3, <1>4

\* The end of the list: no hook is due.
LEMMA EndOfHooksStep ==
  ASSUME TimerIInv, EndOfHooks
  PROVE  TimerIInv'
PROOF
<1>1. /\ walk.at = Len(callouts) + 1 /\ ~ walk.inHook /\ callouts \in Seq(Hook)
      /\ walk' = Outside /\ UNCHANGED <<clock, seen, stalled, timer, callouts>>
  BY DEF EndOfHooks, TimerIInv, TimerType
<1>2. Len(callouts) \in Nat /\ DOMAIN callouts = 1 .. Len(callouts) BY <1>1
<1>3. walk # Outside BY <1>1, <1>2 DEF Outside
<1>4. TimerType' BY <1>1 DEF TimerIInv, TimerType, Outside
<1>5. Readable' BY <1>1 DEF TimerIInv, Readable, ReadingsAt
<1>6. Walking' BY <1>1 DEF Walking, Outside
<1>7. Visited'
  <2> SUFFICES ASSUME seen # Never, NEW i \in DOMAIN callouts
               PROVE  ~ HookDue(callouts[i])'
    BY <1>1 DEF Visited
  <2>1. i < walk.at BY <1>1, <1>2
  <2>2. ~ HookDue(callouts[i]) BY <2>1 DEF TimerIInv, Visited
  <2> QED BY <2>2, <1>1 DEF HookDue
<1> QED BY <1>1, <1>4, <1>5, <1>6, <1>7, SoundKept DEF TimerIInv

\* A new hook is not due.
LEMMA SetHookStep ==
  ASSUME TimerIInv, NEW type \in {"wait", "repeat"}, NEW delay \in Delays, SetHook(type, delay)
  PROVE  TimerIInv'
PROOF
<1>0. PICK n \in Nat : n = Len(callouts) + 1 BY DEF TimerIInv, TimerType
<1>2. PICK h \in Hook :
        /\ h = NewHook(type, delay)
        /\ h.type = type /\ h.ms = timer.elapsed + delay /\ h.last = 0 /\ h.enabled
        /\ h.delay = delay /\ h.delay > 0 /\ h.early = (seen = Never)
        /\ h.since = IF seen = Never THEN clock ELSE seen
        /\ h.stalls = stalled /\ h.waited = Never
  BY NewHookIs DEF TimerIInv
<1>1. /\ walk = Outside \/ walk.inHook
      /\ type = "repeat" => seen = Never
      /\ callouts' = Append(callouts, h)
      /\ UNCHANGED <<clock, seen, stalled, timer, walk>>
  BY <1>2 DEF SetHook
<1>3. /\ callouts \in Seq(Hook) /\ callouts' \in Seq(Hook)
      /\ DOMAIN callouts = 1 .. Len(callouts) /\ Len(callouts) \in Nat
      /\ DOMAIN callouts' = DOMAIN callouts \cup {n}
      /\ callouts'[n] = h
      /\ \A i \in DOMAIN callouts : i # n /\ callouts'[i] = callouts[i]
  BY <1>0, <1>1, <1>2 DEF TimerIInv, TimerType
<1>4. TimerType' BY <1>1, <1>3 DEF TimerIInv, TimerType
<1>5. Readable' BY <1>1 DEF TimerIInv, Readable, ReadingsAt
<1>6. Walking' BY <1>1, <1>3 DEF TimerIInv, Walking, HookDue
<1>7. /\ timer.elapsed \in Nat /\ delay \in Nat /\ delay > 0
      /\ seen = Never => timer.elapsed = 0 /\ stalled = 0
      /\ seen # Never => seen \in Nat
      /\ stalled \in Nat /\ clock \in Nat
  BY <1>2, GameTimerAssumption DEF TimerIInv, TimerType, Readable
<1>8. Base(h) = timer.elapsed
  <2>1. CASE type = "wait" BY <2>1, <1>2, <1>7 DEF Base
  <2>2. CASE type = "repeat" BY <2>2, <1>1, <1>2, <1>7 DEF Base
  <2> QED BY <2>1, <2>2
<1>9. Sound(h)'
  <2>1. Base(h)' = Base(h) BY DEF Base
  <2>2. type = "repeat" => h.ms = h.delay BY <1>1, <1>2, <1>7
  <2>3. seen = Never => h.early /\ h.enabled /\ Base(h) = 0 /\ h.stalls = 0
    BY <1>2, <1>7, <1>8
  <2>4. ASSUME seen # Never PROVE InTime(h)'
    <3>1. h.since = seen /\ h.stalls = stalled /\ h.early = FALSE /\ seen \in Nat
      BY <2>4, <1>2, <1>7
    <3>2. timer'.elapsed - Base(h)' = 0 /\ seen' - h.since = 0 /\ stalled' - h.stalls = 0
      BY <1>1, <1>7, <1>8, <2>1, <3>1
    <3> QED BY <3>1, <3>2 DEF InTime
  <2> QED BY <1>1, <1>2, <2>1, <2>2, <2>3, <2>4 DEF Sound
<1>10. seen # Never => ~ HookDue(h)' BY <1>1, <1>2, <1>7 DEF HookDue
<1>11. ASSUME NEW i \in DOMAIN callouts
       PROVE  Sound(callouts[i])'
  <2>1. Sound(callouts[i]) /\ callouts'[i] = callouts[i] BY <1>3 DEF TimerIInv
  <2> QED BY <2>1, <1>1 DEF Sound, InTime, Base
<1>12. Visited'
  <2> SUFFICES ASSUME seen # Never, NEW i \in DOMAIN callouts', walk = Outside \/ i < walk.at
               PROVE  ~ HookDue(callouts[i])'
    BY <1>1 DEF Visited
  <2>1. CASE i = n BY <2>1, <1>3, <1>10 DEF HookDue
  <2>2. CASE i \in DOMAIN callouts
    <3>1. ~ HookDue(callouts[i]) /\ callouts'[i] = callouts[i]
      BY <2>2, <1>3 DEF TimerIInv, Visited
    <3> QED BY <3>1, <1>1 DEF HookDue
  <2> QED BY <2>1, <2>2, <1>3
<1>13. Sound(callouts[n])' BY <1>3, <1>9 DEF Sound, InTime, Base
<1> QED BY <1>3, <1>4, <1>5, <1>6, <1>11, <1>12, <1>13 DEF TimerIInv

\* A hook that was called was due, and begins to wait anew or ends.
LEMMA HookReturnsStep ==
  ASSUME TimerIInv, HookReturns
  PROVE  TimerIInv'
PROOF
<1>0. PICK a \in Nat, h \in Hook, c \in Hook :
        a = walk.at /\ h = callouts[a] /\ c = Called(h) /\ a \in DOMAIN callouts
  <2>1. walk.at \in DOMAIN callouts /\ walk.at \in Nat /\ callouts[walk.at] \in Hook
    BY DEF HookReturns, TimerIInv, Walking, TimerType
  <2>2. Called(callouts[walk.at]) \in Hook BY <2>1, CalledIs DEF TimerIInv
  <2> QED BY <2>1, <2>2
<1>1. /\ walk.inHook /\ a \in DOMAIN callouts /\ a \in Nat /\ HookDue(h)
      /\ callouts' = [callouts EXCEPT ![a] = c]
      /\ walk' = [at |-> a + 1, inHook |-> FALSE]
      /\ UNCHANGED <<clock, seen, stalled, timer>>
  BY <1>0 DEF HookReturns, TimerIInv, Walking, TimerType
<1>2. walk # Outside /\ seen # Never /\ seen = clock /\ seen \in Nat
  BY <1>0, <1>1 DEF Outside, TimerIInv, Readable, Walking, TimerType
<1>3. h \in Hook /\ Sound(h) BY <1>0 DEF TimerIInv
<1>4. /\ c \in Hook
      /\ c.type = h.type /\ c.ms = h.ms /\ c.delay = h.delay
      /\ c.enabled = (h.enabled /\ h.type = "repeat")
      /\ c.last = IF h.type = "repeat" THEN timer.elapsed ELSE h.last
      /\ c.since = clock /\ c.stalls = stalled /\ c.early = FALSE
      /\ c.waited = clock - h.since + (IF h.early THEN Second ELSE 0)
  BY <1>0, CalledIs DEF TimerIInv
<1>5. h.enabled /\ timer.elapsed - Base(h) >= h.delay /\ InTime(h)
  BY <1>1, <1>2, <1>3, DueIs DEF TimerIInv, Sound
<1>6. /\ h.type \in {"wait", "repeat"} /\ h.since \in Nat /\ h.delay \in Nat
      /\ h.early \in BOOLEAN /\ Base(h) \in Int
      /\ timer.elapsed \in Nat /\ stalled \in Nat /\ Second \in Nat
  <2>1. Second \in Nat BY GameTimerAssumption
  <2>2. timer.elapsed \in Nat /\ stalled \in Nat BY DEF TimerIInv, TimerType
  <2>3. /\ h.type \in {"wait", "repeat"} /\ h.since \in Nat /\ h.delay \in Nat
        /\ h.early \in BOOLEAN /\ h.ms \in Nat /\ h.last \in Nat
    BY DEF Hook
  <2>4. Base(h) \in Int BY <2>3 DEF Base
  <2> QED BY <2>1, <2>2, <2>3, <2>4
<1>7. c.waited >= c.delay
  BY <1>2, <1>4, <1>5, <1>6 DEF InTime
<1>8. Sound(c)'
  <2>1. c.delay > 0 /\ (c.type = "repeat" => c.ms = c.delay)
    BY <1>3, <1>4 DEF Sound
  <2>2. c.enabled => Base(c)' = timer.elapsed BY <1>4 DEF Base
  <2>3. c.enabled => InTime(c)'
    BY <1>1, <1>2, <1>4, <1>6, <2>2 DEF InTime
  <2> QED BY <1>1, <1>2, <1>7, <2>1, <2>3 DEF Sound
<1>9. ~ HookDue(c)'
  <2>1. CASE h.type = "wait" BY <2>1, <1>4 DEF HookDue
  <2>2. CASE h.type = "repeat"
    <3>1. c.last = timer.elapsed /\ c.ms = h.delay /\ h.delay > 0 /\ c.type = "repeat"
      BY <2>2, <1>3, <1>4 DEF Sound
    <3>2. ~ (timer'.elapsed - c.last >= c.ms) BY <3>1, <1>1, <1>6
    <3> QED BY <3>1, <3>2 DEF HookDue
  <2> QED BY <2>1, <2>2, <1>6
<1>10. /\ callouts' \in Seq(Hook) /\ DOMAIN callouts' = DOMAIN callouts
       /\ callouts'[a] = c
       /\ \A i \in DOMAIN callouts : i # a => callouts'[i] = callouts[i]
       /\ DOMAIN callouts \subseteq Nat
  BY <1>1, <1>4 DEF TimerIInv, TimerType
<1>11. walk' \in [at : Nat, inHook : BOOLEAN] /\ walk'.at = a + 1 /\ ~ walk'.inHook
  BY <1>1
<1>12. walk' # Outside BY <1>1, <1>11 DEF Outside
<1>13. TimerType' BY <1>1, <1>10, <1>11 DEF TimerIInv, TimerType
<1>14. Readable' BY <1>1, <1>2 DEF TimerIInv, Readable, ReadingsAt
<1>15. Walking' BY <1>0, <1>1, <1>2, <1>11 DEF Walking
<1>16. Visited'
  <2> SUFFICES ASSUME NEW i \in DOMAIN callouts, i < a + 1
               PROVE  ~ HookDue(callouts[i])'
    BY <1>10, <1>11, <1>12 DEF Visited
  <2>1. CASE i = a BY <2>1, <1>9, <1>10 DEF HookDue
  <2>2. CASE i # a
    <3>1. i < a BY <2>2, <1>0, <1>10
    <3>2. ~ HookDue(callouts[i]) /\ callouts'[i] = callouts[i]
      BY <2>2, <3>1, <1>0, <1>2, <1>10 DEF TimerIInv, Visited
    <3> QED BY <3>2, <1>1 DEF HookDue
  <2> QED BY <2>1, <2>2
<1>17. ASSUME NEW i \in DOMAIN callouts PROVE Sound(callouts[i])'
  <2>1. CASE i = a BY <2>1, <1>8, <1>10 DEF Sound, InTime, Base
  <2>2. CASE i # a
    <3>1. Sound(callouts[i]) /\ callouts'[i] = callouts[i] BY <2>2, <1>10 DEF TimerIInv
    <3> QED BY <3>1, <1>1 DEF Sound, InTime, Base
  <2> QED BY <2>1, <2>2
<1> QED BY <1>10, <1>13, <1>14, <1>15, <1>16, <1>17 DEF TimerIInv

\* An update, the first of which begins the wait of the hooks that were set early.
LEMMA UpdateTimerStep ==
  ASSUME TimerIInv, NEW reading \in Readings, UpdateTimer(reading)
  PROVE  TimerIInv'
PROOF
<1>1. /\ walk = Outside /\ clock > seen
      /\ timer' = [timer EXCEPT !.elapsed = Elapsed(reading), !.current = reading]
      /\ seen' = clock /\ clock' = clock
      /\ walk' = [at |-> 1, inHook |-> FALSE]
  BY DEF UpdateTimer
<1>2. /\ clock \in Nat /\ stalled \in Nat /\ timer.elapsed \in Nat /\ callouts \in Seq(Hook)
      /\ Second \in Nat
  BY GameTimerAssumption DEF TimerIInv, TimerType
<1>3. reading \in 0 .. Second /\ reading \in ReadingsAt(clock)
  BY <1>2, ReadingIs DEF Readings, ReadingsAt
<1>4. Walking' /\ Visited' /\ walk' \in [at : Nat, inHook : BOOLEAN]
  <2>1. walk'.at = 1 /\ ~ walk'.inHook /\ walk' # Outside BY <1>1 DEF Outside
  <2>2. Walking' BY <1>1, <2>1 DEF Walking
  <2>3. walk' \in [at : Nat, inHook : BOOLEAN] BY <1>1
  <2>4. Visited'
    <3>2. callouts' \in Seq(Hook)
      <4>1. CASE seen = Never
        <5>1. callouts' = [i \in DOMAIN callouts |-> Begun(callouts[i])]
          BY <4>1 DEF UpdateTimer
        <5>2. \A i \in DOMAIN callouts : Begun(callouts[i]) \in Hook
          BY <1>2, BegunIs DEF TimerIInv
        <5> HIDE DEF Hook
        <5> QED BY <5>1, <5>2, <1>2
      <4>2. CASE seen # Never BY <4>2, <1>2 DEF UpdateTimer
      <4> QED BY <4>1, <4>2
    <3>3. \A i \in DOMAIN callouts' : i \in Nat /\ i >= 1 BY <3>2
    <3> QED BY <3>3, <2>1 DEF Visited
  <2> QED BY <2>2, <2>3, <2>4
<1>5. CASE seen = Never
  <2>1. timer.elapsed = 0 /\ timer.current = 0 /\ stalled = 0 BY <1>5 DEF TimerIInv, Readable
  <2>2. Elapsed(reading) = reading BY <1>3, <1>2, <2>1 DEF Elapsed
  <2>3. /\ timer' \in [elapsed : Nat, current : Nat, running : BOOLEAN]
        /\ timer'.elapsed = reading /\ timer'.current = reading
    <3>1. reading \in Nat BY <1>2, <1>3
    <3>2. timer' = [timer EXCEPT !.elapsed = reading, !.current = reading] BY <1>1, <2>2
    <3> QED BY <3>1, <3>2 DEF TimerIInv, TimerType
  <2>4. stalled' = stalled /\ callouts' = [i \in DOMAIN callouts |-> Begun(callouts[i])]
    BY <1>5 DEF UpdateTimer
  <2>5. \A i \in DOMAIN callouts : Begun(callouts[i]) \in Hook
    BY <1>2, BegunIs DEF TimerIInv
  <2>6. callouts' \in Seq(Hook)
    <3> HIDE DEF Hook
    <3> QED BY <2>4, <2>5, <1>2
  <2>7. TimerType' BY <1>1, <1>2, <1>4, <2>1, <2>3, <2>4, <2>6 DEF TimerType
  <2>8. Readable' BY <1>1, <1>2, <1>3, <2>3 DEF Readable, ReadingsAt
  <2>9. ASSUME NEW i \in DOMAIN callouts'
        PROVE  Sound(callouts[i])'
    <3>1. PICK h \in Hook, b \in Hook :
            i \in DOMAIN callouts /\ h = callouts[i] /\ b = Begun(h) /\ callouts'[i] = b
      BY <2>4, <2>5, <1>2
    <3>2. h \in Hook /\ Sound(h) BY <3>1, <1>2 DEF TimerIInv
    <3>3. /\ b.since = clock
          /\ b.type = h.type /\ b.ms = h.ms /\ b.last = h.last /\ b.enabled = h.enabled
          /\ b.delay = h.delay /\ b.early = h.early /\ b.stalls = h.stalls
          /\ b.waited = h.waited
      BY <3>1, BegunIs DEF TimerIInv
    <3>4. h.early /\ h.enabled /\ Base(h) = 0 /\ h.stalls = 0 BY <3>2, <1>5 DEF Sound
    <3>5. Base(b)' = 0 BY <3>3, <3>4 DEF Base
    <3>6. InTime(b)'
      BY <1>1, <1>2, <1>3, <2>1, <2>3, <2>4, <3>3, <3>4, <3>5 DEF InTime
    <3>7. Sound(b)' BY <1>1, <1>2, <3>2, <3>3, <3>6 DEF Sound
    <3> QED BY <3>1, <3>7 DEF Sound, InTime, Base
  <2> QED BY <1>4, <2>7, <2>8, <2>9 DEF TimerIInv
<1>6. CASE seen # Never
  <2> DEFINE stall == Second * ((clock - seen) \div Second)
  <2>1. /\ Elapsed(reading) \in Nat /\ reading \in Nat /\ stall \in Nat
        /\ Elapsed(reading) - timer.elapsed >= (clock - seen) - stall
        /\ Elapsed(reading) - timer.elapsed <= clock - seen
    BY <1>1, <1>6, ElapsedMoves DEF TimerIInv
  <2>2. stalled' = stalled + stall /\ callouts' = callouts
    BY <1>6 DEF UpdateTimer
  <2> HIDE DEF stall
  <2>3. /\ timer' \in [elapsed : Nat, current : Nat, running : BOOLEAN]
        /\ timer'.elapsed = Elapsed(reading) /\ timer'.current = reading
    BY <1>1, <2>1 DEF TimerIInv, TimerType
  <2>4. TimerType' BY <1>1, <1>2, <1>4, <2>1, <2>2, <2>3 DEF TimerType
  <2>5. Readable' BY <1>1, <1>2, <1>3, <2>3 DEF Readable, ReadingsAt
  <2>6. ASSUME NEW i \in DOMAIN callouts
        PROVE  Sound(callouts[i])'
    <3>0. PICK h \in Hook : h = callouts[i] /\ h = callouts'[i] BY <1>2, <2>2
    <3>1. h \in Hook /\ Sound(h) BY <3>0 DEF TimerIInv
    <3>2. /\ h.since \in Nat /\ h.stalls \in Nat /\ h.early \in BOOLEAN /\ Base(h) \in Int
          /\ h.enabled \in BOOLEAN /\ seen \in Nat
      BY <3>1, <1>6 DEF Hook, Base, TimerIInv, TimerType
    <3>4. h.enabled => InTime(h)'
      <4> SUFFICES ASSUME h.enabled PROVE InTime(h)' OBVIOUS
      <4>1. InTime(h) BY <3>1, <1>6 DEF Sound
      <4>2. Base(h)' = Base(h) BY DEF Base
      <4> DEFINE more == IF h.early THEN Second ELSE 0
      <4>3. more \in Nat BY <1>2
      <4>4. /\ timer.elapsed - Base(h) >= (seen - h.since) - (stalled - h.stalls)
            /\ timer.elapsed - Base(h) <= (seen - h.since) + more
        BY <4>1 DEF InTime
      <4> HIDE DEF more
      <4>5. /\ timer'.elapsed - Base(h) >= (clock - h.since) - ((stalled + stall) - h.stalls)
            /\ timer'.elapsed - Base(h) <= (clock - h.since) + more
        <5>1. timer.elapsed \in Int /\ Elapsed(reading) \in Int /\ Base(h) \in Int
          BY <1>2, <2>1, <3>2
        <5>2. timer'.elapsed = Elapsed(reading) BY <2>3
        <5>3. /\ seen \in Nat /\ clock \in Nat /\ stalled \in Nat
              /\ h.since \in Nat /\ h.stalls \in Nat
          BY <1>2, <3>2
        <5>4. stall \in Nat
          BY <2>1
        <5>5. /\ Elapsed(reading) - timer.elapsed >= (clock - seen) - stall
              /\ Elapsed(reading) - timer.elapsed <= clock - seen
          BY <2>1
        <5>6. Elapsed(reading) - Base(h) >= (clock - h.since) - ((stalled + stall) - h.stalls)
          BY ONLY <4>4, <5>1, <5>3, <5>4, <5>5
        <5>7. Elapsed(reading) - Base(h) <= (clock - h.since) + more
          BY ONLY <4>3, <4>4, <5>1, <5>3, <5>5
        <5> QED BY ONLY <5>2, <5>6, <5>7
      <4> QED BY <1>1, <2>2, <4>2, <4>5 DEF InTime, more
    <3>5. Sound(h)' BY <1>1, <1>2, <3>1, <3>4 DEF Sound
    <3> QED BY <3>0, <3>5 DEF Sound, InTime, Base
  <2> QED BY <1>4, <2>2, <2>4, <2>5, <2>6 DEF TimerIInv
<1> QED BY <1>5, <1>6

\* Every step keeps the invariant.
LEMMA TimerStepKeeps ==
  ASSUME TimerIInv, [TimerNext]_timerVars
  PROVE  TimerIInv'
PROOF
<1>1. ASSUME NEW type \in {"wait", "repeat"}, NEW delay \in Delays, SetHook(type, delay)
      PROVE  TimerIInv'
  BY <1>1, SetHookStep
<1>2. ASSUME NEW reading \in Readings, UpdateTimer(reading) PROVE TimerIInv'
  BY <1>2, UpdateTimerStep
<1>3. CASE UNCHANGED timerVars
  BY <1>3 DEF timerVars, TimerIInv, TimerType, Readable, ReadingsAt, Walking, Visited, HookDue,
              Sound, InTime, Base
<1> QED BY <1>1, <1>2, <1>3, QuietSteps, VisitHookStep, HookReturnsStep, EndOfHooksStep
        DEF TimerNext

\* The invariant says what is promised of the hooks.
LEMMA InvariantIsEnough == TimerIInv => HooksFireOnTime
PROOF
<1> SUFFICES ASSUME TimerIInv, NEW i \in DOMAIN callouts
             PROVE  LET h == callouts[i]
                    IN /\ h.waited # Never => h.waited >= h.delay
                       /\ walk = Outside /\ seen # Never /\ h.enabled =>
                            seen - h.since < h.delay + (stalled - h.stalls)
  BY DEF HooksFireOnTime
<1> DEFINE h == callouts[i]
<1>1. h \in Hook /\ Sound(h) BY DEF TimerIInv, TimerType
<1>2. h.waited # Never => h.waited >= h.delay BY <1>1 DEF Sound
<1>3. ASSUME walk = Outside, seen # Never, h.enabled
      PROVE  seen - h.since < h.delay + (stalled - h.stalls)
  <2>1. ~ HookDue(h) BY <1>3 DEF TimerIInv, Visited
  <2>2. ~ (timer.elapsed - Base(h) >= h.delay) BY <2>1, <1>1, <1>3, DueIs DEF TimerIInv
  <2>3. InTime(h) BY <1>1, <1>3 DEF Sound
  <2>4. /\ h.since \in Nat /\ h.stalls \in Nat /\ h.delay \in Nat /\ Base(h) \in Int
        /\ timer.elapsed \in Nat /\ seen \in Nat /\ stalled \in Nat
    BY <1>1, <1>3 DEF Hook, Base, TimerIInv, TimerType
  <2> HIDE DEF h
  <2> QED BY <2>2, <2>3, <2>4 DEF InTime
<1> QED BY <1>2, <1>3

\* A hook is never called before its delay is over, but for up to a second when it
\* was set before the first update, and after an update none is waiting whose delay
\* is over, but for the whole seconds between two updates, which the readings do
\* not show: for any Second, delays and stalls (timer.c, tdd_timer_update).
THEOREM TimerSafety == TimerSpec => []HooksFireOnTime
PROOF
<1>1. TimerSpec => []TimerIInv
  BY TimerInitHolds, TimerStepKeeps, PTL DEF TimerSpec
<1> QED BY <1>1, InvariantIsEnough, PTL

-----------------------------------------------------------------------------
(* The interpolation of the positions of a player.                         *)

Slots == 0 .. INTERPOLATION_STATES_COUNT - 1
State == [time : Nat \cup {-1}, position : Nat]
Array == [Slots -> State]

\* The slots in the order in which they were filled: from the one that is filled
\* next to the end of the array, then from its start.
Older(x, i, j) == IF i >= x THEN j < x \/ i < j ELSE j < x /\ i < j

\* Later states are further; empty slots, of no time, come first.
Sorted(a, x) ==
  \A i, j \in Slots : Older(x, i, j) => a[i].time <= a[j].time /\ a[i].position <= a[j].position

\* The first slot with the last state until t.
IsLast(a, t, i) ==
  /\ i \in Slots /\ 0 <= a[i].time /\ a[i].time <= t
  /\ \A j \in Slots : 0 <= a[j].time /\ a[j].time <= t =>
       a[j].time <= a[i].time /\ (j < i => a[j].time < a[i].time)

\* The first slot with the first of the states after that of slot i.
IsNext(a, i, j) ==
  /\ j \in Slots /\ a[i].time < a[j].time
  /\ \A k \in Slots : a[i].time < a[k].time =>
       a[j].time <= a[k].time /\ (k < j => a[j].time < a[k].time)

\* Where a player is drawn at t between two states.
Between(s1, s2, t) ==
  s1.position + ((s2.position - s1.position) * (t - s1.time)) \div (s2.time - s1.time)

\* Whatever is drawn from t0 on, with the states of the buffer, is not behind v;
\* nor is the last state of all.
NotBehind(a, t0, v) ==
  \A t \in Nat : t0 <= t => \A i \in Slots : IsLast(a, t, i) =>
    /\ \A j \in Slots : IsNext(a, i, j) => v <= Between(a[i], a[j], t)
    /\ (\A k \in Slots : a[k].time <= a[i].time) => v <= a[i].position

\* No state of the array is later or further.
Bounds(a, e, p) == \A i \in Slots : a[i].time <= e /\ a[i].position <= p

\* The array with a new state.
Added(a, x, e, p) == [a EXCEPT ![x] = [time |-> e, position |-> p]]

PlayerType ==
  /\ elapsed \in Nat /\ phase \in {"receive", "show"}
  /\ ring \in [array : Array, index : Slots]
  /\ latest \in Nat /\ shown \in Nat

PlayerIInv ==
  /\ PlayerType
  /\ shown <= latest
  /\ \A i \in Slots : /\ ring.array[i].time <= elapsed /\ ring.array[i].position <= latest
                      /\ ring.array[i].time = -1 => ring.array[i].position = 0
  /\ Sorted(ring.array, ring.index)
  /\ NotBehind(ring.array, elapsed - INTERPOLATION_TIME_MS, shown)

-----------------------------------------------------------------------------
(* Numbers.                                                                *)

LEMMA CountIs ==
  /\ INTERPOLATION_STATES_COUNT \in Nat /\ INTERPOLATION_STATES_COUNT > 0
  /\ INTERPOLATION_TIME_MS \in Nat
PROOF BY InterpolationAssumption

\* The index after the last is the first.
LEMMA IndexMoves ==
  ASSUME NEW n \in Nat, n > 0, NEW x \in 0 .. n - 1
  PROVE  (x + 1) % n = IF x + 1 = n THEN 0 ELSE x + 1
PROOF OBVIOUS

\* Products keep an order.
LEMMA Products ==
  ASSUME NEW a \in Int, NEW b \in Int, a <= b, NEW c \in Int, 0 <= c
  PROVE  a * c <= b * c
PROOF BY SMTT(20)

\* So does a division.
LEMMA Quotients ==
  ASSUME NEW a \in Int, NEW b \in Int, a <= b, NEW s \in Int, s > 0
  PROVE  a \div s \in Int /\ b \div s \in Int /\ a \div s <= b \div s
PROOF BY SMTT(20)

\* Whole multiples stand before a division.
LEMMA Whole ==
  ASSUME NEW a \in Int, NEW p \in Int, NEW s \in Int, s > 0
  PROVE  (p * s + a) \div s = p + a \div s
PROOF BY SMTT(20)

\* What is drawn between two states is a mean of their positions.
LEMMA BetweenIs ==
  ASSUME NEW s1, NEW s2, s1.time \in Int, s2.time \in Int, s1.time < s2.time,
         s1.position \in Int, s2.position \in Int, NEW t \in Int
  PROVE  Between(s1, s2, t) =
           (s1.position * (s2.time - t) + s2.position * (t - s1.time)) \div (s2.time - s1.time)
PROOF
<1>1. PICK p \in Int, q \in Int, u \in Int, w \in Int :
        p = s1.position /\ q = s2.position /\ u = s1.time /\ w = s2.time
  OBVIOUS
<1>2. PICK m \in Int : m = (q - p) * (t - u) OBVIOUS
<1>3. (p * (w - u) + m) \div (w - u) = p + m \div (w - u)
  <2>1. w - u \in Int /\ w - u > 0 BY <1>1
  <2> QED BY <2>1, Whole
<1>4. p * (w - u) + m = p * (w - t) + q * (t - u)
  BY ONLY <1>2, p \in Int, q \in Int, u \in Int, w \in Int, t \in Int, SMTT(20)
<1> QED BY <1>1, <1>2, <1>3, <1>4 DEF Between

\* It is between them, and moves with the time and the positions.
LEMMA BetweenMoves ==
  ASSUME NEW p \in Int, NEW q \in Int, NEW p2 \in Int, NEW q2 \in Int,
         p <= q, p2 <= q2, p <= p2, q <= q2,
         NEW u \in Int, NEW w \in Int, u < w, NEW t \in Int, NEW t2 \in Int,
         u <= t, t <= t2, t2 <= w
  PROVE  (p * (w - t) + q * (t - u)) \div (w - u)
           <= (p2 * (w - t2) + q2 * (t2 - u)) \div (w - u)
PROOF
<1>1. p * (w - t) <= p2 * (w - t) /\ q * (t - u) <= q2 * (t - u)
  BY Products
<1>2. p2 * (t2 - t) <= q2 * (t2 - t) BY Products
<1>3. PICK a \in Int, b \in Int, c \in Int, d \in Int, e \in Int, f \in Int :
        /\ a = p * (w - t) /\ b = q * (t - u) /\ c = p2 * (w - t) /\ d = q2 * (t - u)
        /\ e = p2 * (t2 - t) /\ f = q2 * (t2 - t)
  OBVIOUS
<1>4. /\ p2 * (w - t2) = c - e
      /\ q2 * (t2 - u) = d + f
  BY ONLY <1>3, p2 \in Int, q2 \in Int, w \in Int, t \in Int, t2 \in Int, u \in Int, SMTT(20)
<1>5. a + b <= (c - e) + (d + f)
  BY ONLY <1>1, <1>2, <1>3, a \in Int, b \in Int, c \in Int, d \in Int, e \in Int, f \in Int
<1>6. PICK s \in Int : s = w - u /\ s > 0 OBVIOUS
<1>7. (a + b) \div s <= ((c - e) + (d + f)) \div s
  BY <1>5, <1>6, Quotients
<1> QED BY <1>3, <1>4, <1>6, <1>7

\* A multiple divides.
LEMMA MultipleDivides ==
  ASSUME NEW p \in Int, NEW s \in Int, s > 0
  PROVE  (p * s) \div s = p
PROOF
<1>1. (p * s + 0) \div s = p + 0 \div s BY Whole
<1>2. 0 \div s = 0 BY SMTT(20)
<1>3. PICK m \in Int : m = p * s OBVIOUS
<1> QED BY <1>1, <1>2, <1>3

LEMMA BetweenBounds ==
  ASSUME NEW p \in Int, NEW q \in Int, p <= q,
         NEW u \in Int, NEW w \in Int, u < w, NEW t \in Int, u <= t, t <= w
  PROVE  /\ p <= (p * (w - t) + q * (t - u)) \div (w - u)
         /\ (p * (w - t) + q * (t - u)) \div (w - u) <= q
         /\ (p * (w - t) + q * (t - u)) \div (w - u) \in Int
PROOF
<1>1. PICK s \in Int : s = w - u /\ s > 0 OBVIOUS
<1>2. (p * (w - u) + q * (u - u)) \div (w - u) <= (p * (w - t) + q * (t - u)) \div (w - u)
  BY BetweenMoves
<1>3. (p * (w - t) + q * (t - u)) \div (w - u) <= (p * (w - w) + q * (w - u)) \div (w - u)
  BY BetweenMoves
<1>4. u - u = 0 /\ w - w = 0 /\ q * 0 = 0 /\ p * 0 = 0 BY SMTT(20)
<1>5. PICK m \in Int, n \in Int : m = p * s /\ n = q * s OBVIOUS
<1>6. m + 0 = m /\ 0 + n = n OBVIOUS
<1>7. m \div s = p /\ n \div s = q BY <1>1, <1>5, MultipleDivides
<1>8. p * (w - t) + q * (t - u) \in Int OBVIOUS
<1>9. (p * (w - t) + q * (t - u)) \div (w - u) \in Int
  BY <1>1, <1>8, Quotients
<1>10. p * (w - u) + q * (u - u) = m /\ p * (w - w) + q * (w - u) = n
  BY <1>1, <1>4, <1>5, <1>6
<1> QED BY <1>1, <1>2, <1>3, <1>7, <1>9, <1>10

-----------------------------------------------------------------------------
(* Arrays of states.                                                       *)

LEMMA StateIs ==
  ASSUME NEW a \in Array, NEW i \in Slots
  PROVE  /\ a[i].time \in Int /\ a[i].time >= -1 /\ a[i].position \in Nat /\ a[i].position \in Int
         /\ i \in Int /\ a[i] \in State
PROOF
<1>1. PICK s \in State : s = a[i] BY DEF Array
<1>2. s.time \in Int /\ s.time >= -1 /\ s.position \in Nat BY DEF State
<1> QED BY <1>1, <1>2, CountIs DEF Slots

\* A set of slots has a first one.
LEMMA FirstSlot ==
  ASSUME NEW S \in SUBSET Slots, S # {}
  PROVE  \E i \in S : \A j \in S : i <= j
PROOF
<1> DEFINE T == {i + 1 : i \in S}
<1>1. T \in SUBSET (1 .. INTERPOLATION_STATES_COUNT) /\ T # {}
      /\ INTERPOLATION_STATES_COUNT \in Nat
  <2>1. \A i \in S : i + 1 \in 1 .. INTERPOLATION_STATES_COUNT BY CountIs DEF Slots
  <2> QED BY <2>1, CountIs
<1>2. \E i \in T : \A j \in T : i <= j
  <2> HIDE DEF T
  <2> QED BY <1>1, LeastExists
<1>3. PICK i \in S : \A j \in S : i + 1 <= j + 1 BY <1>2
<1>4. \A j \in S : j \in Int BY CountIs DEF Slots
<1> QED BY <1>3, <1>4

\* Where a state stands until t, there is a last one.
LEMMA LastExists ==
  ASSUME NEW a \in Array, NEW t \in Nat, NEW k \in Slots, 0 <= a[k].time, a[k].time <= t
  PROVE  \E i \in Slots : IsLast(a, t, i)
PROOF
<1> DEFINE B == {j \in Slots : 0 <= a[j].time /\ a[j].time <= t}
           T == {a[j].time : j \in B}
<1>1. T \in SUBSET (0 .. t) /\ T # {}
  <2>1. \A j \in B : a[j].time \in 0 .. t BY StateIs
  <2>2. k \in B OBVIOUS
  <2> QED BY <2>1, <2>2
<1>2. Max(T) \in T /\ \A x \in T : Max(T) >= x
  <2> HIDE DEF T
  <2> QED BY <1>1, MaxIsGreatest
<1>3. PICK m \in T : \A x \in T : m >= x BY <1>2
<1> DEFINE F == {j \in B : a[j].time = m}
<1>4. F \in SUBSET Slots /\ F # {} BY <1>3
<1>5. PICK i \in F : \A j \in F : i <= j
  <2> HIDE DEF F
  <2> QED BY <1>4, FirstSlot
<1>6. \A j \in B : a[j].time <= m /\ a[j].time \in Int /\ j \in Int /\ m \in Int
  BY <1>3, StateIs
<1>7. \A j \in B : a[j].time <= a[i].time /\ (j < i => a[j].time < a[i].time)
  <2> TAKE j \in B
  <2>1. a[i].time = m /\ i \in B BY <1>5
  <2>2. CASE a[j].time = m
    <3>1. i <= j /\ i \in Int /\ j \in Int BY <1>5, <1>6, <2>1, <2>2
    <3> QED BY <1>6, <2>1, <2>2, <3>1
  <2>3. CASE a[j].time # m
    <3>1. a[j].time < m BY <1>6, <2>3
    <3> QED BY <1>6, <2>1, <3>1
  <2> QED BY <2>2, <2>3
<1> QED BY <1>5, <1>7 DEF IsLast

\* Where a state stands after another, there is a first one.
LEMMA NextExists ==
  ASSUME NEW a \in Array, NEW i \in Slots, NEW k \in Slots, a[i].time < a[k].time,
         NEW n \in Nat, \A j \in Slots : a[j].time <= n
  PROVE  \E j \in Slots : IsNext(a, i, j)
PROOF
<1> DEFINE B == {j \in Slots : a[i].time < a[j].time}
           T == {a[j].time + 1 : j \in B}
<1>1. T \in SUBSET (1 .. n + 1) /\ T # {} /\ n + 1 \in Nat
  BY StateIs
<1>2. \E x \in T : \A y \in T : x <= y
  <2> HIDE DEF T
  <2> QED BY <1>1, LeastExists
<1>3. PICK h \in B : \A j \in B : a[h].time + 1 <= a[j].time + 1 BY <1>2
<1>4. PICK m \in Int : m = a[h].time BY <1>3, StateIs
<1> DEFINE F == {j \in B : a[j].time = m}
<1>5. F \in SUBSET Slots /\ F # {} BY <1>3, <1>4
<1>6. PICK g \in F : \A j \in F : g <= j
  <2> HIDE DEF F
  <2> QED BY <1>5, FirstSlot
<1>7. \A j \in B : m <= a[j].time /\ a[j].time \in Int /\ j \in Int
  BY <1>3, <1>4, StateIs
<1>8. \A j \in B : a[g].time <= a[j].time /\ (j < g => a[g].time < a[j].time)
  <2> TAKE j \in B
  <2>1. a[g].time = m /\ g \in B BY <1>6
  <2>2. CASE a[j].time = m
    <3>1. g <= j /\ g \in Int /\ j \in Int BY <1>6, <1>7, <2>1, <2>2
    <3> QED BY <1>7, <2>1, <2>2, <3>1
  <2>3. CASE a[j].time # m
    <3>1. m < a[j].time BY <1>7, <2>3
    <3> QED BY <1>7, <2>1, <3>1
  <2> QED BY <2>2, <2>3
<1> QED BY <1>6, <1>8 DEF IsNext

\* A later state is not behind.
LEMMA LaterIsFurther ==
  ASSUME NEW a \in Array, NEW x \in Slots, Sorted(a, x),
         NEW i \in Slots, NEW j \in Slots, a[i].time < a[j].time
  PROVE  a[i].position <= a[j].position
PROOF
<1>1. i \in Int /\ j \in Int /\ x \in Int /\ a[i].time \in Int /\ a[j].time \in Int BY StateIs
<1>2. i # j BY <1>1
<1>3. Older(x, i, j) \/ Older(x, j, i) BY <1>1, <1>2 DEF Older
<1>4. ~ Older(x, j, i) BY <1>1 DEF Sorted
<1> QED BY <1>3, <1>4 DEF Sorted

\* The place shown at a time between two states.
Drawn(a, i, j, t) ==
  /\ a[i].time <= t /\ t < a[j].time /\ a[i].position <= a[j].position
  /\ a[i].position <= Between(a[i], a[j], t)
  /\ Between(a[i], a[j], t) <= a[j].position
  /\ Between(a[i], a[j], t) \in Int
  /\ Between(a[i], a[j], t) = (a[i].position * (a[j].time - t) + a[j].position * (t - a[i].time))
                                \div (a[j].time - a[i].time)

\* What is drawn between two states of the array, as a mean.
LEMMA DrawnIs ==
  ASSUME NEW a \in Array, NEW x \in Slots, Sorted(a, x), NEW t \in Nat, NEW i \in Slots,
         NEW j \in Slots, IsLast(a, t, i), IsNext(a, i, j)
  PROVE  Drawn(a, i, j, t)
PROOF
<1>1. /\ a[i].time \in Int /\ a[j].time \in Int /\ a[i].position \in Int /\ a[j].position \in Int
      /\ a[i].time < a[j].time /\ 0 <= a[i].time /\ a[i].time <= t
  BY StateIs DEF IsLast, IsNext
<1>2. t < a[j].time BY <1>1 DEF IsLast
<1>3. a[i].position <= a[j].position BY <1>1, LaterIsFurther
<1>4. Between(a[i], a[j], t) =
        (a[i].position * (a[j].time - t) + a[j].position * (t - a[i].time)) \div (a[j].time - a[i].time)
  <2>1. t \in Int OBVIOUS
  <2> QED BY <1>1, <2>1, BetweenIs
<1>5. PICK p \in Int, q \in Int, u \in Int, w \in Int :
        p = a[i].position /\ q = a[j].position /\ u = a[i].time /\ w = a[j].time
  BY <1>1
<1>6. /\ p <= (p * (w - t) + q * (t - u)) \div (w - u)
      /\ (p * (w - t) + q * (t - u)) \div (w - u) <= q
      /\ (p * (w - t) + q * (t - u)) \div (w - u) \in Int
  <2>1. p <= q /\ u < w /\ u <= t /\ t <= w /\ t \in Int BY <1>1, <1>2, <1>3, <1>5
  <2> QED BY ONLY <2>1, BetweenBounds, p \in Int, q \in Int, u \in Int, w \in Int
<1> QED BY <1>1, <1>2, <1>3, <1>4, <1>5, <1>6 DEF Drawn

-----------------------------------------------------------------------------
(* What is drawn moves forward.                                            *)

\* A later time shows a later place.
LEMMA TimeMovesForward ==
  ASSUME NEW a \in Array, NEW x \in Slots, Sorted(a, x), NEW t0 \in Nat, NEW i \in Slots,
         NEW j \in Slots, IsLast(a, t0, i), IsNext(a, i, j)
  PROVE  NotBehind(a, t0, Between(a[i], a[j], t0))
PROOF
<1> SUFFICES ASSUME NEW t \in Nat, t0 <= t, NEW k \in Slots, IsLast(a, t, k)
             PROVE  /\ \A l \in Slots : IsNext(a, k, l) =>
                         Between(a[i], a[j], t0) <= Between(a[k], a[l], t)
                    /\ (\A l \in Slots : a[l].time <= a[k].time) =>
                         Between(a[i], a[j], t0) <= a[k].position
  BY DEF NotBehind
<1>1. \A l \in Slots : a[l].time \in Int /\ a[l].position \in Int /\ l \in Int BY StateIs
<1>2. /\ a[i].time <= t0 /\ t0 < a[j].time /\ a[i].position <= a[j].position
      /\ Between(a[i], a[j], t0) <= a[j].position
      /\ Between(a[i], a[j], t0) \in Int
      /\ Between(a[i], a[j], t0) = (a[i].position * (a[j].time - t0) + a[j].position * (t0 - a[i].time))
                                     \div (a[j].time - a[i].time)
  <2>1. Drawn(a, i, j, t0) BY DrawnIs
  <2> QED BY <2>1 DEF Drawn
<1>3. CASE t < a[j].time
  <2>1. 0 <= a[i].time /\ a[i].time <= t BY <1>1, <1>2 DEF IsLast
  <2>2. a[i].time <= a[k].time /\ (i < k => a[i].time < a[k].time) BY <2>1 DEF IsLast
  <2>3. 0 <= a[k].time /\ a[k].time <= t BY DEF IsLast
  <2>4. ~ (a[i].time < a[k].time)
    <3>1. a[i].time < a[k].time => a[j].time <= a[k].time BY DEF IsNext
    <3> QED BY <1>1, <1>3, <2>3, <3>1
  <2>5. a[k].time = a[i].time BY <1>1, <2>2, <2>4
  <2>6. k < i => a[k].time < a[i].time BY <1>1, <1>2, <2>3, <2>5 DEF IsLast
  <2>7. k = i BY <1>1, <2>2, <2>5, <2>6
  <2>8. ASSUME NEW l \in Slots, IsNext(a, i, l) PROVE l = j
    <3>1. /\ a[i].time < a[j].time /\ a[i].time < a[l].time
          /\ a[l].time <= a[j].time /\ (j < l => a[l].time < a[j].time)
          /\ a[j].time <= a[l].time /\ (l < j => a[j].time < a[l].time)
      BY <2>8 DEF IsNext
    <3> QED BY <1>1, <3>1
  <2>9. Between(a[i], a[j], t0) <= Between(a[i], a[j], t)
    <3>1. Between(a[i], a[j], t) = (a[i].position * (a[j].time - t) + a[j].position * (t - a[i].time))
                                     \div (a[j].time - a[i].time)
      <4>1. Drawn(a, i, j, t) BY <2>7, DrawnIs
      <4> QED BY <4>1 DEF Drawn
    <3>2. PICK p \in Int, q \in Int, u \in Int, w \in Int :
            p = a[i].position /\ q = a[j].position /\ u = a[i].time /\ w = a[j].time
      BY <1>1
    <3>3. /\ p <= q /\ p <= p /\ q <= q /\ u < w /\ u <= t0 /\ t0 <= t /\ t <= w
          /\ t0 \in Int /\ t \in Int
      BY <1>1, <1>2, <1>3, <3>2
    <3>4. (p * (w - t0) + q * (t0 - u)) \div (w - u) <= (p * (w - t) + q * (t - u)) \div (w - u)
      BY ONLY <3>3, BetweenMoves, p \in Int, q \in Int, u \in Int, w \in Int
    <3> QED BY <1>2, <3>1, <3>2, <3>4
  <2>10. ~ (a[j].time <= a[k].time) BY <1>1, <1>2, <2>5
  <2> QED BY <2>7, <2>8, <2>9, <2>10
<1>4. CASE a[j].time <= t
  <2>1. 0 <= a[j].time BY <1>1, <1>2
  <2>2. a[j].time <= a[k].time /\ (j < k => a[j].time < a[k].time) BY <1>4, <2>1 DEF IsLast
  <2>3. a[j].position <= a[k].position
    <3>1. CASE a[j].time < a[k].time BY <3>1, LaterIsFurther
    <3>2. CASE a[j].time = a[k].time
      <4>1. a[i].time < a[k].time /\ (k < j => a[j].time < a[k].time) BY <3>2 DEF IsNext
      <4>2. j = k BY <1>1, <2>2, <3>2, <4>1
      <4> QED BY <1>1, <4>2
    <3> QED BY <1>1, <2>2, <3>1, <3>2
  <2>4. Between(a[i], a[j], t0) <= a[k].position BY <1>1, <1>2, <2>3
  <2>5. ASSUME NEW l \in Slots, IsNext(a, k, l)
        PROVE  Between(a[i], a[j], t0) <= Between(a[k], a[l], t)
    <3>1. a[k].position <= Between(a[k], a[l], t) /\ Between(a[k], a[l], t) \in Int
      <4>1. Drawn(a, k, l, t) BY <2>5, DrawnIs
      <4> QED BY <4>1 DEF Drawn
    <3> QED BY <1>1, <1>2, <2>4, <3>1
  <2> QED BY <2>4, <2>5
<1> QED BY <1>1, <1>3, <1>4

\* The newest state takes the place of the oldest.
LEMMA AddKeepsOrder ==
  ASSUME NEW a \in Array, NEW x \in Slots, Sorted(a, x), NEW e \in Nat, NEW p \in Nat,
         Bounds(a, e, p), NEW b, b = Added(a, x, e, p)
  PROVE  /\ b \in Array /\ b[x].time = e /\ b[x].position = p
         /\ \A i \in Slots : i # x => b[i] = a[i]
         /\ (x + 1) % INTERPOLATION_STATES_COUNT \in Slots
         /\ Sorted(b, (x + 1) % INTERPOLATION_STATES_COUNT)
PROOF
<1>1. /\ b \in Array /\ b[x].time = e /\ b[x].position = p
      /\ \A i \in Slots : i # x => b[i] = a[i]
  BY DEF Array, State, Added
<1>2. PICK n \in Nat : n = INTERPOLATION_STATES_COUNT /\ n > 0 BY CountIs
<1>3. Slots = 0 .. n - 1 BY <1>2 DEF Slots
<1>4. PICK y : y = (x + 1) % n OBVIOUS
<1>5. y = IF x + 1 = n THEN 0 ELSE x + 1 BY <1>2, <1>3, <1>4, IndexMoves
<1>6. y \in Slots BY <1>2, <1>3, <1>5
<1>7. ASSUME NEW i \in Slots, NEW j \in Slots, Older(y, i, j)
      PROVE  b[i].time <= b[j].time /\ b[i].position <= b[j].position
  <2>1. i # x BY <1>2, <1>3, <1>5, <1>7 DEF Older
  <2>2. CASE j = x BY <1>1, <2>1, <2>2 DEF Bounds
  <2>3. CASE j # x
    <3>1. Older(x, i, j) BY <1>2, <1>3, <1>5, <1>7, <2>1, <2>3 DEF Older
    <3> QED BY <1>1, <2>1, <2>3, <3>1 DEF Sorted
  <2> QED BY <2>2, <2>3
<1> QED BY <1>1, <1>2, <1>4, <1>6, <1>7 DEF Sorted

\* A new state, which overwrites the oldest, moves nothing back.
LEMMA StatesMoveForward ==
  ASSUME NEW a \in Array, NEW x \in Slots, Sorted(a, x), NEW e \in Nat, NEW p \in Nat,
         Bounds(a, e, p), NEW b, b = Added(a, x, e, p),
         NEW t0 \in Int, NEW v \in Nat, v <= p, NotBehind(a, t0, v)
  PROVE  NotBehind(b, t0, v)
PROOF
<1>0. Bounds(a, e, p) /\ b = Added(a, x, e, p) OBVIOUS
<1>1. /\ b \in Array /\ b[x].time = e /\ b[x].position = p
      /\ \A i \in Slots : i # x => b[i] = a[i]
  BY DEF Array, State, Added
<1>2. PICK y \in Slots : Sorted(b, y)
  BY ONLY <1>0, Sorted(a, x), AddKeepsOrder, a \in Array, x \in Slots, e \in Nat, p \in Nat
<1> SUFFICES ASSUME NEW t \in Nat, t0 <= t, NEW i2 \in Slots, IsLast(b, t, i2)
             PROVE  /\ \A j2 \in Slots : IsNext(b, i2, j2) => v <= Between(b[i2], b[j2], t)
                    /\ (\A k \in Slots : b[k].time <= b[i2].time) => v <= b[i2].position
  BY DEF NotBehind
<1>3. \A l \in Slots : /\ a[l].time \in Int /\ a[l].position \in Int /\ l \in Int
                       /\ b[l].time \in Int /\ b[l].position \in Int
  BY <1>1, StateIs
<1>4. ASSUME v <= b[i2].position, NEW j2 \in Slots, IsNext(b, i2, j2)
      PROVE  v <= Between(b[i2], b[j2], t)
  <2>1. b[i2].position <= Between(b[i2], b[j2], t) /\ Between(b[i2], b[j2], t) \in Int
    <3>1. Drawn(b, i2, j2, t) BY <1>1, <1>2, <1>4, DrawnIs
    <3> QED BY <3>1 DEF Drawn
  <2> QED BY <1>3, <1>4, <2>1
<1>5. CASE i2 = x BY <1>1, <1>4, <1>5
<1>6. CASE i2 # x
  <2>1. b[i2] = a[i2] /\ 0 <= a[i2].time /\ a[i2].time <= t BY <1>1, <1>6 DEF IsLast
  <2>2. PICK i \in Slots : IsLast(a, t, i) BY <2>1, LastExists
  <2>3. a[i2].time <= a[i].time /\ (i2 < i => a[i2].time < a[i].time)
    BY <2>1, <2>2 DEF IsLast
  <2>4. a[x].time <= a[i2].time /\ a[x].position <= a[i2].position
    <3>1. Older(x, x, i2) BY <1>3, <1>6 DEF Older
    <3> QED BY <3>1 DEF Sorted
  <2>5. a[i].time = a[i2].time /\ a[i].position <= a[i2].position
    <3>1. CASE i = x BY <1>3, <2>3, <2>4, <3>1
    <3>2. CASE i # x
      <4>1. b[i] = a[i] /\ 0 <= b[i].time /\ b[i].time <= t BY <1>1, <2>2, <3>2 DEF IsLast
      <4>2. a[i].time <= a[i2].time /\ (i < i2 => a[i].time < a[i2].time)
        BY <2>1, <4>1 DEF IsLast
      <4>3. i = i2 BY <1>3, <2>3, <4>2
      <4> QED BY <1>3, <4>3
    <3> QED BY <3>1, <3>2
  <2>6. ASSUME \A k \in Slots : a[k].time <= a[i].time PROVE v <= b[i2].position
    <3>1. v <= a[i].position BY <2>2, <2>6 DEF NotBehind
    <3> QED BY <1>3, <2>1, <2>5, <3>1
  <2>7. ASSUME \A k \in Slots : b[k].time <= b[i2].time PROVE v <= b[i2].position
    <3>1. ASSUME NEW k \in Slots PROVE a[k].time <= a[i].time
      <4>1. CASE k = x BY <2>4, <2>5, <4>1
      <4>2. CASE k # x BY <1>1, <2>1, <2>5, <2>7, <4>2
      <4> QED BY <4>1, <4>2
    <3> QED BY <2>6, <3>1
  <2>8. ASSUME NEW j2 \in Slots, IsNext(b, i2, j2), NEW k \in Slots, ~ (a[k].time <= a[i].time)
        PROVE  v <= Between(b[i2], b[j2], t)
    <3>1. a[i].time < a[k].time BY <1>3, <2>8
    <3>2. PICK j \in Slots : IsNext(a, i, j) BY <3>1, NextExists DEF Bounds
    <3>3. a[i].time < a[j].time BY <3>2 DEF IsNext
    <3>4. j # x BY <1>3, <2>4, <2>5, <3>3
    <3>5. b[j] = a[j] BY <1>1, <3>4
    <3>6. b[j2].time <= a[j].time /\ (j < j2 => b[j2].time < a[j].time) /\ b[i2].time < b[j2].time
      BY <2>1, <2>5, <2>8, <3>3, <3>5 DEF IsNext
    <3>7. b[j2].time = a[j].time /\ a[j].position <= b[j2].position
      <4>1. CASE j2 = x BY <1>1, <1>3, <3>6, <4>1 DEF Bounds
      <4>2. CASE j2 # x
        <5>1. b[j2] = a[j2] /\ a[i].time < a[j2].time BY <1>1, <2>1, <2>5, <3>6, <4>2
        <5>2. a[j].time <= a[j2].time /\ (j2 < j => a[j].time < a[j2].time)
          BY <3>2, <5>1 DEF IsNext
        <5>3. j2 = j BY <1>3, <3>6, <5>1, <5>2
        <5> QED BY <1>3, <3>5, <5>3
      <4> QED BY <4>1, <4>2
    <3>8. v <= Between(a[i], a[j], t) BY <2>2, <3>2 DEF NotBehind
    <3>9. /\ a[i].time <= t /\ t < a[j].time /\ a[i].position <= a[j].position
          /\ Between(a[i], a[j], t) \in Int
          /\ Between(a[i], a[j], t) = (a[i].position * (a[j].time - t) + a[j].position * (t - a[i].time))
                                         \div (a[j].time - a[i].time)
      <4>1. Drawn(a, i, j, t) BY <2>2, <3>2, DrawnIs
      <4> QED BY <4>1 DEF Drawn
    <3>10. /\ b[i2].position <= b[j2].position /\ Between(b[i2], b[j2], t) \in Int
           /\ Between(b[i2], b[j2], t) =
                (b[i2].position * (b[j2].time - t) + b[j2].position * (t - b[i2].time))
                  \div (b[j2].time - b[i2].time)
      <4>1. Drawn(b, i2, j2, t) BY <1>1, <1>2, <2>8, DrawnIs
      <4> QED BY <4>1 DEF Drawn
    <3>11. PICK q \in Int, r \in Int, q2 \in Int, r2 \in Int, u \in Int, w \in Int :
             /\ q = a[i].position /\ r = a[j].position /\ u = a[i].time /\ w = a[j].time
             /\ q2 = b[i2].position /\ r2 = b[j2].position
      BY <1>3
    <3>12. u = b[i2].time /\ w = b[j2].time BY <2>1, <2>5, <3>7, <3>11
    <3>13. /\ q <= r /\ q2 <= r2 /\ q <= q2 /\ r <= r2 /\ u < w /\ u <= t /\ t <= t /\ t <= w
           /\ t \in Int
      BY <1>3, <2>1, <2>5, <3>3, <3>7, <3>9, <3>10, <3>11
    <3>14. (q * (w - t) + r * (t - u)) \div (w - u) <= (q2 * (w - t) + r2 * (t - u)) \div (w - u)
      BY ONLY <3>13, BetweenMoves, q \in Int, r \in Int, q2 \in Int, r2 \in Int, u \in Int, w \in Int
    <3>15. Between(a[i], a[j], t) <= Between(b[i2], b[j2], t)
      BY <3>9, <3>10, <3>11, <3>12, <3>14
    <3> QED BY <3>8, <3>9, <3>10, <3>15
  <2> QED BY <1>4, <2>6, <2>7, <2>8
<1> QED BY <1>5, <1>6

-----------------------------------------------------------------------------
(* The steps of the client.                                                *)

LEMMA FilledIs ==
  ASSUME PlayerIInv
  PROVE  Filled = {i \in Slots : 0 <= ring.array[i].time}
PROOF
<1>1. ring.array \in Array /\ DOMAIN ring.array = Slots BY DEF PlayerIInv, PlayerType, Array
<1>2. ASSUME NEW i \in Slots PROVE ring.array[i] # NoState <=> 0 <= ring.array[i].time
  <2>1. PICK s \in State : s = ring.array[i] BY <1>1 DEF Array
  <2>2. s.time = -1 => s.position = 0 BY <2>1 DEF PlayerIInv
  <2>3. s.time = -1 /\ s.position = 0 => s = NoState BY DEF State, NoState
  <2>4. s = NoState => s.time = -1 BY DEF NoState
  <2>5. s.time = -1 \/ 0 <= s.time BY DEF State
  <2>6. ~ (0 <= -1) OBVIOUS
  <2> QED BY <2>1, <2>2, <2>3, <2>4, <2>5, <2>6
<1> QED BY <1>1, <1>2 DEF Filled

\* The search finds the two states around the time that is shown.
LEMMA StatesAre ==
  ASSUME PlayerIInv, NEW t \in Nat, Before(t) # {}, After(t) # {}
  PROVE  /\ IsLast(ring.array, t, State1(t)) /\ IsNext(ring.array, State1(t), State2(t))
         /\ State1(t) \in Slots /\ State2(t) \in Slots
PROOF
<1>1. ring.array \in Array /\ elapsed \in Nat
      /\ \A j \in Slots : ring.array[j].time <= elapsed
  BY DEF PlayerIInv, PlayerType
<1>2. Before(t) = {i \in Slots : 0 <= ring.array[i].time /\ ring.array[i].time <= t}
  BY FilledIs DEF Before, TimeAt
<1>3. \A i \in Slots : ring.array[i].time \in Int /\ i \in Int BY <1>1, StateIs
<1>4. State1(t) = CHOOSE i \in Before(t) : \A j \in Before(t) :
                    /\ ~ (ring.array[j].time > ring.array[i].time)
                    /\ j < i => ring.array[i].time > ring.array[j].time
  BY DEF State1, FirstBest, TimeAt
<1>5. PICK k \in Slots : IsLast(ring.array, t, k) BY <1>1, <1>2, LastExists
<1>6. /\ k \in Before(t)
      /\ \A j \in Before(t) : /\ ~ (ring.array[j].time > ring.array[k].time)
                              /\ j < k => ring.array[k].time > ring.array[j].time
  BY <1>2, <1>3, <1>5 DEF IsLast
<1>7. PICK s1 \in Before(t) :
        /\ s1 = State1(t)
        /\ \A j \in Before(t) : /\ ~ (ring.array[j].time > ring.array[s1].time)
                                /\ j < s1 => ring.array[s1].time > ring.array[j].time
  BY <1>4, <1>6
<1>8. IsLast(ring.array, t, s1) /\ s1 \in Slots BY <1>2, <1>3, <1>7 DEF IsLast
<1>9. After(t) = {i \in Slots : ring.array[s1].time < ring.array[i].time}
  <2>1. \A i \in Slots : ring.array[i].time > ring.array[s1].time =>
                           0 <= ring.array[i].time
    BY <1>2, <1>3, <1>7
  <2>2. After(t) = {i \in Filled : ring.array[i].time > ring.array[s1].time}
    BY <1>7 DEF After, TimeAt
  <2> QED BY <1>3, <1>8, <2>1, <2>2, FilledIs
<1>10. State2(t) = CHOOSE i \in After(t) : \A j \in After(t) :
                     /\ ~ (ring.array[j].time < ring.array[i].time)
                     /\ j < i => ring.array[i].time < ring.array[j].time
  BY DEF State2, FirstBest, TimeAt
<1>11. PICK l \in Slots : IsNext(ring.array, s1, l)
  BY <1>1, <1>8, <1>9, NextExists
<1>12. /\ l \in After(t)
       /\ \A j \in After(t) : /\ ~ (ring.array[j].time < ring.array[l].time)
                              /\ j < l => ring.array[l].time < ring.array[j].time
  BY <1>3, <1>9, <1>11 DEF IsNext
<1>13. PICK s2 \in After(t) :
         /\ s2 = State2(t)
         /\ \A j \in After(t) : /\ ~ (ring.array[j].time < ring.array[s2].time)
                                /\ j < s2 => ring.array[s2].time < ring.array[j].time
  BY <1>10, <1>12
<1>14. IsNext(ring.array, s1, s2) /\ s2 \in Slots BY <1>3, <1>9, <1>13 DEF IsNext
<1> QED BY <1>7, <1>8, <1>13, <1>14

\* As time goes on less has to be compared.
LEMMA NotBehindLater ==
  ASSUME NEW a, NEW t0 \in Int, NEW t1 \in Int, t0 <= t1, NEW v, NotBehind(a, t0, v)
  PROVE  NotBehind(a, t1, v)
PROOF BY DEF NotBehind

LEMMA PlayerInitHolds == InterpolationInit => PlayerIInv
PROOF
<1> SUFFICES ASSUME InterpolationInit PROVE PlayerIInv OBVIOUS
<1>1. PICK a : a = ring.array OBVIOUS
<1>2. /\ a = [i \in Slots |-> NoState] /\ ring = [array |-> a, index |-> 0]
      /\ elapsed = 0 /\ phase = "show" /\ latest = 0 /\ shown = 0
  BY <1>1 DEF InterpolationInit, Slots
<1>3. NoState \in State /\ NoState.time = -1 /\ NoState.position = 0
  BY DEF NoState, State
<1>4. a \in Array /\ \A i \in Slots : a[i].time = -1 /\ a[i].position = 0
  BY <1>2, <1>3 DEF Array
<1>5. 0 \in Slots BY CountIs DEF Slots
<1>6. PlayerType BY <1>2, <1>4, <1>5 DEF PlayerType
<1>7. Sorted(a, 0) BY <1>4 DEF Sorted
<1>8. \A t \in Nat, i \in Slots : ~ IsLast(a, t, i) BY <1>4 DEF IsLast
<1>9. NotBehind(a, elapsed - INTERPOLATION_TIME_MS, shown) BY <1>8 DEF NotBehind
<1> QED BY <1>1, <1>2, <1>4, <1>6, <1>7, <1>9 DEF PlayerIInv

LEMMA FrameStep ==
  ASSUME PlayerIInv, Frame
  PROVE  PlayerIInv' /\ shown' = shown
PROOF
<1>1. /\ PlayerType /\ \A i \in Slots : ring.array[i].time \in Int
  BY StateIs DEF PlayerIInv, PlayerType
<1>2. PICK d \in Steps : elapsed' = elapsed + d BY DEF Frame
<1>3. d \in Nat /\ elapsed \in Nat /\ elapsed' \in Nat /\ elapsed <= elapsed'
  BY <1>1, <1>2, InterpolationAssumption DEF PlayerType
<1>4. UNCHANGED <<ring, latest, shown>> /\ phase' = "receive" BY DEF Frame
<1>5. NotBehind(ring.array, elapsed' - INTERPOLATION_TIME_MS, shown)
  <2>1. PICK e0 \in Nat, e1 \in Nat, ms \in Nat :
          e0 = elapsed /\ e1 = elapsed' /\ ms = INTERPOLATION_TIME_MS
    BY <1>3, CountIs
  <2>0. e0 <= e1 BY <1>3, <2>1
  <2>2. e0 - ms \in Int /\ e1 - ms \in Int /\ e0 - ms <= e1 - ms
    BY ONLY <2>0, e0 \in Nat, e1 \in Nat, ms \in Nat
  <2>3. NotBehind(ring.array, e0 - ms, shown) BY <2>1 DEF PlayerIInv
  <2> QED BY <2>1, <2>2, <2>3, NotBehindLater
<1>6. \A i \in Slots : ring.array[i].time <= elapsed'
  <2>1. \A i \in Slots : ring.array[i].time <= elapsed BY DEF PlayerIInv
  <2> QED BY <1>1, <1>3, <2>1
<1>7. PlayerType' BY <1>1, <1>3, <1>4 DEF PlayerType
<1> QED BY <1>4, <1>5, <1>6, <1>7 DEF PlayerIInv

LEMMA ReceiveStep ==
  ASSUME PlayerIInv, NEW p \in 0 .. MaxPosition, ReceivePosition(p)
  PROVE  PlayerIInv' /\ shown' = shown
PROOF
<1>1. PICK a \in Array, x \in Slots : a = ring.array /\ x = ring.index /\ ring = [array |-> a, index |-> x]
  BY DEF PlayerIInv, PlayerType
<1>2. /\ elapsed \in Nat /\ shown \in Nat /\ latest \in Nat /\ shown <= latest /\ latest <= p
      /\ p \in Nat /\ UNCHANGED <<elapsed, phase, shown, direction>> /\ latest' = p
      /\ phase \in {"receive", "show"}
  BY DEF PlayerIInv, PlayerType, ReceivePosition
<1>3. \A i \in Slots : /\ a[i].time <= elapsed /\ a[i].position <= p
                       /\ a[i].time = -1 => a[i].position = 0
  <2>1. \A i \in Slots : /\ a[i].time <= elapsed /\ a[i].position <= latest
                         /\ a[i].time = -1 => a[i].position = 0
    BY <1>1 DEF PlayerIInv
  <2>2. \A i \in Slots : a[i].position \in Int BY StateIs
  <2> QED BY <1>2, <2>1, <2>2
<1>4. PICK b : b = Added(a, x, elapsed, p) OBVIOUS
<1>5. ring' = [array |-> b, index |-> (x + 1) % INTERPOLATION_STATES_COUNT]
  BY <1>1, <1>4 DEF ReceivePosition, AddState, Added
<1>6. Sorted(a, x) /\ NotBehind(a, elapsed - INTERPOLATION_TIME_MS, shown)
  BY <1>1 DEF PlayerIInv
<1>7. /\ b \in Array /\ b[x].time = elapsed /\ b[x].position = p
      /\ \A i \in Slots : i # x => b[i] = a[i]
      /\ (x + 1) % INTERPOLATION_STATES_COUNT \in Slots
      /\ Sorted(b, (x + 1) % INTERPOLATION_STATES_COUNT)
  <2>1. PICK e \in Nat : e = elapsed BY <1>2
  <2>2. Bounds(a, e, p) /\ b = Added(a, x, e, p) /\ Sorted(a, x) /\ p \in Nat
    BY <1>2, <1>3, <1>4, <1>6, <2>1 DEF Bounds
  <2>3. /\ b \in Array /\ b[x].time = e /\ b[x].position = p
        /\ \A i \in Slots : i # x => b[i] = a[i]
        /\ (x + 1) % INTERPOLATION_STATES_COUNT \in Slots
        /\ Sorted(b, (x + 1) % INTERPOLATION_STATES_COUNT)
    BY ONLY <2>2, AddKeepsOrder, a \in Array, x \in Slots, e \in Nat
  <2> QED BY <2>1, <2>3
<1>8. NotBehind(b, elapsed - INTERPOLATION_TIME_MS, shown)
  <2>1. PICK e \in Nat, t0 \in Int, v \in Nat :
          e = elapsed /\ t0 = elapsed - INTERPOLATION_TIME_MS /\ v = shown
    BY <1>2, CountIs
  <2>2. /\ Bounds(a, e, p) /\ b = Added(a, x, e, p) /\ Sorted(a, x) /\ p \in Nat
        /\ v <= p /\ NotBehind(a, t0, v)
    <3>1. v <= p BY <1>2, <2>1
    <3> QED BY <1>2, <1>3, <1>4, <1>6, <2>1, <3>1 DEF Bounds
  <2>3. NotBehind(b, t0, v)
    BY ONLY <2>2, StatesMoveForward, a \in Array, x \in Slots, e \in Nat, t0 \in Int, v \in Nat
  <2> QED BY <2>1, <2>3
<1>9. \A i \in Slots : /\ b[i].time <= elapsed /\ b[i].position <= p
                       /\ b[i].time = -1 => b[i].position = 0
  <2> TAKE i \in Slots
  <2>1. elapsed # -1 BY <1>2
  <2> QED BY <1>2, <1>3, <1>7, <2>1
<1>10. shown' <= latest' BY <1>2
<1>11. ring'.array = b /\ ring'.index = (x + 1) % INTERPOLATION_STATES_COUNT
  BY <1>5
<1>12. PlayerType' BY <1>2, <1>5, <1>7 DEF PlayerType
<1> QED BY <1>2, <1>7, <1>8, <1>9, <1>10, <1>11, <1>12 DEF PlayerIInv

LEMMA ShowStep ==
  ASSUME PlayerIInv, Show
  PROVE  PlayerIInv' /\ shown <= shown' /\ shown' <= latest
PROOF
<1> DEFINE time == elapsed - INTERPOLATION_TIME_MS
<1>1. PICK a \in Array, x \in Slots : a = ring.array /\ x = ring.index /\ ring = [array |-> a, index |-> x]
  BY DEF PlayerIInv, PlayerType
<1>2. /\ elapsed \in Nat /\ shown \in Nat /\ latest \in Nat /\ shown <= latest
      /\ UNCHANGED <<elapsed, ring, latest>> /\ phase' = "show"
      /\ \A i \in Slots : a[i].position <= latest
      /\ Sorted(a, x) /\ NotBehind(a, time, shown)
  BY <1>1 DEF PlayerIInv, PlayerType, Show
<1>3. ASSUME shown' \in Nat, shown <= shown', shown' <= latest, NotBehind(a, time, shown')
      PROVE  PlayerIInv' /\ shown <= shown' /\ shown' <= latest
  BY <1>1, <1>2, <1>3 DEF PlayerIInv, PlayerType
<1>4. CASE time >= 0 /\ Before(time) # {} /\ After(time) # {}
  <2>1. time \in Nat BY <1>2, <1>4, CountIs
  <2> HIDE DEF time
  <2>2. PICK i \in Slots, j \in Slots :
          i = State1(time) /\ j = State2(time) /\ IsLast(a, time, i) /\ IsNext(a, i, j)
    BY <1>1, <1>4, <2>1, StatesAre
  <2>3. shown' = Between(a[i], a[j], time)
    BY <1>1, <1>4, <2>2 DEF Show, Between, time
  <2>4. /\ a[i].position <= Between(a[i], a[j], time)
        /\ Between(a[i], a[j], time) <= a[j].position
        /\ Between(a[i], a[j], time) \in Int
    <3>1. Drawn(a, i, j, time) BY <1>2, <2>1, <2>2, DrawnIs
    <3> QED BY <3>1 DEF Drawn
  <2>5. a[i].position \in Nat /\ a[j].position \in Nat BY StateIs
  <2>6. shown' \in Nat BY <2>3, <2>4, <2>5
  <2>7. shown' <= latest
    <3>1. a[j].position <= latest BY <1>2
    <3> QED BY <1>2, <2>3, <2>4, <2>5, <3>1
  <2>8. shown <= shown'
    <3>1. time <= time BY <2>1
    <3> QED BY <1>2, <2>1, <2>2, <2>3, <3>1 DEF NotBehind
  <2>9. NotBehind(a, time, shown')
    BY <1>2, <2>1, <2>2, <2>3, TimeMovesForward
  <2> QED BY <1>3, <2>6, <2>7, <2>8, <2>9
<1>5. CASE ~ (time >= 0 /\ Before(time) # {} /\ After(time) # {})
  <2>1. shown' = shown BY <1>5 DEF Show
  <2>2. shown <= shown' BY <1>2, <2>1
  <2> QED BY <1>2, <1>3, <2>1, <2>2
<1> QED BY <1>4, <1>5

LEMMA PlayerStepKeeps ==
  ASSUME PlayerIInv, [InterpolationNext]_interpolationVars
  PROVE  PlayerIInv' /\ shown <= shown' /\ shown' <= latest
PROOF
<1>1. shown \in Nat /\ latest \in Nat /\ shown <= latest BY DEF PlayerIInv, PlayerType
<1>2. CASE Frame BY <1>1, <1>2, FrameStep
<1>3. CASE Show BY <1>3, ShowStep
<1>4. ASSUME NEW p \in 0 .. MaxPosition, ReceivePosition(p)
      PROVE  PlayerIInv' /\ shown <= shown' /\ shown' <= latest
  BY <1>1, <1>4, ReceiveStep
<1>5. CASE UNCHANGED interpolationVars
  <2>1. PlayerIInv' BY <1>5 DEF PlayerIInv, PlayerType, interpolationVars
  <2> QED BY <1>1, <1>5, <2>1 DEF interpolationVars
<1> QED BY <1>2, <1>3, <1>4, <1>5 DEF InterpolationNext

\* A player who walks one way is never drawn a step back, nor ahead of the last
\* position that arrived, for a buffer of any size, any delay, any times between
\* frames and any number of positions in one of them
\* (position_interpolation_entity_system.c).
THEOREM NeverDrawnBackwards == InterpolationSpec => ShownMovesForward
PROOF
<1>1. InterpolationInit => PlayerIInv BY PlayerInitHolds
<1>2. PlayerIInv /\ [InterpolationNext]_interpolationVars => PlayerIInv'
  BY PlayerStepKeeps
<1>3. PlayerIInv /\ [InterpolationNext]_interpolationVars =>
        [shown <= shown' /\ shown' <= latest]_interpolationVars
  BY PlayerStepKeeps
<1> QED BY <1>1, <1>2, <1>3, PTL DEF InterpolationSpec, ShownMovesForward
==================================================================================
