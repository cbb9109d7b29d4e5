------------------------------- MODULE BitStreams -------------------------------
(***************************************************************************)
(* The three streams of tdd_network, which serialize the members of a      *)
(* message: one measures the bits they take, one writes them through a bit *)
(* writer, one reads them through a bit reader.  A message describes its   *)
(* members once and each stream interprets the description its own way;    *)
(* that the three agree is what makes packets work.                        *)
(*                                                                         *)
(* A word is a sequence of WORD_SIZE bits, the lowest first.               *)
(***************************************************************************)
EXTENDS Integers, Sequences

WORD_SIZE == 32

\* Members of a message.  A byte array is given as the words it fills; a row of n
\* members of the same kind is serialized one after the other.
Uint(min, max) == [kind |-> "uint", min |-> min, max |-> max]
Sint(min, max) == [kind |-> "int", min |-> min, max |-> max]
Bool == Uint(0, 1)
ByteArray(length) == [kind |-> "bytes", length |-> length]
Row(n, f) == [kind |-> "row", n |-> n, of |-> f]

\* The values a member can take: the streams assert that a number is in its range
\* before they measure or write it.
Values(f) ==
  CASE f.kind \in {"uint", "int"} -> f.min .. f.max
    [] f.kind = "row" -> [1 .. f.n -> f.of.min .. f.of.max]
    [] f.kind = "bytes" -> [1 .. f.length \div (WORD_SIZE \div 8) -> [1 .. WORD_SIZE -> {0, 1}]]

\* number_of_bits_required_for: one more than the position of the highest bit.
NumberOfBits(v) == CHOOSE n \in 1 .. WORD_SIZE - 1 : v \div 2 ^ (n - 1) = 1

\* BITS_REQUIRED
BitsRequired(min, max) == IF min = max THEN 0 ELSE NumberOfBits(max - min)

Abs(v) == IF v < 0 THEN - v ELSE v
Lesser(a, b) == IF a <= b THEN a ELSE b
Greater(a, b) == IF a <= b THEN b ELSE a

\* The member an int becomes once its sign is apart.
AbsMember(f) ==
  Uint(IF f.min < 0 /\ f.max > 0 THEN 0 ELSE Lesser(Abs(f.min), Abs(f.max)),
       Greater(Abs(f.min), Abs(f.max)))

ToBits(v, n) == [i \in 1 .. n |-> (v \div 2 ^ (i - 1)) % 2]
FromBits(bits) ==
  LET sum[i \in 0 .. Len(bits)] == IF i = 0 THEN 0 ELSE sum[i - 1] + bits[i] * 2 ^ (i - 1)
  IN sum[Len(bits)]
Zeros(n) == [i \in 1 .. n |-> 0]

\* The words a byte array takes: one more than fit whole.
WordsOf(f) == f.length \div (WORD_SIZE \div 8) + 1

-----------------------------------------------------------------------------
(* measure_stream: only a number of bits.                                  *)

MeasurePadding(n) == IF n % WORD_SIZE = 0 THEN 0 ELSE WORD_SIZE - (n % WORD_SIZE)

\* Fault: the padding before a byte array is counted once.
MeasurePaddingOnce(n, f) ==
  CASE f.kind = "uint" -> n + BitsRequired(f.min, f.max)
    [] f.kind = "int" -> n + BitsRequired(AbsMember(f).min, AbsMember(f).max) + 1
    [] f.kind = "row" -> n + f.n * BitsRequired(f.of.min, f.of.max)
    [] f.kind = "bytes" -> n + MeasurePadding(n) + f.length * 8

\* The padding before a byte array is counted when the stream is padded and
\* again with the array; the array counts for its bytes, not for its words.
MeasureMember(n, f) ==
  CASE f.kind = "uint" -> n + BitsRequired(f.min, f.max)
    [] f.kind = "int" -> n + BitsRequired(AbsMember(f).min, AbsMember(f).max) + 1
    [] f.kind = "row" -> n + f.n * BitsRequired(f.of.min, f.of.max)
    [] f.kind = "bytes" -> n + 2 * MeasurePadding(n) + f.length * 8

Measured(n, fs) ==
  LET m[i \in 0 .. Len(fs)] == IF i = 0 THEN n ELSE MeasureMember(m[i - 1], fs[i])
  IN m[Len(fs)]

-----------------------------------------------------------------------------
(* write_stream and its bit_writer, over a buffer of size words.           *)

Writer(size) == [size |-> size, words |-> <<>>, scratch |-> <<>>, failed |-> FALSE]

\* flushScratchBitsToBuffer, of a full word or of what is left.
FlushBits(w) ==
  IF Len(w.words) >= w.size THEN [w EXCEPT !.failed = TRUE]
  ELSE LET n == Lesser(WORD_SIZE, Len(w.scratch))
       IN [w EXCEPT !.words = Append(@, SubSeq(w.scratch, 1, n) \o Zeros(WORD_SIZE - n)),
                    !.scratch = SubSeq(@, n + 1, Len(@))]

\* bit_writer_write; once it fails nothing more is written.
WriteBits(w, bits) ==
  IF w.failed THEN w
  ELSE LET filled == [w EXCEPT !.scratch = @ \o bits]
       IN IF Len(filled.scratch) >= WORD_SIZE THEN FlushBits(filled) ELSE filled

WriteUint(w, f, v) == WriteBits(w, ToBits(v - f.min, BitsRequired(f.min, f.max)))

WritePadding(w) ==
  IF w.scratch = <<>> THEN w ELSE WriteBits(w, Zeros(WORD_SIZE - Len(w.scratch)))

\* write_stream_serialize_byte_array: memcpy into the buffer at a word; the last
\* word keeps what the buffer held.
WriteBytes(w, f, words) ==
  LET p == WritePadding(w)
  IN IF p.failed THEN p
     ELSE [p EXCEPT !.words = @ \o words \o [i \in 1 .. WordsOf(f) - Len(words) |-> Zeros(WORD_SIZE)]]

WriteRow(w, f, vs) ==
  LET done[i \in 0 .. f.n] == IF i = 0 THEN w ELSE WriteUint(done[i - 1], f.of, vs[i])
  IN IF w.failed THEN w ELSE done[f.n]

WriteMember(w, f, v) ==
  CASE f.kind = "uint" -> WriteUint(w, f, v)
    [] f.kind = "int" -> WriteUint(WriteUint(w, Bool, IF v < 0 THEN 1 ELSE 0), AbsMember(f), Abs(v))
    [] f.kind = "row" -> WriteRow(w, f, v)
    [] f.kind = "bytes" -> WriteBytes(w, f, v)

Written(w, fs, vs) ==
  LET done[i \in 0 .. Len(fs)] == IF i = 0 THEN w ELSE WriteMember(done[i - 1], fs[i], vs[i])
  IN done[Len(fs)]

\* bit_writer_flush
FlushWriter(w) == IF w.failed \/ w.scratch = <<>> THEN w ELSE FlushBits(w)

-----------------------------------------------------------------------------
(* read_stream and its bit_reader.  A step gives the reader and the value. *)

Reader(words) ==
  [words |-> words, next |-> 0, scratch |-> <<>>, value |-> 0, failed |-> FALSE]

\* getNextWordFromBuffer
Fetch(r) ==
  IF r.next + 1 > Len(r.words) THEN [r EXCEPT !.failed = TRUE]
  ELSE [r EXCEPT !.scratch = @ \o r.words[r.next + 1], !.next = @ + 1]

\* bit_reader_read
ReadBits(r, n) ==
  IF r.failed THEN r
  ELSE LET f == IF n > Len(r.scratch) THEN Fetch(r) ELSE r
       IN IF f.failed THEN f
          ELSE [f EXCEPT !.value = FromBits(SubSeq(f.scratch, 1, n)),
                         !.scratch = SubSeq(@, n + 1, Len(@))]

ReadUint(r, f) == [ReadBits(r, BitsRequired(f.min, f.max)) EXCEPT !.value = @ + f.min]

ReadInt(r, f) ==
  LET sign == ReadUint(r, Bool)
  IN [ReadUint(sign, AbsMember(f)) EXCEPT !.value = IF sign.value = 1 THEN - @ ELSE @]

\* The rest of the word is skipped.
ReadPadding(r) == [r EXCEPT !.scratch = <<>>]

\* Fault: the reader only passes the words the bytes fill whole.
ReadBytesExactly(r, f) ==
  LET p == ReadPadding(r)
      n == f.length \div (WORD_SIZE \div 8)
  IN IF p.failed THEN p
     ELSE [p EXCEPT !.value = SubSeq(p.words, p.next + 1, p.next + n), !.next = @ + n]

\* read_stream_serialize_byte_array
ReadBytes(r, f) ==
  LET p == ReadPadding(r)
  IN IF p.failed THEN p
     ELSE [p EXCEPT !.value = SubSeq(p.words, p.next + 1, p.next + f.length \div (WORD_SIZE \div 8)),
                    !.next = @ + WordsOf(f)]

\* The reader after n readings, the i-th by Read(reader, i), and their values.
ReadInTurn(Read(_, _), r, n) ==
  LET done[i \in 0 .. n] ==
        IF i = 0 THEN [reader |-> r, values |-> <<>>]
        ELSE LET before == done[i - 1]
                 after == Read(before.reader, i)
             IN [reader |-> after, values |-> Append(before.values, after.value)]
  IN done[n]

ReadRow(r, f) ==
  LET row == ReadInTurn(LAMBDA s, i : ReadUint(s, f.of), r, f.n)
  IN IF r.failed THEN r ELSE [row.reader EXCEPT !.value = row.values]

ReadMember(r, f) ==
  CASE f.kind = "uint" -> ReadUint(r, f)
    [] f.kind = "int" -> ReadInt(r, f)
    [] f.kind = "row" -> ReadRow(r, f)
    [] f.kind = "bytes" -> ReadBytes(r, f)

ReadMembers(r, fs) == ReadInTurn(LAMBDA s, i : ReadMember(s, fs[i]), r, Len(fs))
=============================================================================
