-------------------------------- MODULE Flac --------------------------------
(***************************************************************************)
(* The FLAC encoder (bsm-encode/src/flac_enc.rs): what encode_frame makes  *)
(* of a block of interleaved samples, as a sequence of bits, and the       *)
(* decoder of the format as a reference to compare it with.                *)
(*                                                                         *)
(* A frame is a record of its bits, with the number and the block size     *)
(* they were made for.  Frame numbers are below 2^26 (66 days at 48 kHz),  *)
(* above which the code's lead byte is wrong.                              *)
(***************************************************************************)
EXTENDS Integers, Sequences, FiniteSets, SequencesExt

CONSTANTS
  SampleBits,  \* width of a sample (16)
  RawBits,     \* width of an escaped residual (17)
  EscapeAbove, \* quotient above which residuals are escaped (128)
  RiceCap      \* largest Rice parameter (14)

ASSUME FlacAssumption ==
  /\ SampleBits \in 1 .. 30 /\ RawBits = SampleBits + 1
  /\ EscapeAbove \in Nat /\ RiceCap \in 0 .. 14

\* 2 ^ n, in a form that proofs can unfold.
Pow2(n) ==
  LET power[i \in 0 .. n] == IF i = 0 THEN 1 ELSE 2 * power[i - 1] IN power[n]

Samples == -Pow2(SampleBits - 1) .. Pow2(SampleBits - 1) - 1

\* What the fields of a header have room for.
BlockSizes   == {s \in Nat : s >= 1 /\ s <= 65536}
HeaderRates  == {r \in Nat : r >= 1 /\ (r <= 65535 \/ (r % 10 = 0 /\ r <= 655350))}
FrameNumbers == {v \in Nat : v <= 67108863}
-----------------------------------------------------------------------------
(* The encoder.                                                            *)

\* write_bits: the count low bits, the highest first.  A negative number is
\* taken in two's complement.
Bits(val, count) == [i \in 1 .. count |-> (val \div Pow2(count - i)) % 2]

Unary(count) == Bits(1, count + 1)

\* Residuals of either sign as naturals: 0, -1, 1, -2, ...
Fold(r) == IF r >= 0 THEN 2 * r ELSE -2 * r - 1

RiceParam(residuals) ==
  LET sum  == FoldLeft(LAMBDA acc, r : acc + Fold(r), 0, residuals)
      mean == sum \div Len(residuals)
      log  == Cardinality({k \in 1 .. RawBits : Pow2(k) <= mean})
  IN IF log < RiceCap THEN log ELSE RiceCap

\* One residual as a Rice code: the quotient in unary, the remainder in k bits.
Rice(r, k) == Unary(Fold(r) \div Pow2(k)) \o Bits(Fold(r), k)

\* Whether one of the residuals would have too long a quotient.
TooLong(residuals, k) ==
  \E i \in DOMAIN residuals : Fold(residuals[i]) \div Pow2(k) > EscapeAbove

\* Mutated form: escaped residuals have the width of samples.
EncodeResidualsNarrow(residuals) ==
  LET k == RiceParam(residuals)
  IN Bits(0, 2) \o Bits(0, 4) \o
       IF TooLong(residuals, k)
       THEN Bits(15, 4) \o Bits(SampleBits, 5) \o
              FlattenSeq([i \in DOMAIN residuals |-> Bits(residuals[i], SampleBits)])
       ELSE Bits(k, 4) \o FlattenSeq([i \in DOMAIN residuals |-> Rice(residuals[i], k)])

\* Partitioned Rice coding with one partition; all residuals are written raw
\* when one of them would have too long a quotient.
EncodeResiduals(residuals) ==
  LET k == RiceParam(residuals)
  IN Bits(0, 2) \o Bits(0, 4) \o
       IF TooLong(residuals, k)
       THEN Bits(15, 4) \o Bits(RawBits, 5) \o
              FlattenSeq([i \in DOMAIN residuals |-> Bits(residuals[i], RawBits)])
       ELSE Bits(k, 4) \o FlattenSeq([i \in DOMAIN residuals |-> Rice(residuals[i], k)])

Residuals(samples) ==
  [i \in 1 .. Len(samples) - 1 |-> samples[i + 1] - samples[i]]

\* CONSTANT or FIXED of order 1.  VERBATIM, for one sample, is never reached:
\* one sample is constant.
EncodeSubframe(samples) ==
  LET same == \A i \in DOMAIN samples : samples[i] = samples[1]
      kind == IF same THEN 0 ELSE 9
  IN Bits(0, 1) \o Bits(kind, 6) \o Bits(0, 1) \o Bits(samples[1], SampleBits) \o
       IF same THEN <<>> ELSE EncodeResiduals(Residuals(samples))

\* The samples of channel c of an interleaved block.
Channel(block, channels, c) ==
  [i \in 1 .. Len(block) \div channels |-> block[(i - 1) * channels + c]]

Xor(a, b) == [i \in DOMAIN a |-> (a[i] + b[i]) % 2]

\* One bit into the shift register of a checksum.
Shift(reg, b, poly) ==
  LET shifted == Append(Tail(reg), 0)
  IN IF reg[1] = b THEN shifted ELSE Xor(shifted, poly)

\* Bits are taken byte by byte: the last bit of byte k of n bits.
ByteEnd(k, n) == IF 8 * k < n THEN 8 * k ELSE n
LastByte(n) == (n + 7) \div 8

\* The register after byte k.  (Here and in SubtractByte the comparison makes TLC
\* evaluate what it has before it goes on, so that its recursion stays flat.)
CrcByte(reg, bits, k, poly) ==
  LET next[i \in ByteEnd(k - 1, Len(bits)) .. ByteEnd(k, Len(bits))] ==
        IF i = ByteEnd(k - 1, Len(bits)) THEN reg ELSE Shift(next[i - 1], bits[i], poly)
  IN IF reg = <<>> THEN reg ELSE next[ByteEnd(k, Len(bits))]

\* crc8 and crc16: a shift register over the bits, from 0, for a polynomial
\* without its highest term.
Crc(bits, poly) ==
  LET reg[k \in 0 .. LastByte(Len(bits))] ==
        IF k = 0 THEN [j \in DOMAIN poly |-> 0] ELSE CrcByte(reg[k - 1], bits, k, poly)
  IN reg[LastByte(Len(bits))]

Poly8  == Bits(7, 8)
Poly16 == Bits(32773, 16)

\* The codes of the header.  0 stands for a code of another meaning.
SizeTable == <<192, 576, 1152, 2304, 4608, 0, 0,
               256, 512, 1024, 2048, 4096, 8192, 16384, 32768>>
RateTable == <<88200, 176400, 192000, 8000, 16000, 22050, 24000, 32000, 44100, 48000, 96000>>
BpsTable  == <<8, 12, 0, 16, 20, 24, 32>>

Index(table, value) == CHOOSE i \in DOMAIN table : table[i] = value
Listed(table, value) == \E i \in DOMAIN table : table[i] = value

BlockSizeCode(size) ==
  IF Listed(SizeTable, size) THEN Index(SizeTable, size) ELSE IF size <= 256 THEN 6 ELSE 7

SampleRateCode(rate) ==
  IF Listed(RateTable, rate) THEN Index(RateTable, rate)
  ELSE IF rate % 1000 = 0 /\ rate <= 255000 THEN 12
  ELSE IF rate <= 65535 THEN 13 ELSE 14

SampleSizeCode(bps) == IF Listed(BpsTable, bps) THEN Index(BpsTable, bps) ELSE 0

\* Mutated form: the limit is taken for a number of one byte.
NumberBytesLate(val) ==
  1 + Cardinality({limit \in {128, 2048, 65536, 2097152} : val > limit})

\* How many bytes a frame number takes.
NumberBytes(val) ==
  1 + Cardinality({limit \in {128, 2048, 65536, 2097152} : val >= limit})

\* write_utf8_coded: a lead byte, which tells the length by its ones, and
\* continuation bytes of six bits.
CodedNumber(val) ==
  LET n == NumberBytes(val)
      lead == IF n = 1 THEN Bits(val, 8)
              ELSE [i \in 1 .. n |-> 1] \o <<0>> \o Bits(val \div Pow2(6 * (n - 1)), 7 - n)
  IN lead \o FlattenSeq([i \in 1 .. n - 1 |->
                            Bits(2, 2) \o Bits(val \div Pow2(6 * (n - 1 - i)), 6)])

\* The size and the rate, where their codes say that they follow.
SizeField(size) ==
  LET code == BlockSizeCode(size)
  IN IF code = 6 THEN Bits(size - 1, 8) ELSE IF code = 7 THEN Bits(size - 1, 16) ELSE <<>>

RateField(rate) ==
  LET code == SampleRateCode(rate)
  IN IF code = 12 THEN Bits(rate \div 1000, 8) ELSE IF code = 13 THEN Bits(rate, 16)
     ELSE IF code = 14 THEN Bits(rate \div 10, 16) ELSE <<>>

\* The header of a frame but for its checksum: sync code, codes, number, and
\* the fields that follow.
HeaderFields(size, channels, rate, number) ==
  Bits(65528, 16) \o Bits(BlockSizeCode(size), 4) \o Bits(SampleRateCode(rate), 4)
    \o Bits(channels - 1, 4) \o Bits(SampleSizeCode(SampleBits), 3) \o Bits(0, 1)
    \o CodedNumber(number) \o SizeField(size) \o RateField(rate)

FrameHeader(size, channels, rate, number) ==
  LET fields == HeaderFields(size, channels, rate, number) IN fields \o Crc(fields, Poly8)

\* The header, the subframes, padding to a byte, and the checksum of it all.
EncodeFrame(block, channels, rate, number) ==
  LET size == Len(block) \div channels
      body == FrameHeader(size, channels, rate, number) \o
                FlattenSeq([c \in 1 .. channels |-> EncodeSubframe(Channel(block, channels, c))])
      padded == body \o [i \in 1 .. (8 - (Len(body) % 8)) % 8 |-> 0]
  IN [number |-> number, size |-> size, bits |-> padded \o Crc(padded, Poly16)]

\* build_streaminfo, as its fields are read back.
StreamInfo(rate, channels, total) ==
  [rate |-> rate % 2 ^ 20, channels |-> ((channels - 1) % 8) + 1, total |-> total]
-----------------------------------------------------------------------------
(* The reference decoder, from the FLAC format.  A reading is the position *)
(* of the next bit and the samples read so far.                            *)

Unsigned(bits, pos, count) ==
  LET read[i \in 0 .. count] == IF i = 0 THEN 0 ELSE 2 * read[i - 1] + bits[pos + i - 1]
  IN read[count]

Signed(bits, pos, count) ==
  Unsigned(bits, pos, count) - (IF bits[pos] = 1 THEN Pow2(count) ELSE 0)

\* How many zeros there are from pos to the next one.
Zeros(bits, pos) ==
  CHOOSE n \in 0 .. Len(bits) - pos :
    bits[pos + n] = 1 /\ \A m \in 0 .. n - 1 : bits[pos + m] = 0

\* A Rice code of parameter k, or k raw bits, at pos.
RiceAt(bits, pos, k) ==
  LET q == Zeros(bits, pos)
      folded == q * Pow2(k) + Unsigned(bits, pos + q + 1, k)
  IN [pos |-> pos + q + 1 + k,
      value |-> IF folded % 2 = 0 THEN folded \div 2 ELSE -(folded + 1) \div 2]
RawAt(bits, pos, k) == [pos |-> pos + k, value |-> Signed(bits, pos, k)]

CodeAt(bits, pos, param, raw) ==
  IF param = 15 THEN RawAt(bits, pos, raw) ELSE RiceAt(bits, pos, param)

\* One residual more: it is the difference to the sample before.
Extend(reading, code) ==
  [pos |-> code.pos,
   out |-> Append(reading.out, reading.out[Len(reading.out)] + code.value)]

\* The n samples that begin with first, from the coded residuals at pos.
Restored(bits, pos, first, n) ==
  LET param == Unsigned(bits, pos, 4)
      raw   == Unsigned(bits, pos + 4, 5)
      sum[i \in 1 .. n] ==
        IF i = 1 THEN [pos |-> pos + (IF param = 15 THEN 9 ELSE 4), out |-> <<first>>]
        ELSE Extend(sum[i - 1], CodeAt(bits, sum[i - 1].pos, param, raw))
  IN sum[n]

\* A subframe of n samples at the position of the reading.
DecodeSubframe(bits, reading, n) ==
  LET type  == Unsigned(bits, reading.pos + 1, 6)
      body  == reading.pos + 8
      first == Signed(bits, body, SampleBits)
      read  == IF type = 0
               THEN [pos |-> body + SampleBits, out |-> [i \in 1 .. n |-> first]]
               ELSE Restored(bits, body + SampleBits + 6, first, n)
  IN [pos |-> read.pos, out |-> reading.out \o read.out]

\* One step of long division by a polynomial of degree Len(poly).
Subtract(bits, i, poly) ==
  LET last == i + Len(poly)
  IN IF bits[i] = 0 THEN bits
     ELSE SubSeq(bits, 1, i - 1) \o Xor(SubSeq(bits, i, last), <<1>> \o poly)
            \o SubSeq(bits, last + 1, Len(bits))

\* The steps of byte k, of so many steps.
SubtractByte(bits, k, steps, poly) ==
  LET rest[i \in ByteEnd(k - 1, steps) .. ByteEnd(k, steps)] ==
        IF i = ByteEnd(k - 1, steps) THEN bits ELSE Subtract(rest[i - 1], i, poly)
  IN IF bits = <<>> THEN bits ELSE rest[ByteEnd(k, steps)]

\* Long division: the bits, as a polynomial, are a multiple of the generator.
Divisible(bits, poly) ==
  LET steps == Len(bits) - Len(poly)
      rest[k \in 0 .. LastByte(steps)] ==
        IF k = 0 THEN bits ELSE SubtractByte(rest[k - 1], k, steps, poly)
  IN rest[LastByte(steps)] = [j \in 1 .. Len(bits) |-> 0]

\* How many ones there are from pos to the next zero.
Ones(bits, pos) ==
  CHOOSE n \in 0 .. 7 : bits[pos + n] = 0 /\ \A m \in 0 .. n - 1 : bits[pos + m] = 1

\* A coded number at pos: as many bytes as it begins with ones.
CodedAt(bits, pos) ==
  LET lead == Ones(bits, pos)
      bytes == IF lead = 0 THEN 1 ELSE lead
      number[i \in 0 .. bytes - 1] ==
        IF i = 0 THEN Unsigned(bits, pos + lead + 1, 7 - lead)
        ELSE 64 * number[i - 1] + Unsigned(bits, pos + 8 * i + 2, 6)
  IN [pos |-> pos + 8 * bytes, value |-> number[bytes - 1]]

\* What the codes mean, with the field of so many bits that follows.
SizeBits(code) == IF code = 6 THEN 8 ELSE IF code = 7 THEN 16 ELSE 0
RateBits(code) == IF code = 12 THEN 8 ELSE IF code \in {13, 14} THEN 16 ELSE 0

SizeMeant(code, field) ==
  IF code = 1 THEN 192 ELSE IF code \in 2 .. 5 THEN 576 * Pow2(code - 2)
  ELSE IF code \in {6, 7} THEN field + 1 ELSE 256 * Pow2(code - 8)

RateMeant(code, field) ==
  IF code = 12 THEN 1000 * field ELSE IF code = 13 THEN field ELSE IF code = 14 THEN 10 * field
  ELSE <<88200, 176400, 192000, 8000, 16000, 22050, 24000, 32000, 44100, 48000, 96000>>[code]

\* What a reader makes of a header, and where the subframes begin.
ReadHeader(bits) ==
  LET sizeCode == Unsigned(bits, 17, 4)
      rateCode == Unsigned(bits, 21, 4)
      coded == CodedAt(bits, 33)
      rateAt == coded.pos + SizeBits(sizeCode)
  IN [size |-> SizeMeant(sizeCode, Unsigned(bits, coded.pos, SizeBits(sizeCode))),
      rate |-> RateMeant(rateCode, Unsigned(bits, rateAt, RateBits(rateCode))),
      channels |-> Unsigned(bits, 25, 4) + 1,
      number |-> coded.value,
      body |-> rateAt + RateBits(rateCode) + 8]

\* The sync code is there and the checksum of the header fits.
SoundHeader(bits) ==
  /\ Unsigned(bits, 1, 15) = 32764
  /\ Divisible(SubSeq(bits, 1, ReadHeader(bits).body - 1), Poly8)

\* The interleaved samples of a frame.
DecodeFrame(bits) ==
  LET header == ReadHeader(bits)
      reading[c \in 0 .. header.channels] ==
        IF c = 0 THEN [pos |-> header.body, out |-> <<>>]
        ELSE DecodeSubframe(bits, reading[c - 1], header.size)
      all == reading[header.channels].out
  IN [i \in 1 .. header.size * header.channels |->
        all[((i - 1) % header.channels) * header.size + (i - 1) \div header.channels + 1]]
=============================================================================
