-------------------------------- MODULE Muxer --------------------------------
(***************************************************************************)
(* The muxers of a recording (bsm-encode/src/muxer.rs): WAV, MP3 and FLAC. *)
(* Each takes packets of samples, writes pieces to its file and finalizes  *)
(* it.                                                                     *)
(*                                                                         *)
(*   wav    a packet is a piece; finalize writes the two sizes             *)
(*   mp3    the encoder (LAME) holds samples and gives pieces when it      *)
(*          likes; finalize takes out of it what it gives                  *)
(*   flac   packets are gathered into blocks, each becomes a frame;        *)
(*          finalize encodes what is left and writes the sample count      *)
(*                                                                         *)
(* Any write may fail, and the file may then have all of the piece, none   *)
(* of it or a part.  A caller may go on after an error (the window does)   *)
(* or finalize at once (the session does).                                 *)
(***************************************************************************)
EXTENDS Flac

CONSTANTS
  BlockSize,  \* FLAC_BLOCK_SIZE: samples of a channel in a block (4096)
  Wrap,       \* what a u32 wraps at (2^32)
  Packets,    \* samples of a channel in a packet; none is longer than a block (a
              \* packet of the monitor is 20 ms, 3840 samples at 192 kHz)
  Inputs,     \* recordings: records of container, channels, rate and samples
  Headers     \* pairs of a frame number and a block size, for HeadersRead

ASSUME MuxerAssumption ==
  /\ BlockSize \in Nat \ {0} /\ Wrap \in Nat \ {0} /\ Packets \subseteq 1 .. BlockSize
  /\ \A input \in Inputs :
       /\ input.container \in {"wav", "mp3", "flac"} /\ input.channels \in 1 .. 2
       /\ input.rate \in 1 .. 2 ^ 20 - 1 /\ input.samples \in Seq(Samples)
       /\ Len(input.samples) % input.channels = 0

\* FLAC recordings that a header can describe, and no longer than frames can be
\* numbered.
ASSUME CodecAssumption ==
  /\ BlockSize \in BlockSizes /\ Headers \subseteq FrameNumbers \X BlockSizes
  /\ \A input \in Inputs : input.container = "flac" =>
       /\ input.rate \in HeaderRates
       /\ Len(input.samples) \div (BlockSize * input.channels) \in FrameNumbers

VARIABLES
  input,   \* what is recorded
  fed,     \* how many of its samples were given to write_packet
  buffer,  \* flac: pcm_buffer; mp3: the samples the encoder holds
  number,  \* flac: frame_number; else the place of the next piece
  total,   \* flac: total_samples; wav: bytes_written
  file,    \* the pieces in the file
  stray,   \* wav: bytes that failed writes left between its packets
  header,  \* what the file's header gives; a total of 0 is unknown
  errors,  \* calls that answered an error
  pc       \* "idle" | "flush" | "tail" | "patch" | "size" | "closed" | "broken"

vars == <<input, fed, buffer, number, total, file, stray, header, errors, pc>>

Is(container) == input.container = container
PerBlock == BlockSize * input.channels

Piece(place, samples) ==
  [number |-> place, size |-> Len(samples) \div input.channels, bits |-> samples]
Torn == [number |-> -1, size |-> 0, bits |-> <<>>]

\* The bitrates LAME has, and the limits at which the code changes between them.
Bitrates == <<8, 16, 24, 32, 40, 48, 64, 80, 96, 112, 128, 160, 192, 224, 256, 320>>
Limits   == <<12, 20, 28, 36, 44, 56, 72, 88, 104, 120, 144, 176, 208, 240, 288>>

\* Mutated form: a limit belongs to the rate above it.
NearestBitrateAbove(kbps) ==
  Bitrates[1 + Cardinality({i \in DOMAIN Limits : kbps >= Limits[i] - 1})]

NearestBitrate(kbps) ==
  Bitrates[1 + Cardinality({i \in DOMAIN Limits : kbps > Limits[i]})]

\* The header as open writes it.  MP3 has none.
NewHeader ==
  IF Is("wav") THEN [rate |-> input.rate, channels |-> input.channels, riff |-> 0, total |-> 0]
  ELSE StreamInfo(input.rate, input.channels, 0)

Init ==
  /\ input \in Inputs
  /\ fed = 0 /\ buffer = <<>>
  /\ number = 0 /\ total = 0
  /\ file = <<>> /\ stray = 0 /\ header = NewHeader /\ errors = 0
  /\ pc = "idle"
-----------------------------------------------------------------------------
\* How many bytes a failed write can leave of a piece.  They matter in a WAV file,
\* whose sizes are counts of bytes.
Strays(piece) == IF Is("wav") THEN 1 .. 2 * Len(piece.bits) - 1 ELSE {0}

\* write_all: the piece is in the file, or the call fails and it is not, or only
\* a part of it.  A piece longer than the buffer of the writer goes to the file
\* directly, hence the part.
WriteOut(piece, next) ==
  \/ file' = Append(file, piece) /\ pc' = next /\ UNCHANGED <<stray, errors>>
  \/ /\ \/ UNCHANGED <<file, stray>>
        \/ /\ file' = Append(file, Torn)
           /\ stray' \in {stray + n : n \in Strays(piece)}
     /\ errors' = errors + 1
     /\ pc' = IF pc = "tail" THEN "broken" ELSE "idle"

Written == errors' = errors

\* The next n samples of each channel, as many as there are.
UpTo(n) ==
  IF fed + n * input.channels < Len(input.samples)
  THEN fed + n * input.channels ELSE Len(input.samples)
Packet(n) == SubSeq(input.samples, fed + 1, UpTo(n))

Fed(n) ==
  /\ pc = "idle" /\ fed < Len(input.samples)
  /\ fed' = UpTo(n)
  /\ UNCHANGED <<input, header>>

\* Mutated form: a packet is counted before it is written.
WritePacketWavCounts(n) ==
  /\ Is("wav") /\ Fed(n)
  /\ WriteOut(Piece(number, Packet(n)), "idle")
  /\ number' = number + Len(Packet(n)) \div input.channels
  /\ total' = (total + 2 * Len(Packet(n))) % Wrap
  /\ UNCHANGED buffer

\* The bytes as they are, two for each sample; they are counted once written.
WritePacketWav(n) ==
  /\ Is("wav") /\ Fed(n)
  /\ WriteOut(Piece(number, Packet(n)), "idle")
  /\ number' = number + Len(Packet(n)) \div input.channels
  /\ total' = IF Written THEN (total + 2 * Len(Packet(n))) % Wrap ELSE total
  /\ UNCHANGED buffer

\* The encoder takes the samples and gives the code of the first k it holds; if
\* it gives none nothing is written.
WritePacketMp3(n) ==
  /\ Is("mp3") /\ Fed(n)
  /\ LET held == buffer \o Packet(n)
     IN \E k \in 0 .. Len(held) \div input.channels :
          /\ IF k = 0 THEN UNCHANGED <<file, stray, errors, pc>>
             ELSE WriteOut(Piece(number, SubSeq(held, 1, k * input.channels)), "idle")
          /\ buffer' = SubSeq(held, k * input.channels + 1, Len(held))
          /\ number' = number + k
  /\ UNCHANGED total

\* The samples are taken, then flush_blocks writes blocks until it has none.
WritePacketFlac(n) ==
  /\ Is("flac") /\ Fed(n)
  /\ buffer' = buffer \o Packet(n)
  /\ pc' = "flush"
  /\ UNCHANGED <<number, total, file, stray, errors>>

Frame(block) == EncodeFrame(block, input.channels, input.rate, number)
Block == SubSeq(buffer, 1, PerBlock)
Rest  == SubSeq(buffer, PerBlock + 1, Len(buffer))

\* Mutated form: a block leaves the buffer only when it was written.
FlushBlockDrainsLate ==
  /\ pc = "flush" /\ Len(buffer) >= PerBlock
  /\ WriteOut(Frame(Block), "flush")
  /\ buffer' = IF Written THEN Rest ELSE buffer
  /\ number' = number + 1 /\ total' = total + BlockSize
  /\ UNCHANGED <<input, fed, header>>

\* Mutated form: the frame number counts the frames that were written.
FlushBlockNumbersLate ==
  /\ pc = "flush" /\ Len(buffer) >= PerBlock
  /\ WriteOut(Frame(Block), "flush")
  /\ buffer' = Rest
  /\ number' = IF Written THEN number + 1 ELSE number
  /\ total' = total + BlockSize
  /\ UNCHANGED <<input, fed, header>>

\* Mutated form: so does the total.
FlushBlockCountsLate ==
  /\ pc = "flush" /\ Len(buffer) >= PerBlock
  /\ WriteOut(Frame(Block), "flush")
  /\ buffer' = Rest
  /\ number' = number + 1
  /\ total' = IF Written THEN total + BlockSize ELSE total
  /\ UNCHANGED <<input, fed, header>>

\* flush_blocks: the block leaves the buffer and is counted before it is
\* written.
FlushBlock ==
  /\ pc = "flush" /\ Len(buffer) >= PerBlock
  /\ WriteOut(Frame(Block), "flush")
  /\ buffer' = Rest
  /\ number' = number + 1 /\ total' = total + BlockSize
  /\ UNCHANGED <<input, fed, header>>

FlushEnds ==
  /\ pc = "flush" /\ Len(buffer) < PerBlock
  /\ pc' = "idle"
  /\ UNCHANGED <<input, fed, buffer, number, total, file, stray, header, errors>>
-----------------------------------------------------------------------------
(* finalize, which leaves with the first error.                            *)

\* Mutated form: what is still held is dropped.
FinalizeDropsTail ==
  /\ pc = "idle"
  /\ pc' = "patch"
  /\ UNCHANGED <<input, fed, buffer, number, total, file, stray, header, errors>>

Finalize ==
  /\ pc = "idle"
  /\ pc' = IF buffer = <<>> THEN "patch" ELSE "tail"
  /\ UNCHANGED <<input, fed, buffer, number, total, file, stray, header, errors>>

\* What is left is a shorter block.
FinalizeTailFlac ==
  /\ Is("flac") /\ pc = "tail"
  /\ WriteOut(Frame(buffer), "patch")
  /\ buffer' = <<>>
  /\ total' = total + Len(buffer) \div input.channels
  /\ UNCHANGED <<input, fed, number, header>>

\* The encoder is flushed without a gap (FlushNoGap): it gives the code of the
\* first k samples it holds, and keeps what does not fill a frame.
FinalizeTailMp3 ==
  /\ Is("mp3") /\ pc = "tail"
  /\ \E k \in 0 .. Len(buffer) \div input.channels :
       /\ IF k = 0 THEN pc' = "patch" /\ UNCHANGED <<file, stray, errors>>
          ELSE WriteOut(Piece(number, SubSeq(buffer, 1, k * input.channels)), "patch")
       /\ buffer' = SubSeq(buffer, k * input.channels + 1, Len(buffer))
  /\ UNCHANGED <<input, fed, number, total, header>>

\* The writer is flushed.  FLAC reads its header back and patches it; WAV writes
\* the size of the file less 8, and then the size of the data.
Patch ==
  /\ pc = "patch"
  /\ pc' = IF Is("wav") THEN "size" ELSE "closed"
  /\ header' = CASE Is("wav")  -> [header EXCEPT !.riff = (36 + total) % Wrap]
                 [] Is("flac") -> [header EXCEPT !.total = total]
                 [] Is("mp3")  -> header
  /\ UNCHANGED <<input, fed, buffer, number, total, file, stray, errors>>

PatchSize ==
  /\ pc = "size"
  /\ header' = [header EXCEPT !.total = total] /\ pc' = "closed"
  /\ UNCHANGED <<input, fed, buffer, number, total, file, stray, errors>>

\* One of these fails, or the process ends before or during finalize: what the
\* writer had buffered, up to the middle of a piece, is lost.
Broken ==
  /\ pc # "closed"
  /\ pc' = "broken"
  /\ \E n \in DOMAIN file \cup {0} :
       \/ file' = SubSeq(file, 1, n)
       \/ n > 0 /\ file' = Append(SubSeq(file, 1, n - 1), Torn)
  /\ UNCHANGED <<input, fed, buffer, number, total, stray, header, errors>>
-----------------------------------------------------------------------------
Next ==
  \/ \E n \in Packets : WritePacketWav(n) \/ WritePacketMp3(n) \/ WritePacketFlac(n)
  \/ FlushBlock \/ FlushEnds
  \/ Finalize \/ FinalizeTailFlac \/ FinalizeTailMp3 \/ Patch \/ PatchSize \/ Broken

Spec == Init /\ [][Next]_vars
-----------------------------------------------------------------------------
(* Properties.                                                             *)

Whole == {i \in DOMAIN file : file[i] # Torn}

\* Every variable has its type.  FLAC blocks have the size that STREAMINFO gives
\* as the smallest and the largest; only the last may be shorter.
TypeOK ==
  /\ input \in Inputs /\ fed \in 0 .. Len(input.samples)
  /\ Len(buffer) <= (IF Is("flac") THEN 2 * PerBlock ELSE Len(input.samples))
  /\ \A i \in DOMAIN buffer : buffer[i] \in Samples
  /\ number \in Nat /\ total \in Nat /\ stray \in Nat /\ errors \in Nat
  /\ header.rate = input.rate /\ header.channels = input.channels
  /\ header.total \in {0, total}
  /\ \A i \in Whole : /\ file[i].number \in 0 .. number
                      /\ Is("flac") => /\ file[i].size \in 1 .. BlockSize
                                       /\ file[i].size < BlockSize => i = Len(file)
  /\ pc \in {"idle", "flush", "tail", "patch", "size", "closed", "broken"}

\* Where the samples of a piece belong.
Place(piece) ==
  piece.number * (IF Is("flac") THEN BlockSize ELSE 1) * input.channels

\* A reader finds in the frame what it was made of.
Readable(frame) ==
  LET read == ReadHeader(frame.bits)
  IN /\ SoundHeader(frame.bits)
     /\ read.number = frame.number /\ read.size = frame.size
     /\ read.rate = input.rate /\ read.channels = input.channels

\* At the size and the age of real recordings too, the header of a frame gives
\* its number, size and rate; and of the bitrates there are the nearest one, the
\* lower of two, is taken.  (Looked at once for each recording.)
HeadersRead ==
  fed = 0 /\ pc = "idle" =>
    /\ Is("flac") =>
         \A h \in Headers :
           Readable([number |-> h[1], size |-> h[2],
                     bits |-> FrameHeader(h[2], input.channels, input.rate, h[1])])
    /\ Is("mp3") =>
         \A kbps \in 0 .. 400, i \in DOMAIN Bitrates :
           LET taken == NearestBitrate(kbps)
               off(rate) == IF rate > kbps THEN rate - kbps ELSE kbps - rate
           IN off(taken) < off(Bitrates[i]) \/ (off(taken) = off(Bitrates[i]) /\ taken <= Bitrates[i])

\* Every piece in the file, whatever failed before it, is read back as the
\* samples that were recorded at its place, and none is there twice: FLAC frames
\* through their header, their subframes and their checksums (a frame was the
\* last of the file when it was written).
FramesInPlace ==
  /\ HeadersRead
  /\ \A i \in Whole :
       /\ (IF Is("flac") THEN DecodeFrame(file[i].bits) ELSE file[i].bits)
            = SubSeq(input.samples, Place(file[i]) + 1,
                     Place(file[i]) + file[i].size * input.channels)
       /\ \A j \in Whole : i < j => file[i].number < file[j].number
       /\ Is("flac") => /\ Readable(file[i])
                        /\ i = Len(file) => Divisible(file[i].bits, Poly16)

\* How many samples of a channel the pieces of a file have.
Contents(pieces) ==
  LET sum[n \in 0 .. Len(pieces)] == IF n = 0 THEN 0 ELSE sum[n - 1] + pieces[n].size
  IN sum[Len(pieces)]

\* Nothing is missing from the file of a muxer that is at rest but what it still
\* holds and what it answered an error for, a block or packet each.  What is
\* still held after finalize is in LAME.  The header of a file that was finalized
\* gives for FLAC the time that was recorded, blocks that are missing included;
\* for WAV the bytes of the packets that were answered Ok, as far as 32 bits can:
\* these are the bytes of the file but for what failed writes left there, less
\* than a packet each.
FileAccounts ==
  LET there == Contents(file) * input.channels
      lost  == IF Is("mp3") THEN Len(input.samples) ELSE PerBlock
  IN /\ pc \in {"idle", "closed"} => there + Len(buffer) + errors * lost >= fed
     /\ pc = "closed" =>
          /\ ~ Is("mp3") => buffer = <<>>
          /\ Is("flac") => header.total = fed \div input.channels
          /\ Is("wav") => /\ header.total = (2 * there) % Wrap
                          /\ header.riff = (36 + 2 * there) % Wrap
                          /\ stray <= errors * (2 * PerBlock - 1)
=============================================================================
