------------------------------- MODULE Streams -------------------------------
(* The functions that take their input in pieces and keep a state in between: the check
   sums of crc.c and the digest of md5.c in the test target's library, and the frame parser
   of src/src/proto.cpp.  What has been fed so far is kept, for what they are compared
   with.  The rounds of MD5 are left out: a transformed block is appended to the state. *)
EXTENDS BitWords, SequencesExt

CONSTANTS
  Bytes1,      \* bytes fed to the check sums
  Pieces,      \* lengths of the pieces fed to the digest
  Chunks,      \* chunks of bytes, fewer than 256, fed to the frame parser
  MaxFed,      \* bound on the pieces fed, by kind of stream
  CountWraps,  \* where one word of the digest's count wraps around, 2^32 in the code
  CopyWraps    \* where the length my_memcpy is given wraps around, 256 in the code

ASSUME InputAssumption ==
  /\ Bytes1 \subseteq 0 .. 255 /\ Pieces \subseteq Nat
  /\ \A chunk \in Chunks : chunk \in Seq(0 .. 255) /\ Len(chunk) < 256
ASSUME CountWrapsAssumption == CountWraps \in Nat \ {0} /\ CountWraps % 512 = 0
ASSUME CopyWrapsAssumption == CopyWraps \in Nat /\ CopyWraps > 6

VARIABLES
  kind,        \* "crc", "md5" or "proto"
  fed,         \* the bytes fed so far
  pieces,      \* the number of pieces they came in
  at,          \* the state kept between two pieces
  frames,      \* frames the parser has returned
  astray       \* history: a frame was composed while the parser was taking data, or it was
               \* given the first byte of a length of 256 or more

stream == <<kind, fed, pieces, at, frames, astray>>

-----------------------------------------------------------------------------
(* crc.c.  A check sum is its bits in the order in which they are shifted out: the highest
   first in crc8 and crc16, the lowest first in crc32. *)

crc8_table == << 0, 7, 14, 9, 28, 27, 18, 21, 56, 63, 54, 49, 36, 35, 42, 45 >>

crc16_table ==
  << <<0, 0>>, <<16, 33>>, <<32, 66>>, <<48, 99>>, <<64, 132>>, <<80, 165>>, <<96, 198>>,
     <<112, 231>>, <<129, 8>>, <<145, 41>>, <<161, 74>>, <<177, 107>>, <<193, 140>>,
     <<209, 173>>, <<225, 206>>, <<241, 239>> >>

crc32_table ==
  << <<0, 0, 0, 0>>, <<29, 183, 16, 100>>, <<59, 110, 32, 200>>, <<38, 217, 48, 172>>,
     <<118, 220, 65, 144>>, <<107, 107, 81, 244>>, <<77, 178, 97, 88>>, <<80, 5, 113, 60>>,
     <<237, 184, 131, 32>>, <<240, 15, 147, 68>>, <<214, 214, 163, 232>>, <<203, 97, 179, 140>>,
     <<155, 100, 194, 176>>, <<134, 211, 210, 212>>, <<160, 10, 226, 120>>, <<189, 189, 242, 28>> >>

RowOf(table, b1, b2, b3, b4) == table[8 * b1 + 4 * b2 + 2 * b3 + b4 + 1]

(* A byte is added at the end that is shifted out first. *)
Added(crc, bits) == Tuple([i \in DOMAIN crc |-> IF i <= 8 THEN (crc[i] + bits[i]) % 2 ELSE crc[i]])
Shifted(crc, row) == XorBits(SubSeq(crc, 5, Len(crc)) \o <<0, 0, 0, 0>>, row)

Crc8(crc, byte) ==
  LET half(c) == Shifted(c, Bits(<<RowOf(crc8_table, c[1], c[2], c[3], c[4])>>))
  IN half(half(Added(crc, Bits(<<byte>>))))

Crc16(crc, byte) ==
  LET half(c) == Shifted(c, Bits(RowOf(crc16_table, c[1], c[2], c[3], c[4])))
  IN half(half(Added(crc, Bits(<<byte>>))))

Crc32(crc, byte) ==
  LET half(c) == Shifted(c, Reverse(Bits(RowOf(crc32_table, c[4], c[3], c[2], c[1]))))
  IN half(half(Added(crc, Reverse(Bits(<<byte>>)))))

(* The initial values crc.h names. *)
CrcInit ==
  [crc8 |-> Bits(<<255>>), crc16 |-> Bits(<<255, 255>>), crc32 |-> Bits(<<255, 255, 255, 255>>)]

CrcStep(crc, byte) ==
  [crc8 |-> Crc8(crc.crc8, byte), crc16 |-> Crc16(crc.crc16, byte), crc32 |-> Crc32(crc.crc32, byte)]

-----------------------------------------------------------------------------
(* md5.c. *)

MD5Init == [count |-> <<0, 0>>, buffer |-> [i \in 1 .. 64 |-> 0], blocks |-> <<>>]

(* The count is of bits, in two words; the index is the number of bytes in the buffer. *)
Counted(count, len) ==
  LET low == (count[1] + 8 * len) % CountWraps
      carry == IF low < (8 * len) % CountWraps THEN 1 ELSE 0
  IN << low, (count[2] + carry + ((8 * len) \div CountWraps)) % CountWraps >>

Index(ctx) == (ctx.count[1] \div 8) % 64

Buffered(buffer, index, input, i) ==
  [k \in 1 .. 64 |-> IF k - index \in 1 .. Len(input) - i THEN input[k - index + i] ELSE buffer[k]]

(* A slip of MD5Update: a piece that just fills the buffer is only kept. *)
MD5UpdateLate(ctx, input) ==
  LET index == Index(ctx)
      first == IF index = 0 THEN 0 ELSE 64 - index
      full  == Buffered(ctx.buffer, index, input, 0)
      whole == (Len(input) - first) \div 64
      i     == first + 64 * whole
  IN IF Len(input) <= 64 - index
     THEN [ctx EXCEPT !.count = Counted(@, Len(input)), !.buffer = full]
     ELSE [count  |-> Counted(ctx.count, Len(input)),
           buffer |-> Buffered(IF index = 0 THEN ctx.buffer ELSE full, 0, input, i),
           blocks |-> ctx.blocks \o (IF index = 0 THEN <<>> ELSE <<full>>)
                        \o [n \in 1 .. whole |-> SubSeq(input, first + 64 * n - 63, first + 64 * n)]]

(* The buffer is filled and taken, then blocks straight from the input; the rest is kept. *)
MD5Update(ctx, input) ==
  LET index == Index(ctx)
      first == IF index = 0 THEN 0 ELSE 64 - index
      full  == Buffered(ctx.buffer, index, input, 0)
      whole == (Len(input) - first) \div 64
      i     == first + 64 * whole
  IN IF Len(input) < 64 - index
     THEN [ctx EXCEPT !.count = Counted(@, Len(input)), !.buffer = full]
     ELSE [count  |-> Counted(ctx.count, Len(input)),
           buffer |-> Buffered(IF index = 0 THEN ctx.buffer ELSE full, 0, input, i),
           blocks |-> ctx.blocks \o (IF index = 0 THEN <<>> ELSE <<full>>)
                        \o [n \in 1 .. whole |-> SubSeq(input, first + 64 * n - 63, first + 64 * n)]]

Padding(n) == <<128>> \o [i \in 1 .. n - 1 |-> 0]
Encode(count) == count \o [i \in 1 .. 6 |-> 0]       \* the words, on eight bytes

MD5Final(ctx) ==
  LET index  == Index(ctx)
      padded == MD5Update(ctx, Padding((IF index < 56 THEN 56 ELSE 120) - index))
  IN MD5Update(padded, Encode(ctx.count)).blocks

-----------------------------------------------------------------------------
(* proto.cpp: 0xfe, two command bytes, the length, the data and the check byte, which the
   0xfe does not count for.  The static variables of the parser. *)

HeadByte == 254
MAX_FRAME_LEN == 1024
StateReset == [sts |-> "head", frame |-> <<>>, len |-> 0, rlen |-> 0, sum |-> 0]

(* Only the low byte: in fm[3] & 0xff << 8 the shift comes first. *)
FrameGetLen(frame) == frame[5]

(* One turn of the loop of proto_frame_get; a frame is returned by a parser that has just
   been reset. *)
Kept(p, b) == [p EXCEPT !.frame = Append(@, b), !.sum = XorBytes(@, b)]
ParserTakes(p, b) ==
  LET q == Kept(p, b)
      len == FrameGetLen(q.frame)
  IN CASE p.sts = "head"  -> IF b = HeadByte THEN [p EXCEPT !.sts = "cmd1", !.frame = <<b>>] ELSE p
       [] p.sts = "cmd1"  -> [q EXCEPT !.sts = "cmd2"]
       [] p.sts = "cmd2"  -> [q EXCEPT !.sts = "len1"]
       [] p.sts = "len1"  -> [q EXCEPT !.sts = "len2"]
       [] p.sts = "len2"  -> IF len > MAX_FRAME_LEN THEN StateReset
                             ELSE [q EXCEPT !.sts = IF len > 0 THEN "data" ELSE "check", !.len = len]
       [] p.sts = "data"  -> [q EXCEPT !.rlen = @ + 1, !.sts = IF p.rlen + 1 = p.len THEN "check" ELSE @]
       [] p.sts = "check" -> StateReset

FrameEnds(p, b) == p.sts = "check" /\ p.sum = b

(* my_memcpy takes its length in one byte: of a longer frame the caller gets what is left
   of its length in that byte. *)
MyMemcpy(frame) == SubSeq(frame, 1, Len(frame) % CopyWraps)

FrameSet(cmd1, cmd2, data) ==
  LET body == <<cmd1, cmd2, (Len(data) \div 256) % 256, Len(data) % 256>> \o data
  IN <<HeadByte>> \o body \o <<XorAll(body)>>

-----------------------------------------------------------------------------
StreamInit ==
  /\ fed = <<>> /\ pieces = 0 /\ frames = <<>> /\ astray = FALSE
  /\ \/ kind = "crc" /\ at = CrcInit
     \/ kind = "md5" /\ at = MD5Init
     \/ kind = "proto" /\ at = StateReset

Feed(piece) == fed' = fed \o piece /\ pieces' = pieces + 1

FeedCrc ==
  /\ kind = "crc" /\ pieces < MaxFed.crc
  /\ \E b \in Bytes1 : Feed(<<b>>) /\ at' = CrcStep(at, b)
  /\ UNCHANGED <<kind, frames, astray>>

(* Every byte is another one. *)
FeedMd5 ==
  /\ kind = "md5" /\ pieces < MaxFed.md5
  /\ \E n \in Pieces :
       LET piece == [i \in 1 .. n |-> 1000 + Len(fed) + i]
       IN Feed(piece) /\ at' = MD5Update(at, piece)
  /\ UNCHANGED <<kind, frames, astray>>

(* proto_frame_get returns with the frame and is called again for the rest. *)
Takes(was, b) ==
  [p    |-> ParserTakes(was.p, b),
   out  |-> IF FrameEnds(was.p, b)
            THEN Append(was.out, MyMemcpy(Append(was.p.frame, b))) ELSE was.out,
   over |-> was.over \/ (was.p.sts = "len1" /\ b # 0)]

FeedProto ==
  /\ kind = "proto" /\ pieces < MaxFed.proto
  /\ \E chunk \in Chunks :
       LET after[n \in 0 .. Len(chunk)] ==
             IF n = 0 THEN [p |-> at, out |-> frames, over |-> FALSE]
             ELSE Takes(after[n - 1], chunk[n])
       IN /\ Feed(chunk) /\ at' = after[Len(chunk)].p /\ frames' = after[Len(chunk)].out
          /\ astray' = (astray \/ after[Len(chunk)].over)
  /\ UNCHANGED kind

(* proto_frame_set, called between two pieces, uses the parser's length as its own. *)
SetProto ==
  /\ kind = "proto"
  /\ \E n \in {0, 1} : at' = [at EXCEPT !.len = n + 6]
  /\ astray' = (astray \/ at.sts = "data")
  /\ UNCHANGED <<kind, fed, pieces, frames>>

StreamNext == FeedCrc \/ FeedMd5 \/ FeedProto \/ SetProto

StreamSpec == StreamInit /\ [][StreamNext]_stream

-----------------------------------------------------------------------------
(* References. *)

(* A check sum bit by bit: a bit is shifted out, and if it is set the polynomial is added. *)
OneBit(crc, poly) ==
  LET n == Len(crc)
  IN Tuple([i \in 1 .. n |-> ((IF i < n THEN crc[i + 1] ELSE 0) + crc[1] * poly[i]) % 2])
FourBits(crc, poly) == OneBit(OneBit(OneBit(OneBit(crc, poly), poly), poly), poly)
BitByBit(crc, poly, bits) == FourBits(FourBits(Added(crc, bits), poly), poly)

(* The polynomials crc.h names. *)
CRC8_POLY  == Bits(<<7>>)
CRC16_POLY == Bits(<<16, 33>>)
CRC32_POLY == Reverse(Bits(<<237, 184, 131, 32>>))

CrcOf(bytes) ==
  LET crc[n \in 0 .. Len(bytes)] ==
        IF n = 0 THEN CrcInit
        ELSE [crc8  |-> BitByBit(crc[n - 1].crc8, CRC8_POLY, Bits(<<bytes[n]>>)),
              crc16 |-> BitByBit(crc[n - 1].crc16, CRC16_POLY, Bits(<<bytes[n]>>)),
              crc32 |-> BitByBit(crc[n - 1].crc32, CRC32_POLY, Reverse(Bits(<<bytes[n]>>)))]
  IN crc[Len(bytes)]

(* The padded message in blocks. *)
BlocksOf(message) ==
  LET n    == Len(message)
      room == ((n + 8) \div 64) + 1
      bits == << (8 * n) % CountWraps, ((8 * n) \div CountWraps) % CountWraps >>
      text == message \o <<128>> \o [i \in 1 .. 64 * room - n - 9 |-> 0] \o Encode(bits)
  IN [b \in 1 .. room |-> SubSeq(text, 64 * b - 63, 64 * b)]

(* The frames that bytes hold: from each 0xfe that is not part of one, as many bytes as its
   two bytes of length say, if the check byte is right. *)
Whole(frame) == Len(frame) >= 5 /\ Len(frame) = 256 * frame[4] + frame[5] + 6
Sound(frame) == XorAll(SubSeq(frame, 2, Len(frame) - 1)) = frame[Len(frame)]

Scanned(was, bytes, n) ==
  LET from  == IF was.from = 0 /\ bytes[n] = HeadByte THEN n ELSE was.from
      frame == SubSeq(bytes, from, n)
  IN IF from # 0 /\ Whole(frame)
     THEN [from |-> 0, held |-> IF Sound(frame) THEN Append(was.held, frame) ELSE was.held]
     ELSE [from |-> from, held |-> was.held]

Scan(bytes) ==
  LET scan[n \in 0 .. Len(bytes)] ==
        IF n = 0 THEN [from |-> 0, held |-> <<>>] ELSE Scanned(scan[n - 1], bytes, n)
  IN scan[Len(bytes)].held

(* However the input is cut: the sums are those of the polynomials crc.h names, the digest
   is made of the blocks of the padded input, and the parser returns the frames the bytes
   hold, cut only where their length wraps around, unless a frame was composed while it
   was taking data or a length had a first byte, which it drops.  A frame composed of less
   than 256 bytes of data is one it takes. *)
StreamsAreWhole ==
  /\ kind = "crc" => at = CrcOf(fed)
  /\ kind = "md5" => MD5Final(at) = BlocksOf(fed)
  /\ kind = "proto" =>
       /\ ~astray =>
            LET held == Scan(fed)
            IN /\ Len(frames) = Len(held)
               /\ \A i \in DOMAIN held :
                    IsPrefix(frames[i], held[i]) /\ (frames[i] = held[i] \/ Len(held[i]) >= CopyWraps)
       /\ fed = <<>> => \A data \in Chunks : LET frame == FrameSet(1, 2, data)
                                             IN Scan(frame) = <<frame>>

(* Two claims of the repository the code does not keep, the subjects of findings.

   What proto_frame_get returns is "a complete frame" (proto.h). *)
FramesAreComplete == kind = "proto" => \A i \in DOMAIN frames : Whole(frames[i])

(* crc16 is the sum "with IEEE polynomial, LSB-first" (crc.c): 0x8005, the lowest bit
   shifted out first. *)
Crc16IsIeee ==
  kind = "crc" =>
    LET crc[n \in 0 .. Len(fed)] ==
          IF n = 0 THEN CrcInit.crc16
          ELSE BitByBit(crc[n - 1], Bits(<<128, 5>>), Reverse(Bits(<<fed[n]>>)))
    IN  at.crc16 = Reverse(crc[Len(fed)])
=============================================================================
