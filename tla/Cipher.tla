------------------------------- MODULE Cipher -------------------------------
(* The encryption of the manager's commands, src/libs/3des-ecb/des.cpp behind
   src/src/encc.cpp, and the frames they travel in, src/main.cpp.  A text is a sequence of
   bytes.  A base64 text is a sequence of symbols: 0 .. 63 for the alphabet, then Pad, CR and
   LF.  Blocks are enciphered in Des. *)
EXTENDS Des, Texts, SequencesExt

CONSTANTS
  Keys,      \* keys of the cipher
  Endings    \* last characters of a command

Pad == 64
CR  == 65
LF  == 66
End == 67         \* the NUL behind a string

-----------------------------------------------------------------------------
(* base64, as des.cpp has it: a line end after 19 groups of four symbols. *)

Symbols(a, b, c) ==
  << a \div 4, (a % 4) * 16 + (b \div 16), (b % 16) * 4 + (c \div 64), c % 64 >>

Base64Encode(data) ==
  LET n == Len(data) \div 3
      group(i) == Symbols(data[3 * i - 2], data[3 * i - 1], data[3 * i])
                    \o IF i % 19 = 0 THEN <<CR, LF>> ELSE <<>>
      rest == SubSeq(data, 3 * n + 1, Len(data))
  IN FlattenSeq([i \in 1 .. n |-> group(i)])
       \o CASE Len(rest) = 0 -> <<>>
            [] Len(rest) = 1 -> << rest[1] \div 4, (rest[1] % 4) * 16, Pad, Pad >>
            [] Len(rest) = 2 -> << rest[1] \div 4, (rest[1] % 4) * 16 + (rest[2] \div 16),
                                   (rest[2] % 16) * 4, Pad >>

(* DecodeTable gives 0 for everything outside the alphabet. *)
Value(coded, p) == IF p <= Len(coded) /\ coded[p] < 64 THEN coded[p] ELSE 0
Char(coded, p)  == IF p <= Len(coded) THEN coded[p] ELSE End

Decoded(a, b, c, d) == << a * 4 + (b \div 16), (b % 16) * 16 + (c \div 4), (c % 4) * 64 + d >>

(* A turn of the loop.  p is the place of Data, i the count that ends the loop: a padded
   group advances them differently. *)
DecodeTurn(coded, here) ==
  LET p == here.p
      n == IF Char(coded, p + 2) = Pad THEN 1 ELSE IF Char(coded, p + 3) = Pad THEN 2 ELSE 3
      group == Decoded(Value(coded, p), Value(coded, p + 1),
                       Value(coded, p + 2), Value(coded, p + 3))
  IN IF here.i >= Len(coded) THEN here
     ELSE IF Char(coded, p) \in {CR, LF} THEN [here EXCEPT !.p = p + 1, !.i = @ + 1]
     ELSE [p |-> p + n + 1, i |-> here.i + 4, out |-> here.out \o SubSeq(group, 1, n)]

(* Every turn counts one or more, so that there are enough of them. *)
Base64Decode(coded) ==
  LET turn[k \in 0 .. Len(coded)] ==
        IF k = 0 THEN [p |-> 1, i |-> 0, out |-> <<>>] ELSE DecodeTurn(coded, turn[k - 1])
  IN  turn[Len(coded)].out

-----------------------------------------------------------------------------
(* Triple DES of a text. *)

CString(bytes) ==
  LET nuls == {i \in DOMAIN bytes : bytes[i] = 0}
  IN IF nuls = {} THEN bytes ELSE SubSeq(bytes, 1, Min(nuls) - 1)

(* The last block is filled up with the number of bytes it lacks, a full one is not. *)
Padded(cmd) ==
  LET lacks == (8 - (Len(cmd) % 8)) % 8 IN cmd \o [i \in 1 .. lacks |-> lacks]

DesEncrypt(key, cmd) ==
  IF CheckKey(key) THEN Base64Encode(FlattenSeq(Enciphered(key, Padded(cmd)))) ELSE <<>>

(* A char below 8, which as a signed one every byte from 128 on is, counts as padding. *)
IsPadding(b) == b < 8 \/ b >= 128
Stripped(block) ==
  LET kept == {j \in 2 .. 8 : ~IsPadding(block[j])}
  IN SubSeq(block, 1, IF kept = {} THEN 1 ELSE Max(kept))

WrongInput == <<105, 115, 87, 114, 111, 110, 103, 73, 110, 112, 117, 116>>

(* Each block is appended to the result as a C string. *)
Joined(blocks) ==
  FlattenSeq([i \in DOMAIN blocks |->
    CString(IF i = Len(blocks) THEN Stripped(blocks[i]) ELSE blocks[i])])

DesDecrypt(key, coded) ==
  LET plain(bytes) == IF Len(bytes) % 8 # 0 THEN WrongInput ELSE Joined(Deciphered(key, bytes))
  IN IF CheckKey(key) THEN plain(Base64Decode(coded)) ELSE <<>>

(* The same function in the test target's library, which keeps the padding. *)
OsiJoined(blocks) == FlattenSeq([i \in DOMAIN blocks |-> CString(blocks[i])])
OsiDesDecrypt(key, coded) ==
  LET plain(bytes) == IF Len(bytes) % 8 # 0 THEN WrongInput ELSE OsiJoined(Deciphered(key, bytes))
  IN IF CheckKey(key) THEN plain(Base64Decode(coded)) ELSE <<>>

-----------------------------------------------------------------------------
(* encc.cpp: the one key of the program, and a result that says that there is none. *)

NoKey == <<>>

Result(key, out) ==
  [ret |-> IF key = NoKey THEN -1 ELSE IF out = <<>> THEN -2 ELSE Len(out), out |-> out]

AlgoEncrypt(key, cmd) == Result(key, DesEncrypt(key, cmd))
AlgoDecrypt(key, coded) == Result(key, DesDecrypt(key, coded))

(* encry_init: "www.dusun.com" filled up with blanks and the NUL of the literal. *)
EncryInit ==
  <<119, 119, 119, 46, 100, 117, 115, 117, 110, 46, 99, 111, 109>>
    \o [i \in 1 .. 10 |-> 32] \o <<0>>

-----------------------------------------------------------------------------
(* main.cpp: a frame is 0xfe, the length in two bytes, the cipher text, the check byte. *)

CheckSum(bytes) == XorAll(bytes)
Checked(bytes) == Append(bytes, CheckSum(bytes))
MakeFrame(key, cmd) ==
  LET framed(load) == Checked(<<254, (Len(load) \div 256) % 256, Len(load) % 256>> \o load)
  IN framed(AlgoEncrypt(key, cmd).out)

(* What each receiver does with the bytes of a datagram: the check byte is dropped. *)
TakeFrame(key, bytes) ==
  AlgoDecrypt(key, SubSeq(bytes, 4, Len(bytes) - 1)).out

(* A command arrives as it was sent if it ends as JSON does; a command is never longer,
   and nothing but its end can be missing, for the bytes that are lost are those that look
   like padding.  The frame says its own length, and its check byte makes the sum zero. *)
Arrives(cmd, got) ==
  /\ IsPrefix(got, cmd)
  /\ \A i \in Len(got) + 1 .. Len(cmd) : IsPadding(cmd[i])
  /\ IsPadding(Last(cmd)) \/ got = cmd

FrameArrives(key, cmd, frame) ==
  /\ Len(frame) = frame[2] * 256 + frame[3] + 4
  /\ CheckSum(frame) = 0
  /\ Arrives(cmd, TakeFrame(key, frame))
  /\ IsPrefix(cmd, OsiDesDecrypt(key, SubSeq(frame, 4, Len(frame) - 1)))

CommandSurvives(key, cmd) == FrameArrives(key, cmd, MakeFrame(key, cmd))

-----------------------------------------------------------------------------
(* Commands are C strings, and what they are encrypted to fits the 1024 bytes proto_make_frame
   has for it. *)
ASSUME KeysAssumption == \A key \in Keys : key \in Seq(0 .. 255) /\ CheckKey(key)
ASSUME CommandsAssumption ==
  /\ "command" \in DOMAIN Longest /\ Longest["command"] \in 0 .. 743
  /\ \A n \in 1 .. Longest["command"] : Letters("command", n) \subseteq 1 .. 255
  /\ Endings \subseteq 1 .. 255

(* A command reaches the other side as it was sent, whatever its length and its key:
   what algo_3des_ecb_encrypt and the frame around it do, the receiver undoes. *)
CommandsSurvive ==
  text.kind = "command" =>
    \A key \in Keys, c \in Endings : CommandSurvives(key, Append(text.chars, c))
=============================================================================
