------------------------------ MODULE MCLibrary ------------------------------
EXTENDS Library

(* A round function that depends on every bit of its arguments. *)
RoundF(right, key) ==
  [i \in 1 .. 32 |-> (right[i] * key[i + 7] + right[((5 * i) % 32) + 1] + key[i]) % 2]

LettersOf(kindOf, n) ==
  CASE kindOf = "command" -> {32 + ((7 * n) % 90)}
    [] kindOf = "data"    -> {0, 32, 43, 97, 255}
    [] kindOf = "argv"    -> {32, 34, 39, 97}
    [] kindOf = "path"    -> {47, 97}
    [] kindOf = "address" -> {46, 48, 65}

Lengths == [command |-> 60, data |-> 4, argv |-> 6, path |-> 6, address |-> 8]
TwoKeys == {EncryInit, SubSeq(EncryInit, 1, 16)}
Ways    == {{}, {<< <<97>> >>}, {<< <<97>> >>, << <<97>>, <<97>> >>}}

PieceBounds == [crc |-> 4, md5 |-> 4, proto |-> 5]
SomeChunks  == {<<254>>, <<1, 2, 0>>, <<254, 1, 2, 0, 1, 5>>, <<7>>, <<7, 254, 1>>, <<0, 3>>, <<2, 0, 0>>}

(* The start of a frame of 256 bytes of data, which ends like a frame without any. *)
LongFrame == {<<254, 1, 2, 1, 0, 2>>}
=============================================================================
