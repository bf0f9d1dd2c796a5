-------------------------------- MODULE Des --------------------------------
(* One block and whole blocks of triple DES, src/libs/3des-ecb/des.cpp.  A block is the
   sequence of its 64 bits, a key the bytes its hexadecimal digits stand for.  The tables E,
   PC2, S and P only make up the round function, which no property tells apart: it is a
   parameter. *)
EXTENDS BitWords

CONSTANT F(_, _)  \* right half (32 bits) and turned key (56 bits) to 32 bits

Table_IP ==
  << 58, 50, 42, 34, 26, 18, 10, 2, 60, 52, 44, 36, 28, 20, 12, 4,
     62, 54, 46, 38, 30, 22, 14, 6, 64, 56, 48, 40, 32, 24, 16, 8,
     57, 49, 41, 33, 25, 17,  9, 1, 59, 51, 43, 35, 27, 19, 11, 3,
     61, 53, 45, 37, 29, 21, 13, 5, 63, 55, 47, 39, 31, 23, 15, 7 >>

Table_InverseIP ==
  << 40, 8, 48, 16, 56, 24, 64, 32, 39, 7, 47, 15, 55, 23, 63, 31,
     38, 6, 46, 14, 54, 22, 62, 30, 37, 5, 45, 13, 53, 21, 61, 29,
     36, 4, 44, 12, 52, 20, 60, 28, 35, 3, 43, 11, 51, 19, 59, 27,
     34, 2, 42, 10, 50, 18, 58, 26, 33, 1, 41,  9, 49, 17, 57, 25 >>

Table_PC1 ==
  << 57, 49, 41, 33, 25, 17,  9,  1, 58, 50, 42, 34, 26, 18,
     10,  2, 59, 51, 43, 35, 27, 19, 11,  3, 60, 52, 44, 36,
     63, 55, 47, 39, 31, 23, 15,  7, 62, 54, 46, 38, 30, 22,
     14,  6, 61, 53, 45, 37, 29, 21, 13,  5, 28, 20, 12,  4 >>

(* A slip of Table_Move: decryption starts with a shift, as encryption does. *)
Table_MoveAtOnce ==
  [encrypt |-> << 1,  1,  2,  2,  2,  2,  2,  2,  1,  2,  2,  2,  2,  2,  2,  1 >>,
   decrypt |-> <<-1, -1, -2, -2, -2, -2, -2, -2, -1, -2, -2, -2, -2, -2, -2, -1 >>]

(* Decryption turns the key back; encryption leaves it turned once around. *)
Table_Move ==
  [encrypt |-> << 1,  1,  2,  2,  2,  2,  2,  2,  1,  2,  2,  2,  2,  2,  2,  1 >>,
   decrypt |-> << 0, -1, -2, -2, -2, -2, -2, -2, -1, -2, -2, -2, -2, -2, -2, -1 >>]

Permutation(bits, table) == Tuple([i \in DOMAIN table |-> bits[table[i]]])

(* move_bits: a half of the key turned to the left by n, or to the right by -n. *)
MoveBits(half, n) ==
  LET k == n % 28 IN SubSeq(half, k + 1, 28) \o SubSeq(half, 1, k)

(* des(): sixteen rounds on the halves of the block, and the halves of the key turned on
   the way. *)
Half(bits, n, i) == SubSeq(bits, n * (i - 1) + 1, n * i)

Turned(state, turn) ==
  [state EXCEPT !.key = MoveBits(Half(@, 28, 1), turn) \o MoveBits(Half(@, 28, 2), turn)]

Mixed(state) ==
  [state EXCEPT !.bits =
     Half(@, 32, 2) \o XorBits(F(Half(@, 32, 2), state.key), Half(@, 32, 1))]

Rounds(block, key, mode) ==
  LET round[n \in 0 .. 16] ==
        IF n = 0
        THEN [key |-> Permutation(key, Table_PC1), bits |-> Permutation(block, Table_IP)]
        ELSE Mixed(Turned(round[n - 1], Table_Move[mode][n]))
  IN  round

Swapped(bits) == Half(bits, 32, 2) \o Half(bits, 32, 1)

DesBlock(block, key, mode) ==
  Permutation(Swapped(Rounds(block, key, mode)[16].bits), Table_InverseIP)

-----------------------------------------------------------------------------
(* Triple DES of whole blocks. *)

CheckKey(key) == Len(key) \in {16, 24}
KeyPart(key, n) ==
  Bits(SubSeq(key, IF n = 3 /\ Len(key) = 16 THEN 1 ELSE 8 * n - 7,
                   IF n = 3 /\ Len(key) = 16 THEN 8 ELSE 8 * n))

Block(bytes, i) == SubSeq(bytes, 8 * i - 7, 8 * i)

Enciphered(key, bytes) ==
  LET cipher(i) ==
        Bytes(DesBlock(DesBlock(DesBlock(Bits(Block(bytes, i)),
              KeyPart(key, 1), "encrypt"), KeyPart(key, 2), "decrypt"), KeyPart(key, 3), "encrypt"))
  IN Tuple([i \in 1 .. Len(bytes) \div 8 |-> cipher(i)])

Deciphered(key, bytes) ==
  LET plain(i) ==
        Bytes(DesBlock(DesBlock(DesBlock(Bits(Block(bytes, i)),
              KeyPart(key, 3), "decrypt"), KeyPart(key, 2), "encrypt"), KeyPart(key, 1), "decrypt"))
  IN Tuple([i \in 1 .. Len(bytes) \div 8 |-> plain(i)])
=============================================================================
