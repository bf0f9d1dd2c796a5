------------------------------ MODULE BitWords ------------------------------
(* Bytes and words as rows of bits, and their exclusive or. *)
EXTENDS Integers, Sequences

(* SubSeq of a whole function changes nothing, but that TLC evaluates it once. *)
Tuple(f) == SubSeq(f, 1, Len(f))

XorBits(a, b) == Tuple([i \in DOMAIN a |-> (a[i] + b[i]) % 2])

(* A byte is its bits, the highest first. *)
Weight == << 128, 64, 32, 16, 8, 4, 2, 1 >>

Bits(bytes) ==
  Tuple([i \in 1 .. 8 * Len(bytes) |->
           (bytes[((i - 1) \div 8) + 1] \div Weight[((i - 1) % 8) + 1]) % 2])

Bytes(bits) ==
  LET bit(i, k) == bits[8 * i - 8 + k] * Weight[k]
  IN Tuple([i \in 1 .. Len(bits) \div 8 |->
              bit(i, 1) + bit(i, 2) + bit(i, 3) + bit(i, 4)
                + bit(i, 5) + bit(i, 6) + bit(i, 7) + bit(i, 8)])

XorBytes(a, b) == Bytes(XorBits(Bits(<<a>>), Bits(<<b>>)))[1]

(* Of all bytes of a row, one after the other. *)
XorAll(bytes) ==
  LET sum[n \in 0 .. Len(bytes)] == IF n = 0 THEN 0 ELSE XorBytes(sum[n - 1], bytes[n])
  IN  sum[Len(bytes)]
=============================================================================
