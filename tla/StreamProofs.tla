----------------------------- MODULE StreamProofs -----------------------------
(***************************************************************************)
(* Proofs about Streams, for every input and every way of cutting it: the  *)
(* check sum, the digest and the parser take a stream in pieces and find   *)
(* what they would find in the whole.                                      *)
(***************************************************************************)
EXTENDS LibraryProofs, Streams

-----------------------------------------------------------------------------
(* Check sums.  A word of n bits. *)
LEMMA XorWords ==
  ASSUME NEW n \in Nat, NEW a \in Word(n), NEW b \in Word(n)
  PROVE  XorBits(a, b) \in Word(n) /\ \A i \in 1 .. n : XorBits(a, b)[i] = (a[i] + b[i]) % 2
<1>1. PICK f : f = [i \in DOMAIN a |-> (a[i] + b[i]) % 2]
  OBVIOUS
<1>2. DOMAIN a = 1 .. n
  BY DEF Word
<1>3. \A i \in 1 .. n : a[i] \in {0, 1} /\ b[i] \in {0, 1}
  BY DEF Word
<1>4. \A i \in 1 .. n : (a[i] + b[i]) % 2 \in {0, 1}
  BY <1>3
<1>5. f \in Word(n) /\ \A i \in 1 .. n : f[i] = (a[i] + b[i]) % 2
  BY <1>1, <1>2, <1>4 DEF Word
<1>6. Tuple(f) = f
  BY <1>5, WordIs DEF Word
<1>7. QED
  BY <1>1, <1>5, <1>6 DEF XorBits

LEMMA AddedIs ==
  ASSUME NEW n \in Nat, NEW c \in Word(n), n >= 8, NEW b \in Word(8)
  PROVE  Added(c, b) \in Word(n)
<1>1. PICK f : f = [i \in DOMAIN c |-> IF i <= 8 THEN (c[i] + b[i]) % 2 ELSE c[i]]
  OBVIOUS
<1>2. DOMAIN c = 1 .. n
  BY DEF Word
<1>3. ASSUME NEW i \in 1 .. n PROVE (IF i <= 8 THEN (c[i] + b[i]) % 2 ELSE c[i]) \in {0, 1}
  <2>1. c[i] \in {0, 1}
    BY DEF Word
  <2>2. CASE i <= 8
    <3>1. i \in 1 .. 8
      BY <2>2
    <3>2. b[i] \in {0, 1}
      BY <3>1 DEF Word
    <3>3. QED
      BY <2>1, <2>2, <3>2
  <2>3. QED
    BY <2>1, <2>2
<1>4. f \in Word(n)
  BY <1>1, <1>2, <1>3 DEF Word
<1>5. Tuple(f) = f
  BY <1>4, WordIs DEF Word
<1>6. QED
  BY <1>1, <1>4, <1>5 DEF Added

(* What the bits behind the end of a word are taken for. *)
BitOr0(p, n, j) == IF j <= n THEN p[j] ELSE 0

LEMMA OneBitIs ==
  ASSUME NEW n \in Nat, NEW c \in Word(n), NEW p \in Word(n), n >= 8
  PROVE  /\ OneBit(c, p) \in Word(n)
         /\ \A i \in 1 .. n : OneBit(c, p)[i] = (BitOr0(c, n, i + 1) + c[1] * p[i]) % 2
<1>1. PICK f : f = [i \in 1 .. n |-> ((IF i < n THEN c[i + 1] ELSE 0) + c[1] * p[i]) % 2]
  OBVIOUS
<1>2. Len(c) = n
  BY WordIs DEF Word
<1>3. ASSUME NEW i \in 1 .. n
      PROVE  /\ f[i] = (BitOr0(c, n, i + 1) + c[1] * p[i]) % 2
             /\ f[i] \in {0, 1}
  <2>1. c[1] \in {0, 1} /\ p[i] \in {0, 1}
    BY DEF Word
  <2>2. PICK d \in {0, 1} : d = BitOr0(c, n, i + 1)
    <3>1. CASE i < n
      <4>1. i + 1 \in 1 .. n
        BY <3>1
      <4>2. QED
        BY <4>1 DEF BitOr0, Word
    <3>2. CASE ~(i < n)
      BY <3>2 DEF BitOr0
    <3>3. QED
      BY <3>1, <3>2
  <2>3. (IF i < n THEN c[i + 1] ELSE 0) = d
    BY <2>2 DEF BitOr0
  <2>4. f[i] = (d + c[1] * p[i]) % 2
    BY <1>1, <2>3
  <2>5. QED
    BY <2>1, <2>2, <2>4
<1>4. f \in Word(n)
  BY <1>1, <1>3 DEF Word
<1>5. Tuple(f) = f
  BY <1>4, WordIs DEF Word
<1>6. OneBit(c, p) = f
  BY <1>1, <1>2, <1>5 DEF OneBit
<1>7. QED
  BY <1>3, <1>4, <1>6

(* What four bits that are shifted done leave at place i, of a polynomial without its first
   three bits. *)
Left(c, p, n, i) ==
  (c[1] * BitOr0(p, n, i + 3) + c[2] * BitOr0(p, n, i + 2)
     + c[3] * BitOr0(p, n, i + 1) + c[4] * BitOr0(p, n, i)) % 2

LEMMA BitOr0Is ==
  ASSUME NEW n \in Nat, NEW c \in Word(n), NEW j \in Nat \ {0}
  PROVE  BitOr0(c, n, j) \in {0, 1} /\ (j <= n => BitOr0(c, n, j) = c[j]) /\ (~(j <= n) => BitOr0(c, n, j) = 0)
<1>1. CASE j <= n
  <2>1. j \in 1 .. n
    BY <1>1
  <2>2. c[j] \in {0, 1}
    BY <2>1 DEF Word
  <2>3. QED
    BY <1>1, <2>2 DEF BitOr0
<1>2. CASE ~(j <= n)
  BY <1>2 DEF BitOr0
<1>3. QED
  BY <1>1, <1>2

(* One bit, at any place behind which the word is continued with zeros. *)
LEMMA OneBitAnywhere ==
  ASSUME NEW n \in Nat, NEW c \in Word(n), NEW p \in Word(n), n >= 8, NEW j \in Nat \ {0},
         NEW d, d = OneBit(c, p)
  PROVE  BitOr0(d, n, j) = (BitOr0(c, n, j + 1) + c[1] * BitOr0(p, n, j)) % 2
<1>1. CASE j <= n
  <2>1. j \in 1 .. n
    BY <1>1
  <2>2. d[j] = (BitOr0(c, n, j + 1) + c[1] * p[j]) % 2
    BY <2>1, OneBitIs
  <2>3. QED
    BY <1>1, <2>2 DEF BitOr0
<1>2. CASE ~(j <= n)
  <2>1. BitOr0(d, n, j) = 0 /\ BitOr0(c, n, j + 1) = 0 /\ BitOr0(p, n, j) = 0
    BY <1>2 DEF BitOr0
  <2>2. 1 \in 1 .. n
    OBVIOUS
  <2>3. c[1] \in {0, 1}
    BY <2>2 DEF Word
  <2>4. QED
    BY <2>1, <2>3
<1>3. QED
  BY <1>1, <1>2

LEMMA FourBitsIs ==
  ASSUME NEW n \in Nat, NEW c \in Word(n), NEW p \in Word(n), n >= 8,
         p[1] = 0, p[2] = 0, p[3] = 0
  PROVE  /\ FourBits(c, p) \in Word(n)
         /\ \A i \in 1 .. n : FourBits(c, p)[i] = (BitOr0(c, n, i + 4) + Left(c, p, n, i)) % 2
<1>1. PICK x1 \in Word(n) : x1 = OneBit(c, p)
  BY OneBitIs
<1>2. PICK x2 \in Word(n) : x2 = OneBit(x1, p)
  BY OneBitIs
<1>3. PICK x3 \in Word(n) : x3 = OneBit(x2, p)
  BY OneBitIs
<1>4. PICK x4 \in Word(n) : x4 = OneBit(x3, p)
  BY OneBitIs
<1>5. x4 = FourBits(c, p)
  BY <1>1, <1>2, <1>3, <1>4 DEF FourBits
<1>6. /\ 1 \in 1 .. n /\ 2 \in 1 .. n /\ 3 \in 1 .. n /\ 4 \in 1 .. n
      /\ 2 <= n /\ 3 <= n /\ 4 <= n /\ 1 <= n
  OBVIOUS
<1>7. /\ c[1] \in {0, 1} /\ c[2] \in {0, 1} /\ c[3] \in {0, 1} /\ c[4] \in {0, 1}
      /\ x1[1] \in {0, 1} /\ x2[1] \in {0, 1} /\ x3[1] \in {0, 1}
  BY <1>6 DEF Word
<1>8. /\ BitOr0(p, n, 1) = 0 /\ BitOr0(p, n, 2) = 0 /\ BitOr0(p, n, 3) = 0
  BY <1>6 DEF BitOr0
<1>9. \A j \in Nat \ {0} : BitOr0(x1, n, j) = (BitOr0(c, n, j + 1) + c[1] * BitOr0(p, n, j)) % 2
  BY <1>1, OneBitAnywhere
<1>10. \A j \in Nat \ {0} : BitOr0(x2, n, j) = (BitOr0(x1, n, j + 1) + x1[1] * BitOr0(p, n, j)) % 2
  BY <1>2, OneBitAnywhere
<1>11. \A j \in Nat \ {0} : BitOr0(x3, n, j) = (BitOr0(x2, n, j + 1) + x2[1] * BitOr0(p, n, j)) % 2
  BY <1>3, OneBitAnywhere
<1>12. \A j \in Nat \ {0} : BitOr0(x4, n, j) = (BitOr0(x3, n, j + 1) + x3[1] * BitOr0(p, n, j)) % 2
  BY <1>4, OneBitAnywhere
<1>13. x1[1] = c[2] /\ BitOr0(x1, n, 2) = c[3] /\ BitOr0(x1, n, 3) = c[4]
  <2>1. /\ BitOr0(c, n, 2) = c[2] /\ BitOr0(c, n, 3) = c[3] /\ BitOr0(c, n, 4) = c[4]
        /\ BitOr0(x1, n, 1) = x1[1]
    BY <1>6 DEF BitOr0
  <2>2. /\ BitOr0(x1, n, 1) = (BitOr0(c, n, 1 + 1) + c[1] * 0) % 2
        /\ BitOr0(x1, n, 2) = (BitOr0(c, n, 2 + 1) + c[1] * 0) % 2
        /\ BitOr0(x1, n, 3) = (BitOr0(c, n, 3 + 1) + c[1] * 0) % 2
    BY <1>8, <1>9
  <2>3. QED
    BY <1>7, <2>1, <2>2
<1>14. x2[1] = c[3] /\ BitOr0(x2, n, 2) = c[4]
  <2>1. BitOr0(x2, n, 1) = x2[1]
    BY <1>6 DEF BitOr0
  <2>2. /\ BitOr0(x2, n, 1) = (BitOr0(x1, n, 1 + 1) + x1[1] * 0) % 2
        /\ BitOr0(x2, n, 2) = (BitOr0(x1, n, 2 + 1) + x1[1] * 0) % 2
    BY <1>8, <1>10
  <2>3. QED
    BY <1>7, <1>13, <2>1, <2>2
<1>15. x3[1] = c[4]
  <2>1. BitOr0(x3, n, 1) = x3[1]
    BY <1>6 DEF BitOr0
  <2>2. BitOr0(x3, n, 1) = (BitOr0(x2, n, 1 + 1) + x2[1] * 0) % 2
    BY <1>8, <1>11
  <2>3. QED
    BY <1>7, <1>14, <2>1, <2>2
<1>16. ASSUME NEW i \in 1 .. n PROVE x4[i] = (BitOr0(c, n, i + 4) + Left(c, p, n, i)) % 2
  <2>1. PICK e \in {0, 1} : e = BitOr0(c, n, i + 4)
    BY BitOr0Is
  <2>2. PICK p0 \in {0, 1}, p1 \in {0, 1}, p2 \in {0, 1}, p3 \in {0, 1} :
          /\ p0 = BitOr0(p, n, i) /\ p1 = BitOr0(p, n, i + 1)
          /\ p2 = BitOr0(p, n, i + 2) /\ p3 = BitOr0(p, n, i + 3)
    BY BitOr0Is
  <2>3. PICK y1 : y1 = BitOr0(x1, n, i + 3)
    OBVIOUS
  <2>4. PICK y2 : y2 = BitOr0(x2, n, i + 2)
    OBVIOUS
  <2>5. PICK y3 : y3 = BitOr0(x3, n, i + 1)
    OBVIOUS
  <2>6. y1 = (e + c[1] * p3) % 2
    <3>1. i + 3 \in Nat \ {0} /\ i + 3 + 1 = i + 4
      OBVIOUS
    <3>2. QED
      BY <1>9, <2>1, <2>2, <2>3, <3>1
  <2>7. y2 = (y1 + c[2] * p2) % 2
    <3>1. i + 2 \in Nat \ {0} /\ i + 2 + 1 = i + 3
      OBVIOUS
    <3>2. QED
      BY <1>10, <1>13, <2>2, <2>3, <2>4, <3>1
  <2>8. y3 = (y2 + c[3] * p1) % 2
    <3>1. i + 1 \in Nat \ {0} /\ i + 1 + 1 = i + 2
      OBVIOUS
    <3>2. QED
      BY <1>11, <1>14, <2>2, <2>4, <2>5, <3>1
  <2>9. x4[i] = (y3 + c[4] * p0) % 2
    <3>1. BitOr0(x4, n, i) = x4[i]
      BY DEF BitOr0
    <3>2. QED
      BY <1>12, <1>15, <2>2, <2>5, <3>1
  <2>10. PICK c1 \in {0, 1}, c2 \in {0, 1}, c3 \in {0, 1}, c4 \in {0, 1} :
           c1 = c[1] /\ c2 = c[2] /\ c3 = c[3] /\ c4 = c[4]
    BY <1>7
  <2>11. x4[i] = (e + ((c1 * p3 + c2 * p2 + c3 * p1 + c4 * p0) % 2)) % 2
    <3>1. PICK q3 \in {0, 1}, q2 \in {0, 1}, q1 \in {0, 1}, q0 \in {0, 1} :
            q3 = c1 * p3 /\ q2 = c2 * p2 /\ q1 = c3 * p1 /\ q0 = c4 * p0
      OBVIOUS
    <3>2. y1 = (e + q3) % 2 /\ y2 = (y1 + q2) % 2 /\ y3 = (y2 + q1) % 2 /\ x4[i] = (y3 + q0) % 2
      BY <2>6, <2>7, <2>8, <2>9, <2>10, <3>1
    <3>3. x4[i] = (e + ((q3 + q2 + q1 + q0) % 2)) % 2
      BY <3>2
    <3>4. QED
      BY <3>1, <3>3
  <2>12. QED
    BY <2>1, <2>2, <2>10, <2>11 DEF Left
<1>17. QED
  BY <1>5, <1>16

LEMMA ShiftedIs ==
  ASSUME NEW n \in Nat, NEW c \in Word(n), NEW r \in Word(n), n >= 8
  PROVE  /\ Shifted(c, r) \in Word(n)
         /\ \A i \in 1 .. n : Shifted(c, r)[i] = (BitOr0(c, n, i + 4) + r[i]) % 2
<1>1. Len(c) = n /\ c \in Seq({0, 1})
  BY WordIs DEF Word
<1>2. PICK s : s = SubSeq(c, 5, n)
  OBVIOUS
<1>3. PICK m \in Nat : m = n - 4 /\ m + 4 = n /\ n - 5 + 1 = m
  OBVIOUS
<1>4. s \in Seq({0, 1}) /\ Len(s) = m /\ \A i \in 1 .. m : s[i] = c[i + 4]
  BY <1>1, <1>2, <1>3
<1>5. PICK z : z = <<0, 0, 0, 0>>
  OBVIOUS
<1>6. z \in Seq({0, 1}) /\ Len(z) = 4 /\ \A i \in 1 .. 4 : z[i] = 0
  BY <1>5
<1>7. PICK t : t = s \o z
  OBVIOUS
<1>8. /\ t \in Seq({0, 1}) /\ Len(t) = n
      /\ \A i \in 1 .. n : t[i] = IF i <= m THEN s[i] ELSE z[i - m]
  <2>1. /\ t \in Seq({0, 1}) /\ Len(t) = Len(s) + Len(z)
        /\ \A i \in 1 .. Len(s) + Len(z) : t[i] = IF i <= Len(s) THEN s[i] ELSE z[i - Len(s)]
    BY <1>4, <1>6, <1>7, ConcatProperties
  <2>2. QED
    BY <1>3, <1>4, <1>6, <2>1
<1>9. ASSUME NEW i \in 1 .. n PROVE t[i] = BitOr0(c, n, i + 4)
  <2>1. CASE i <= m
    <3>1. i \in 1 .. m /\ i + 4 <= n
      BY <1>3, <2>1
    <3>2. QED
      BY <1>4, <1>8, <2>1, <3>1 DEF BitOr0
  <2>2. CASE ~(i <= m)
    <3>1. i - m \in 1 .. 4 /\ ~(i + 4 <= n)
      BY <1>3, <2>2
    <3>2. QED
      BY <1>6, <1>8, <2>2, <3>1 DEF BitOr0
  <2>3. QED
    BY <2>1, <2>2
<1>10. t \in Word(n)
  <2>1. t \in [1 .. n -> {0, 1}]
    BY <1>8
  <2>2. QED
    BY <2>1 DEF Word
<1>11. Shifted(c, r) = XorBits(t, r)
  BY <1>1, <1>2, <1>5, <1>7 DEF Shifted
<1>12. QED
  BY <1>9, <1>10, <1>11, XorWords

(* A row of a table is what four bits leave. *)
RowFits(r, p, n, b1, b2, b3, b4) ==
  /\ r \in Word(n)
  /\ \A i \in 1 .. n : r[i] = (b1 * BitOr0(p, n, i + 3) + b2 * BitOr0(p, n, i + 2)
                                  + b3 * BitOr0(p, n, i + 1) + b4 * BitOr0(p, n, i)) % 2

LEMMA HalfIs ==
  ASSUME NEW n \in Nat, NEW c \in Word(n), NEW p \in Word(n), n >= 8,
         p[1] = 0, p[2] = 0, p[3] = 0,
         NEW r, RowFits(r, p, n, c[1], c[2], c[3], c[4])
  PROVE  Shifted(c, r) \in Word(n) /\ Shifted(c, r) = FourBits(c, p)
<1>1. r \in Word(n)
  BY DEF RowFits
<1>2. PICK x \in Word(n) : x = Shifted(c, r) /\ \A i \in 1 .. n : x[i] = (BitOr0(c, n, i + 4) + r[i]) % 2
  BY <1>1, ShiftedIs
<1>3. PICK y \in Word(n) : y = FourBits(c, p)
                           /\ \A i \in 1 .. n : y[i] = (BitOr0(c, n, i + 4) + Left(c, p, n, i)) % 2
  BY FourBitsIs
<1>4. \A i \in 1 .. n : r[i] = Left(c, p, n, i)
  BY DEF RowFits, Left
<1>5. \A i \in 1 .. n : x[i] = y[i]
  BY <1>2, <1>3, <1>4
<1>6. x = y
  BY <1>5 DEF Word
<1>7. QED
  BY <1>2, <1>3, <1>6

LEMMA ReverseIs ==
  ASSUME NEW n \in Nat, NEW b \in Word(n)
  PROVE  Reverse(b) \in Word(n) /\ \A i \in 1 .. n : Reverse(b)[i] = b[n + 1 - i]
<1>1. Len(b) = n
  BY WordIs DEF Word
<1>2. PICK r : r = [i \in 1 .. n |-> b[(n - i) + 1]]
  OBVIOUS
<1>3. Reverse(b) = r
  BY <1>1, <1>2 DEF Reverse
<1>4. ASSUME NEW i \in 1 .. n PROVE b[(n - i) + 1] \in {0, 1} /\ b[(n - i) + 1] = b[n + 1 - i]
  <2>1. (n - i) + 1 \in 1 .. n /\ (n - i) + 1 = n + 1 - i
    OBVIOUS
  <2>2. QED
    BY <2>1 DEF Word
<1>5. r \in Word(n) /\ \A i \in 1 .. n : r[i] = b[n + 1 - i]
  BY <1>2, <1>4 DEF Word
<1>6. QED
  BY <1>3, <1>5

LEMMA BitsOf1 ==
  ASSUME NEW y \in Text(1)
  PROVE  /\ Bits(y) \in Word(8)
         /\ Bits(y)[1] = (y[1] \div 128) % 2 /\ Bits(y)[2] = (y[1] \div 64) % 2 /\ Bits(y)[3] = (y[1] \div 32) % 2 /\ Bits(y)[4] = (y[1] \div 16) % 2
         /\ Bits(y)[5] = (y[1] \div 8) % 2 /\ Bits(y)[6] = (y[1] \div 4) % 2 /\ Bits(y)[7] = (y[1] \div 2) % 2 /\ Bits(y)[8] = (y[1] \div 1) % 2
<1>1. 1 \in Nat /\ 8 * 1 = 8
  OBVIOUS
<1>2. PICK b : b = Bits(y)
  OBVIOUS
<1>3. b \in Word(8) /\ BitsOf(b, y, 1)
  <2>1. b \in Word(8 * 1) /\ BitsOf(b, y, 1)
    BY <1>1, <1>2, BitsAre
  <2>2. QED
    BY <1>1, <2>1
<1>4. QED
  BY <1>2, <1>3 DEF BitsOf, BitAt

LEMMA BitsOf2 ==
  ASSUME NEW y \in Text(2)
  PROVE  /\ Bits(y) \in Word(16)
         /\ Bits(y)[1] = (y[1] \div 128) % 2 /\ Bits(y)[2] = (y[1] \div 64) % 2 /\ Bits(y)[3] = (y[1] \div 32) % 2 /\ Bits(y)[4] = (y[1] \div 16) % 2
         /\ Bits(y)[5] = (y[1] \div 8) % 2 /\ Bits(y)[6] = (y[1] \div 4) % 2 /\ Bits(y)[7] = (y[1] \div 2) % 2 /\ Bits(y)[8] = (y[1] \div 1) % 2
         /\ Bits(y)[9] = (y[2] \div 128) % 2 /\ Bits(y)[10] = (y[2] \div 64) % 2 /\ Bits(y)[11] = (y[2] \div 32) % 2 /\ Bits(y)[12] = (y[2] \div 16) % 2
         /\ Bits(y)[13] = (y[2] \div 8) % 2 /\ Bits(y)[14] = (y[2] \div 4) % 2 /\ Bits(y)[15] = (y[2] \div 2) % 2 /\ Bits(y)[16] = (y[2] \div 1) % 2
<1>1. 2 \in Nat /\ 8 * 2 = 16
  OBVIOUS
<1>2. PICK b : b = Bits(y)
  OBVIOUS
<1>3. b \in Word(16) /\ BitsOf(b, y, 2)
  <2>1. b \in Word(8 * 2) /\ BitsOf(b, y, 2)
    BY <1>1, <1>2, BitsAre
  <2>2. QED
    BY <1>1, <2>1
<1>4. QED
  BY <1>2, <1>3 DEF BitsOf, BitAt

LEMMA BitsOf4 ==
  ASSUME NEW y \in Text(4)
  PROVE  /\ Bits(y) \in Word(32)
         /\ Bits(y)[1] = (y[1] \div 128) % 2 /\ Bits(y)[2] = (y[1] \div 64) % 2 /\ Bits(y)[3] = (y[1] \div 32) % 2 /\ Bits(y)[4] = (y[1] \div 16) % 2
         /\ Bits(y)[5] = (y[1] \div 8) % 2 /\ Bits(y)[6] = (y[1] \div 4) % 2 /\ Bits(y)[7] = (y[1] \div 2) % 2 /\ Bits(y)[8] = (y[1] \div 1) % 2
         /\ Bits(y)[9] = (y[2] \div 128) % 2 /\ Bits(y)[10] = (y[2] \div 64) % 2 /\ Bits(y)[11] = (y[2] \div 32) % 2 /\ Bits(y)[12] = (y[2] \div 16) % 2
         /\ Bits(y)[13] = (y[2] \div 8) % 2 /\ Bits(y)[14] = (y[2] \div 4) % 2 /\ Bits(y)[15] = (y[2] \div 2) % 2 /\ Bits(y)[16] = (y[2] \div 1) % 2
         /\ Bits(y)[17] = (y[3] \div 128) % 2 /\ Bits(y)[18] = (y[3] \div 64) % 2 /\ Bits(y)[19] = (y[3] \div 32) % 2 /\ Bits(y)[20] = (y[3] \div 16) % 2
         /\ Bits(y)[21] = (y[3] \div 8) % 2 /\ Bits(y)[22] = (y[3] \div 4) % 2 /\ Bits(y)[23] = (y[3] \div 2) % 2 /\ Bits(y)[24] = (y[3] \div 1) % 2
         /\ Bits(y)[25] = (y[4] \div 128) % 2 /\ Bits(y)[26] = (y[4] \div 64) % 2 /\ Bits(y)[27] = (y[4] \div 32) % 2 /\ Bits(y)[28] = (y[4] \div 16) % 2
         /\ Bits(y)[29] = (y[4] \div 8) % 2 /\ Bits(y)[30] = (y[4] \div 4) % 2 /\ Bits(y)[31] = (y[4] \div 2) % 2 /\ Bits(y)[32] = (y[4] \div 1) % 2
<1>1. 4 \in Nat /\ 8 * 4 = 32
  OBVIOUS
<1>2. PICK b : b = Bits(y)
  OBVIOUS
<1>3. b \in Word(32) /\ BitsOf(b, y, 4)
  <2>1. b \in Word(8 * 4) /\ BitsOf(b, y, 4)
    BY <1>1, <1>2, BitsAre
  <2>2. QED
    BY <1>1, <2>1
<1>4. QED
  BY <1>2, <1>3 DEF BitsOf, BitAt

LEMMA BackOf4 ==
  ASSUME NEW y \in Text(4)
  PROVE  /\ Reverse(Bits(y)) \in Word(32)
         /\ Reverse(Bits(y))[32] = (y[1] \div 128) % 2 /\ Reverse(Bits(y))[31] = (y[1] \div 64) % 2 /\ Reverse(Bits(y))[30] = (y[1] \div 32) % 2
         /\ Reverse(Bits(y))[29] = (y[1] \div 16) % 2 /\ Reverse(Bits(y))[28] = (y[1] \div 8) % 2 /\ Reverse(Bits(y))[27] = (y[1] \div 4) % 2
         /\ Reverse(Bits(y))[26] = (y[1] \div 2) % 2 /\ Reverse(Bits(y))[25] = (y[1] \div 1) % 2 /\ Reverse(Bits(y))[24] = (y[2] \div 128) % 2
         /\ Reverse(Bits(y))[23] = (y[2] \div 64) % 2 /\ Reverse(Bits(y))[22] = (y[2] \div 32) % 2 /\ Reverse(Bits(y))[21] = (y[2] \div 16) % 2
         /\ Reverse(Bits(y))[20] = (y[2] \div 8) % 2 /\ Reverse(Bits(y))[19] = (y[2] \div 4) % 2 /\ Reverse(Bits(y))[18] = (y[2] \div 2) % 2
         /\ Reverse(Bits(y))[17] = (y[2] \div 1) % 2 /\ Reverse(Bits(y))[16] = (y[3] \div 128) % 2 /\ Reverse(Bits(y))[15] = (y[3] \div 64) % 2
         /\ Reverse(Bits(y))[14] = (y[3] \div 32) % 2 /\ Reverse(Bits(y))[13] = (y[3] \div 16) % 2 /\ Reverse(Bits(y))[12] = (y[3] \div 8) % 2
         /\ Reverse(Bits(y))[11] = (y[3] \div 4) % 2 /\ Reverse(Bits(y))[10] = (y[3] \div 2) % 2 /\ Reverse(Bits(y))[9] = (y[3] \div 1) % 2
         /\ Reverse(Bits(y))[8] = (y[4] \div 128) % 2 /\ Reverse(Bits(y))[7] = (y[4] \div 64) % 2 /\ Reverse(Bits(y))[6] = (y[4] \div 32) % 2
         /\ Reverse(Bits(y))[5] = (y[4] \div 16) % 2 /\ Reverse(Bits(y))[4] = (y[4] \div 8) % 2 /\ Reverse(Bits(y))[3] = (y[4] \div 4) % 2
         /\ Reverse(Bits(y))[2] = (y[4] \div 2) % 2 /\ Reverse(Bits(y))[1] = (y[4] \div 1) % 2
<1>1. PICK b \in Word(32) : b = Bits(y)
  BY BitsOf4
<1>2. PICK r \in Word(32) : r = Reverse(b) /\ \A i \in 1 .. 32 : r[i] = b[33 - i]
  BY ReverseIs
<1>3. /\ r[1] = b[32] /\ r[2] = b[31] /\ r[3] = b[30] /\ r[4] = b[29] /\ r[5] = b[28] /\ r[6] = b[27]
      /\ r[7] = b[26] /\ r[8] = b[25] /\ r[9] = b[24] /\ r[10] = b[23] /\ r[11] = b[22] /\ r[12] = b[21]
      /\ r[13] = b[20] /\ r[14] = b[19] /\ r[15] = b[18] /\ r[16] = b[17] /\ r[17] = b[16] /\ r[18] = b[15]
      /\ r[19] = b[14] /\ r[20] = b[13] /\ r[21] = b[12] /\ r[22] = b[11] /\ r[23] = b[10] /\ r[24] = b[9]
      /\ r[25] = b[8] /\ r[26] = b[7] /\ r[27] = b[6] /\ r[28] = b[5] /\ r[29] = b[4] /\ r[30] = b[3]
      /\ r[31] = b[2] /\ r[32] = b[1]
  BY <1>2
<1>4. QED
  BY <1>1, <1>2, <1>3, BitsOf4

LEMMA Poly8 ==
  /\ CRC8_POLY \in Word(8) /\ CRC8_POLY[1] = 0 /\ CRC8_POLY[2] = 0 /\ CRC8_POLY[3] = 0
  /\ BitOr0(CRC8_POLY, 8, 1) = 0 /\ BitOr0(CRC8_POLY, 8, 2) = 0 /\ BitOr0(CRC8_POLY, 8, 3) = 0
  /\ BitOr0(CRC8_POLY, 8, 4) = 0 /\ BitOr0(CRC8_POLY, 8, 5) = 0 /\ BitOr0(CRC8_POLY, 8, 6) = 1
  /\ BitOr0(CRC8_POLY, 8, 7) = 1 /\ BitOr0(CRC8_POLY, 8, 8) = 1 /\ BitOr0(CRC8_POLY, 8, 9) = 0
  /\ BitOr0(CRC8_POLY, 8, 10) = 0 /\ BitOr0(CRC8_POLY, 8, 11) = 0
<1>1. PICK y : y = <<7>>
  OBVIOUS
<1>2. y \in Text(1) /\ y[1] = 7
  BY <1>1 DEF Text, Byte
<1>3. QED
  BY <1>1, <1>2, BitsOf1 DEF BitOr0, CRC8_POLY

LEMMA Rows8 ==
  ASSUME NEW b1 \in {0, 1}, NEW b2 \in {0, 1}, NEW b3 \in {0, 1}, NEW b4 \in {0, 1}
  PROVE  RowFits(Bits(<<RowOf(crc8_table, b1, b2, b3, b4)>>), CRC8_POLY, 8, b1, b2, b3, b4)
<1>1. PICK p : p = CRC8_POLY
  OBVIOUS
<1>2. /\ BitOr0(p, 8, 1) = 0 /\ BitOr0(p, 8, 2) = 0 /\ BitOr0(p, 8, 3) = 0 /\ BitOr0(p, 8, 4) = 0
      /\ BitOr0(p, 8, 5) = 0 /\ BitOr0(p, 8, 6) = 1 /\ BitOr0(p, 8, 7) = 1 /\ BitOr0(p, 8, 8) = 1
      /\ BitOr0(p, 8, 9) = 0 /\ BitOr0(p, 8, 10) = 0 /\ BitOr0(p, 8, 11) = 0
  BY <1>1, Poly8
<1>3. PICK y : y = <<RowOf(crc8_table, b1, b2, b3, b4)>>
  OBVIOUS
<1>4. CASE b1 = 0 /\ b2 = 0 /\ b3 = 0 /\ b4 = 0
  <2>1. y \in Text(1) /\ y[1] = 0
    BY <1>3, <1>4 DEF RowOf, crc8_table, Text, Byte
  <2>2. RowFits(Bits(y), p, 8, 0, 0, 0, 0)
    BY <1>2, <2>1, BitsOf1 DEF RowFits
  <2>3. QED
    BY <1>1, <1>3, <1>4, <2>2
<1>5. CASE b1 = 0 /\ b2 = 0 /\ b3 = 0 /\ b4 = 1
  <2>1. y \in Text(1) /\ y[1] = 7
    BY <1>3, <1>5 DEF RowOf, crc8_table, Text, Byte
  <2>2. RowFits(Bits(y), p, 8, 0, 0, 0, 1)
    BY <1>2, <2>1, BitsOf1 DEF RowFits
  <2>3. QED
    BY <1>1, <1>3, <1>5, <2>2
<1>6. CASE b1 = 0 /\ b2 = 0 /\ b3 = 1 /\ b4 = 0
  <2>1. y \in Text(1) /\ y[1] = 14
    BY <1>3, <1>6 DEF RowOf, crc8_table, Text, Byte
  <2>2. RowFits(Bits(y), p, 8, 0, 0, 1, 0)
    BY <1>2, <2>1, BitsOf1 DEF RowFits
  <2>3. QED
    BY <1>1, <1>3, <1>6, <2>2
<1>7. CASE b1 = 0 /\ b2 = 0 /\ b3 = 1 /\ b4 = 1
  <2>1. y \in Text(1) /\ y[1] = 9
    BY <1>3, <1>7 DEF RowOf, crc8_table, Text, Byte
  <2>2. RowFits(Bits(y), p, 8, 0, 0, 1, 1)
    BY <1>2, <2>1, BitsOf1 DEF RowFits
  <2>3. QED
    BY <1>1, <1>3, <1>7, <2>2
<1>8. CASE b1 = 0 /\ b2 = 1 /\ b3 = 0 /\ b4 = 0
  <2>1. y \in Text(1) /\ y[1] = 28
    BY <1>3, <1>8 DEF RowOf, crc8_table, Text, Byte
  <2>2. RowFits(Bits(y), p, 8, 0, 1, 0, 0)
    BY <1>2, <2>1, BitsOf1 DEF RowFits
  <2>3. QED
    BY <1>1, <1>3, <1>8, <2>2
<1>9. CASE b1 = 0 /\ b2 = 1 /\ b3 = 0 /\ b4 = 1
  <2>1. y \in Text(1) /\ y[1] = 27
    BY <1>3, <1>9 DEF RowOf, crc8_table, Text, Byte
  <2>2. RowFits(Bits(y), p, 8, 0, 1, 0, 1)
    BY <1>2, <2>1, BitsOf1 DEF RowFits
  <2>3. QED
    BY <1>1, <1>3, <1>9, <2>2
<1>10. CASE b1 = 0 /\ b2 = 1 /\ b3 = 1 /\ b4 = 0
  <2>1. y \in Text(1) /\ y[1] = 18
    BY <1>3, <1>10 DEF RowOf, crc8_table, Text, Byte
  <2>2. RowFits(Bits(y), p, 8, 0, 1, 1, 0)
    BY <1>2, <2>1, BitsOf1 DEF RowFits
  <2>3. QED
    BY <1>1, <1>3, <1>10, <2>2
<1>11. CASE b1 = 0 /\ b2 = 1 /\ b3 = 1 /\ b4 = 1
  <2>1. y \in Text(1) /\ y[1] = 21
    BY <1>3, <1>11 DEF RowOf, crc8_table, Text, Byte
  <2>2. RowFits(Bits(y), p, 8, 0, 1, 1, 1)
    BY <1>2, <2>1, BitsOf1 DEF RowFits
  <2>3. QED
    BY <1>1, <1>3, <1>11, <2>2
<1>12. CASE b1 = 1 /\ b2 = 0 /\ b3 = 0 /\ b4 = 0
  <2>1. y \in Text(1) /\ y[1] = 56
    BY <1>3, <1>12 DEF RowOf, crc8_table, Text, Byte
  <2>2. RowFits(Bits(y), p, 8, 1, 0, 0, 0)
    BY <1>2, <2>1, BitsOf1 DEF RowFits
  <2>3. QED
    BY <1>1, <1>3, <1>12, <2>2
<1>13. CASE b1 = 1 /\ b2 = 0 /\ b3 = 0 /\ b4 = 1
  <2>1. y \in Text(1) /\ y[1] = 63
    BY <1>3, <1>13 DEF RowOf, crc8_table, Text, Byte
  <2>2. RowFits(Bits(y), p, 8, 1, 0, 0, 1)
    BY <1>2, <2>1, BitsOf1 DEF RowFits
  <2>3. QED
    BY <1>1, <1>3, <1>13, <2>2
<1>14. CASE b1 = 1 /\ b2 = 0 /\ b3 = 1 /\ b4 = 0
  <2>1. y \in Text(1) /\ y[1] = 54
    BY <1>3, <1>14 DEF RowOf, crc8_table, Text, Byte
  <2>2. RowFits(Bits(y), p, 8, 1, 0, 1, 0)
    BY <1>2, <2>1, BitsOf1 DEF RowFits
  <2>3. QED
    BY <1>1, <1>3, <1>14, <2>2
<1>15. CASE b1 = 1 /\ b2 = 0 /\ b3 = 1 /\ b4 = 1
  <2>1. y \in Text(1) /\ y[1] = 49
    BY <1>3, <1>15 DEF RowOf, crc8_table, Text, Byte
  <2>2. RowFits(Bits(y), p, 8, 1, 0, 1, 1)
    BY <1>2, <2>1, BitsOf1 DEF RowFits
  <2>3. QED
    BY <1>1, <1>3, <1>15, <2>2
<1>16. CASE b1 = 1 /\ b2 = 1 /\ b3 = 0 /\ b4 = 0
  <2>1. y \in Text(1) /\ y[1] = 36
    BY <1>3, <1>16 DEF RowOf, crc8_table, Text, Byte
  <2>2. RowFits(Bits(y), p, 8, 1, 1, 0, 0)
    BY <1>2, <2>1, BitsOf1 DEF RowFits
  <2>3. QED
    BY <1>1, <1>3, <1>16, <2>2
<1>17. CASE b1 = 1 /\ b2 = 1 /\ b3 = 0 /\ b4 = 1
  <2>1. y \in Text(1) /\ y[1] = 35
    BY <1>3, <1>17 DEF RowOf, crc8_table, Text, Byte
  <2>2. RowFits(Bits(y), p, 8, 1, 1, 0, 1)
    BY <1>2, <2>1, BitsOf1 DEF RowFits
  <2>3. QED
    BY <1>1, <1>3, <1>17, <2>2
<1>18. CASE b1 = 1 /\ b2 = 1 /\ b3 = 1 /\ b4 = 0
  <2>1. y \in Text(1) /\ y[1] = 42
    BY <1>3, <1>18 DEF RowOf, crc8_table, Text, Byte
  <2>2. RowFits(Bits(y), p, 8, 1, 1, 1, 0)
    BY <1>2, <2>1, BitsOf1 DEF RowFits
  <2>3. QED
    BY <1>1, <1>3, <1>18, <2>2
<1>19. CASE b1 = 1 /\ b2 = 1 /\ b3 = 1 /\ b4 = 1
  <2>1. y \in Text(1) /\ y[1] = 45
    BY <1>3, <1>19 DEF RowOf, crc8_table, Text, Byte
  <2>2. RowFits(Bits(y), p, 8, 1, 1, 1, 1)
    BY <1>2, <2>1, BitsOf1 DEF RowFits
  <2>3. QED
    BY <1>1, <1>3, <1>19, <2>2
<1>20. QED
  BY <1>4, <1>5, <1>6, <1>7, <1>8, <1>9, <1>10, <1>11, <1>12, <1>13, <1>14, <1>15, <1>16, <1>17, <1>18, <1>19

LEMMA Poly16 ==
  /\ CRC16_POLY \in Word(16) /\ CRC16_POLY[1] = 0 /\ CRC16_POLY[2] = 0 /\ CRC16_POLY[3] = 0
  /\ BitOr0(CRC16_POLY, 16, 1) = 0 /\ BitOr0(CRC16_POLY, 16, 2) = 0 /\ BitOr0(CRC16_POLY, 16, 3) = 0
  /\ BitOr0(CRC16_POLY, 16, 4) = 1 /\ BitOr0(CRC16_POLY, 16, 5) = 0 /\ BitOr0(CRC16_POLY, 16, 6) = 0
  /\ BitOr0(CRC16_POLY, 16, 7) = 0 /\ BitOr0(CRC16_POLY, 16, 8) = 0 /\ BitOr0(CRC16_POLY, 16, 9) = 0
  /\ BitOr0(CRC16_POLY, 16, 10) = 0 /\ BitOr0(CRC16_POLY, 16, 11) = 1 /\ BitOr0(CRC16_POLY, 16, 12) = 0
  /\ BitOr0(CRC16_POLY, 16, 13) = 0 /\ BitOr0(CRC16_POLY, 16, 14) = 0 /\ BitOr0(CRC16_POLY, 16, 15) = 0
  /\ BitOr0(CRC16_POLY, 16, 16) = 1 /\ BitOr0(CRC16_POLY, 16, 17) = 0 /\ BitOr0(CRC16_POLY, 16, 18) = 0
  /\ BitOr0(CRC16_POLY, 16, 19) = 0
<1>1. PICK y : y = <<16, 33>>
  OBVIOUS
<1>2. y \in Text(2) /\ y[1] = 16 /\ y[2] = 33
  BY <1>1 DEF Text, Byte
<1>3. QED
  BY <1>1, <1>2, BitsOf2 DEF BitOr0, CRC16_POLY

LEMMA Rows16 ==
  ASSUME NEW b1 \in {0, 1}, NEW b2 \in {0, 1}, NEW b3 \in {0, 1}, NEW b4 \in {0, 1}
  PROVE  RowFits(Bits(RowOf(crc16_table, b1, b2, b3, b4)), CRC16_POLY, 16, b1, b2, b3, b4)
<1>1. PICK p : p = CRC16_POLY
  OBVIOUS
<1>2. /\ BitOr0(p, 16, 1) = 0 /\ BitOr0(p, 16, 2) = 0 /\ BitOr0(p, 16, 3) = 0 /\ BitOr0(p, 16, 4) = 1
      /\ BitOr0(p, 16, 5) = 0 /\ BitOr0(p, 16, 6) = 0 /\ BitOr0(p, 16, 7) = 0 /\ BitOr0(p, 16, 8) = 0
      /\ BitOr0(p, 16, 9) = 0 /\ BitOr0(p, 16, 10) = 0 /\ BitOr0(p, 16, 11) = 1 /\ BitOr0(p, 16, 12) = 0
      /\ BitOr0(p, 16, 13) = 0 /\ BitOr0(p, 16, 14) = 0 /\ BitOr0(p, 16, 15) = 0 /\ BitOr0(p, 16, 16) = 1
      /\ BitOr0(p, 16, 17) = 0 /\ BitOr0(p, 16, 18) = 0 /\ BitOr0(p, 16, 19) = 0
  BY <1>1, Poly16
<1>3. PICK y : y = RowOf(crc16_table, b1, b2, b3, b4)
  OBVIOUS
<1>4. CASE b1 = 0 /\ b2 = 0 /\ b3 = 0 /\ b4 = 0
  <2>1. y \in Text(2) /\ y[1] = 0 /\ y[2] = 0
    BY <1>3, <1>4 DEF RowOf, crc16_table, Text, Byte
  <2>2. RowFits(Bits(y), p, 16, 0, 0, 0, 0)
    BY <1>2, <2>1, BitsOf2 DEF RowFits
  <2>3. QED
    BY <1>1, <1>3, <1>4, <2>2
<1>5. CASE b1 = 0 /\ b2 = 0 /\ b3 = 0 /\ b4 = 1
  <2>1. y \in Text(2) /\ y[1] = 16 /\ y[2] = 33
    BY <1>3, <1>5 DEF RowOf, crc16_table, Text, Byte
  <2>2. RowFits(Bits(y), p, 16, 0, 0, 0, 1)
    BY <1>2, <2>1, BitsOf2 DEF RowFits
  <2>3. QED
    BY <1>1, <1>3, <1>5, <2>2
<1>6. CASE b1 = 0 /\ b2 = 0 /\ b3 = 1 /\ b4 = 0
  <2>1. y \in Text(2) /\ y[1] = 32 /\ y[2] = 66
    BY <1>3, <1>6 DEF RowOf, crc16_table, Text, Byte
  <2>2. RowFits(Bits(y), p, 16, 0, 0, 1, 0)
    BY <1>2, <2>1, BitsOf2 DEF RowFits
  <2>3. QED
    BY <1>1, <1>3, <1>6, <2>2
<1>7. CASE b1 = 0 /\ b2 = 0 /\ b3 = 1 /\ b4 = 1
  <2>1. y \in Text(2) /\ y[1] = 48 /\ y[2] = 99
    BY <1>3, <1>7 DEF RowOf, crc16_table, Text, Byte
  <2>2. RowFits(Bits(y), p, 16, 0, 0, 1, 1)
    BY <1>2, <2>1, BitsOf2 DEF RowFits
  <2>3. QED
    BY <1>1, <1>3, <1>7, <2>2
<1>8. CASE b1 = 0 /\ b2 = 1 /\ b3 = 0 /\ b4 = 0
  <2>1. y \in Text(2) /\ y[1] = 64 /\ y[2] = 132
    BY <1>3, <1>8 DEF RowOf, crc16_table, Text, Byte
  <2>2. RowFits(Bits(y), p, 16, 0, 1, 0, 0)
    BY <1>2, <2>1, BitsOf2 DEF RowFits
  <2>3. QED
    BY <1>1, <1>3, <1>8, <2>2
<1>9. CASE b1 = 0 /\ b2 = 1 /\ b3 = 0 /\ b4 = 1
  <2>1. y \in Text(2) /\ y[1] = 80 /\ y[2] = 165
    BY <1>3, <1>9 DEF RowOf, crc16_table, Text, Byte
  <2>2. RowFits(Bits(y), p, 16, 0, 1, 0, 1)
    BY <1>2, <2>1, BitsOf2 DEF RowFits
  <2>3. QED
    BY <1>1, <1>3, <1>9, <2>2
<1>10. CASE b1 = 0 /\ b2 = 1 /\ b3 = 1 /\ b4 = 0
  <2>1. y \in Text(2) /\ y[1] = 96 /\ y[2] = 198
    BY <1>3, <1>10 DEF RowOf, crc16_table, Text, Byte
  <2>2. RowFits(Bits(y), p, 16, 0, 1, 1, 0)
    BY <1>2, <2>1, BitsOf2 DEF RowFits
  <2>3. QED
    BY <1>1, <1>3, <1>10, <2>2
<1>11. CASE b1 = 0 /\ b2 = 1 /\ b3 = 1 /\ b4 = 1
  <2>1. y \in Text(2) /\ y[1] = 112 /\ y[2] = 231
    BY <1>3, <1>11 DEF RowOf, crc16_table, Text, Byte
  <2>2. RowFits(Bits(y), p, 16, 0, 1, 1, 1)
    BY <1>2, <2>1, BitsOf2 DEF RowFits
  <2>3. QED
    BY <1>1, <1>3, <1>11, <2>2
<1>12. CASE b1 = 1 /\ b2 = 0 /\ b3 = 0 /\ b4 = 0
  <2>1. y \in Text(2) /\ y[1] = 129 /\ y[2] = 8
    BY <1>3, <1>12 DEF RowOf, crc16_table, Text, Byte
  <2>2. RowFits(Bits(y), p, 16, 1, 0, 0, 0)
    BY <1>2, <2>1, BitsOf2 DEF RowFits
  <2>3. QED
    BY <1>1, <1>3, <1>12, <2>2
<1>13. CASE b1 = 1 /\ b2 = 0 /\ b3 = 0 /\ b4 = 1
  <2>1. y \in Text(2) /\ y[1] = 145 /\ y[2] = 41
    BY <1>3, <1>13 DEF RowOf, crc16_table, Text, Byte
  <2>2. RowFits(Bits(y), p, 16, 1, 0, 0, 1)
    BY <1>2, <2>1, BitsOf2 DEF RowFits
  <2>3. QED
    BY <1>1, <1>3, <1>13, <2>2
<1>14. CASE b1 = 1 /\ b2 = 0 /\ b3 = 1 /\ b4 = 0
  <2>1. y \in Text(2) /\ y[1] = 161 /\ y[2] = 74
    BY <1>3, <1>14 DEF RowOf, crc16_table, Text, Byte
  <2>2. RowFits(Bits(y), p, 16, 1, 0, 1, 0)
    BY <1>2, <2>1, BitsOf2 DEF RowFits
  <2>3. QED
    BY <1>1, <1>3, <1>14, <2>2
<1>15. CASE b1 = 1 /\ b2 = 0 /\ b3 = 1 /\ b4 = 1
  <2>1. y \in Text(2) /\ y[1] = 177 /\ y[2] = 107
    BY <1>3, <1>15 DEF RowOf, crc16_table, Text, Byte
  <2>2. RowFits(Bits(y), p, 16, 1, 0, 1, 1)
    BY <1>2, <2>1, BitsOf2 DEF RowFits
  <2>3. QED
    BY <1>1, <1>3, <1>15, <2>2
<1>16. CASE b1 = 1 /\ b2 = 1 /\ b3 = 0 /\ b4 = 0
  <2>1. y \in Text(2) /\ y[1] = 193 /\ y[2] = 140
    BY <1>3, <1>16 DEF RowOf, crc16_table, Text, Byte
  <2>2. RowFits(Bits(y), p, 16, 1, 1, 0, 0)
    BY <1>2, <2>1, BitsOf2 DEF RowFits
  <2>3. QED
    BY <1>1, <1>3, <1>16, <2>2
<1>17. CASE b1 = 1 /\ b2 = 1 /\ b3 = 0 /\ b4 = 1
  <2>1. y \in Text(2) /\ y[1] = 209 /\ y[2] = 173
    BY <1>3, <1>17 DEF RowOf, crc16_table, Text, Byte
  <2>2. RowFits(Bits(y), p, 16, 1, 1, 0, 1)
    BY <1>2, <2>1, BitsOf2 DEF RowFits
  <2>3. QED
    BY <1>1, <1>3, <1>17, <2>2
<1>18. CASE b1 = 1 /\ b2 = 1 /\ b3 = 1 /\ b4 = 0
  <2>1. y \in Text(2) /\ y[1] = 225 /\ y[2] = 206
    BY <1>3, <1>18 DEF RowOf, crc16_table, Text, Byte
  <2>2. RowFits(Bits(y), p, 16, 1, 1, 1, 0)
    BY <1>2, <2>1, BitsOf2 DEF RowFits
  <2>3. QED
    BY <1>1, <1>3, <1>18, <2>2
<1>19. CASE b1 = 1 /\ b2 = 1 /\ b3 = 1 /\ b4 = 1
  <2>1. y \in Text(2) /\ y[1] = 241 /\ y[2] = 239
    BY <1>3, <1>19 DEF RowOf, crc16_table, Text, Byte
  <2>2. RowFits(Bits(y), p, 16, 1, 1, 1, 1)
    BY <1>2, <2>1, BitsOf2 DEF RowFits
  <2>3. QED
    BY <1>1, <1>3, <1>19, <2>2
<1>20. QED
  BY <1>4, <1>5, <1>6, <1>7, <1>8, <1>9, <1>10, <1>11, <1>12, <1>13, <1>14, <1>15, <1>16, <1>17, <1>18, <1>19

LEMMA Poly32 ==
  /\ CRC32_POLY \in Word(32) /\ CRC32_POLY[1] = 0 /\ CRC32_POLY[2] = 0 /\ CRC32_POLY[3] = 0
  /\ BitOr0(CRC32_POLY, 32, 1) = 0 /\ BitOr0(CRC32_POLY, 32, 2) = 0 /\ BitOr0(CRC32_POLY, 32, 3) = 0
  /\ BitOr0(CRC32_POLY, 32, 4) = 0 /\ BitOr0(CRC32_POLY, 32, 5) = 0 /\ BitOr0(CRC32_POLY, 32, 6) = 1
  /\ BitOr0(CRC32_POLY, 32, 7) = 0 /\ BitOr0(CRC32_POLY, 32, 8) = 0 /\ BitOr0(CRC32_POLY, 32, 9) = 1
  /\ BitOr0(CRC32_POLY, 32, 10) = 1 /\ BitOr0(CRC32_POLY, 32, 11) = 0 /\ BitOr0(CRC32_POLY, 32, 12) = 0
  /\ BitOr0(CRC32_POLY, 32, 13) = 0 /\ BitOr0(CRC32_POLY, 32, 14) = 0 /\ BitOr0(CRC32_POLY, 32, 15) = 0
  /\ BitOr0(CRC32_POLY, 32, 16) = 1 /\ BitOr0(CRC32_POLY, 32, 17) = 0 /\ BitOr0(CRC32_POLY, 32, 18) = 0
  /\ BitOr0(CRC32_POLY, 32, 19) = 0 /\ BitOr0(CRC32_POLY, 32, 20) = 1 /\ BitOr0(CRC32_POLY, 32, 21) = 1
  /\ BitOr0(CRC32_POLY, 32, 22) = 1 /\ BitOr0(CRC32_POLY, 32, 23) = 0 /\ BitOr0(CRC32_POLY, 32, 24) = 1
  /\ BitOr0(CRC32_POLY, 32, 25) = 1 /\ BitOr0(CRC32_POLY, 32, 26) = 0 /\ BitOr0(CRC32_POLY, 32, 27) = 1
  /\ BitOr0(CRC32_POLY, 32, 28) = 1 /\ BitOr0(CRC32_POLY, 32, 29) = 0 /\ BitOr0(CRC32_POLY, 32, 30) = 1
  /\ BitOr0(CRC32_POLY, 32, 31) = 1 /\ BitOr0(CRC32_POLY, 32, 32) = 1 /\ BitOr0(CRC32_POLY, 32, 33) = 0
  /\ BitOr0(CRC32_POLY, 32, 34) = 0 /\ BitOr0(CRC32_POLY, 32, 35) = 0
<1>1. PICK y : y = <<237, 184, 131, 32>>
  OBVIOUS
<1>2. y \in Text(4) /\ y[1] = 237 /\ y[2] = 184 /\ y[3] = 131 /\ y[4] = 32
  BY <1>1 DEF Text, Byte
<1>3. QED
  BY <1>1, <1>2, BackOf4 DEF BitOr0, CRC32_POLY

LEMMA Rows32 ==
  ASSUME NEW b1 \in {0, 1}, NEW b2 \in {0, 1}, NEW b3 \in {0, 1}, NEW b4 \in {0, 1}
  PROVE  RowFits(Reverse(Bits(RowOf(crc32_table, b4, b3, b2, b1))), CRC32_POLY, 32, b1, b2, b3, b4)
<1>1. PICK p : p = CRC32_POLY
  OBVIOUS
<1>2. /\ BitOr0(p, 32, 1) = 0 /\ BitOr0(p, 32, 2) = 0 /\ BitOr0(p, 32, 3) = 0 /\ BitOr0(p, 32, 4) = 0
      /\ BitOr0(p, 32, 5) = 0 /\ BitOr0(p, 32, 6) = 1 /\ BitOr0(p, 32, 7) = 0 /\ BitOr0(p, 32, 8) = 0
      /\ BitOr0(p, 32, 9) = 1 /\ BitOr0(p, 32, 10) = 1 /\ BitOr0(p, 32, 11) = 0 /\ BitOr0(p, 32, 12) = 0
      /\ BitOr0(p, 32, 13) = 0 /\ BitOr0(p, 32, 14) = 0 /\ BitOr0(p, 32, 15) = 0 /\ BitOr0(p, 32, 16) = 1
      /\ BitOr0(p, 32, 17) = 0 /\ BitOr0(p, 32, 18) = 0 /\ BitOr0(p, 32, 19) = 0 /\ BitOr0(p, 32, 20) = 1
      /\ BitOr0(p, 32, 21) = 1 /\ BitOr0(p, 32, 22) = 1 /\ BitOr0(p, 32, 23) = 0 /\ BitOr0(p, 32, 24) = 1
      /\ BitOr0(p, 32, 25) = 1 /\ BitOr0(p, 32, 26) = 0 /\ BitOr0(p, 32, 27) = 1 /\ BitOr0(p, 32, 28) = 1
      /\ BitOr0(p, 32, 29) = 0 /\ BitOr0(p, 32, 30) = 1 /\ BitOr0(p, 32, 31) = 1 /\ BitOr0(p, 32, 32) = 1
      /\ BitOr0(p, 32, 33) = 0 /\ BitOr0(p, 32, 34) = 0 /\ BitOr0(p, 32, 35) = 0
  BY <1>1, Poly32
<1>3. PICK y : y = RowOf(crc32_table, b4, b3, b2, b1)
  OBVIOUS
<1>4. CASE b1 = 0 /\ b2 = 0 /\ b3 = 0 /\ b4 = 0
  <2>1. y \in Text(4) /\ y[1] = 0 /\ y[2] = 0 /\ y[3] = 0 /\ y[4] = 0
    BY <1>3, <1>4 DEF RowOf, crc32_table, Text, Byte
  <2>2. RowFits(Reverse(Bits(y)), p, 32, 0, 0, 0, 0)
    BY <1>2, <2>1, BackOf4 DEF RowFits
  <2>3. QED
    BY <1>1, <1>3, <1>4, <2>2
<1>5. CASE b1 = 0 /\ b2 = 0 /\ b3 = 0 /\ b4 = 1
  <2>1. y \in Text(4) /\ y[1] = 237 /\ y[2] = 184 /\ y[3] = 131 /\ y[4] = 32
    BY <1>3, <1>5 DEF RowOf, crc32_table, Text, Byte
  <2>2. RowFits(Reverse(Bits(y)), p, 32, 0, 0, 0, 1)
    BY <1>2, <2>1, BackOf4 DEF RowFits
  <2>3. QED
    BY <1>1, <1>3, <1>5, <2>2
<1>6. CASE b1 = 0 /\ b2 = 0 /\ b3 = 1 /\ b4 = 0
  <2>1. y \in Text(4) /\ y[1] = 118 /\ y[2] = 220 /\ y[3] = 65 /\ y[4] = 144
    BY <1>3, <1>6 DEF RowOf, crc32_table, Text, Byte
  <2>2. RowFits(Reverse(Bits(y)), p, 32, 0, 0, 1, 0)
    BY <1>2, <2>1, BackOf4 DEF RowFits
  <2>3. QED
    BY <1>1, <1>3, <1>6, <2>2
<1>7. CASE b1 = 0 /\ b2 = 0 /\ b3 = 1 /\ b4 = 1
  <2>1. y \in Text(4) /\ y[1] = 155 /\ y[2] = 100 /\ y[3] = 194 /\ y[4] = 176
    BY <1>3, <1>7 DEF RowOf, crc32_table, Text, Byte
  <2>2. RowFits(Reverse(Bits(y)), p, 32, 0, 0, 1, 1)
    BY <1>2, <2>1, BackOf4 DEF RowFits
  <2>3. QED
    BY <1>1, <1>3, <1>7, <2>2
<1>8. CASE b1 = 0 /\ b2 = 1 /\ b3 = 0 /\ b4 = 0
  <2>1. y \in Text(4) /\ y[1] = 59 /\ y[2] = 110 /\ y[3] = 32 /\ y[4] = 200
    BY <1>3, <1>8 DEF RowOf, crc32_table, Text, Byte
  <2>2. RowFits(Reverse(Bits(y)), p, 32, 0, 1, 0, 0)
    BY <1>2, <2>1, BackOf4 DEF RowFits
  <2>3. QED
    BY <1>1, <1>3, <1>8, <2>2
<1>9. CASE b1 = 0 /\ b2 = 1 /\ b3 = 0 /\ b4 = 1
  <2>1. y \in Text(4) /\ y[1] = 214 /\ y[2] = 214 /\ y[3] = 163 /\ y[4] = 232
    BY <1>3, <1>9 DEF RowOf, crc32_table, Text, Byte
  <2>2. RowFits(Reverse(Bits(y)), p, 32, 0, 1, 0, 1)
    BY <1>2, <2>1, BackOf4 DEF RowFits
  <2>3. QED
    BY <1>1, <1>3, <1>9, <2>2
<1>10. CASE b1 = 0 /\ b2 = 1 /\ b3 = 1 /\ b4 = 0
  <2>1. y \in Text(4) /\ y[1] = 77 /\ y[2] = 178 /\ y[3] = 97 /\ y[4] = 88
    BY <1>3, <1>10 DEF RowOf, crc32_table, Text, Byte
  <2>2. RowFits(Reverse(Bits(y)), p, 32, 0, 1, 1, 0)
    BY <1>2, <2>1, BackOf4 DEF RowFits
  <2>3. QED
    BY <1>1, <1>3, <1>10, <2>2
<1>11. CASE b1 = 0 /\ b2 = 1 /\ b3 = 1 /\ b4 = 1
  <2>1. y \in Text(4) /\ y[1] = 160 /\ y[2] = 10 /\ y[3] = 226 /\ y[4] = 120
    BY <1>3, <1>11 DEF RowOf, crc32_table, Text, Byte
  <2>2. RowFits(Reverse(Bits(y)), p, 32, 0, 1, 1, 1)
    BY <1>2, <2>1, BackOf4 DEF RowFits
  <2>3. QED
    BY <1>1, <1>3, <1>11, <2>2
<1>12. CASE b1 = 1 /\ b2 = 0 /\ b3 = 0 /\ b4 = 0
  <2>1. y \in Text(4) /\ y[1] = 29 /\ y[2] = 183 /\ y[3] = 16 /\ y[4] = 100
    BY <1>3, <1>12 DEF RowOf, crc32_table, Text, Byte
  <2>2. RowFits(Reverse(Bits(y)), p, 32, 1, 0, 0, 0)
    BY <1>2, <2>1, BackOf4 DEF RowFits
  <2>3. QED
    BY <1>1, <1>3, <1>12, <2>2
<1>13. CASE b1 = 1 /\ b2 = 0 /\ b3 = 0 /\ b4 = 1
  <2>1. y \in Text(4) /\ y[1] = 240 /\ y[2] = 15 /\ y[3] = 147 /\ y[4] = 68
    BY <1>3, <1>13 DEF RowOf, crc32_table, Text, Byte
  <2>2. RowFits(Reverse(Bits(y)), p, 32, 1, 0, 0, 1)
    BY <1>2, <2>1, BackOf4 DEF RowFits
  <2>3. QED
    BY <1>1, <1>3, <1>13, <2>2
<1>14. CASE b1 = 1 /\ b2 = 0 /\ b3 = 1 /\ b4 = 0
  <2>1. y \in Text(4) /\ y[1] = 107 /\ y[2] = 107 /\ y[3] = 81 /\ y[4] = 244
    BY <1>3, <1>14 DEF RowOf, crc32_table, Text, Byte
  <2>2. RowFits(Reverse(Bits(y)), p, 32, 1, 0, 1, 0)
    BY <1>2, <2>1, BackOf4 DEF RowFits
  <2>3. QED
    BY <1>1, <1>3, <1>14, <2>2
<1>15. CASE b1 = 1 /\ b2 = 0 /\ b3 = 1 /\ b4 = 1
  <2>1. y \in Text(4) /\ y[1] = 134 /\ y[2] = 211 /\ y[3] = 210 /\ y[4] = 212
    BY <1>3, <1>15 DEF RowOf, crc32_table, Text, Byte
  <2>2. RowFits(Reverse(Bits(y)), p, 32, 1, 0, 1, 1)
    BY <1>2, <2>1, BackOf4 DEF RowFits
  <2>3. QED
    BY <1>1, <1>3, <1>15, <2>2
<1>16. CASE b1 = 1 /\ b2 = 1 /\ b3 = 0 /\ b4 = 0
  <2>1. y \in Text(4) /\ y[1] = 38 /\ y[2] = 217 /\ y[3] = 48 /\ y[4] = 172
    BY <1>3, <1>16 DEF RowOf, crc32_table, Text, Byte
  <2>2. RowFits(Reverse(Bits(y)), p, 32, 1, 1, 0, 0)
    BY <1>2, <2>1, BackOf4 DEF RowFits
  <2>3. QED
    BY <1>1, <1>3, <1>16, <2>2
<1>17. CASE b1 = 1 /\ b2 = 1 /\ b3 = 0 /\ b4 = 1
  <2>1. y \in Text(4) /\ y[1] = 203 /\ y[2] = 97 /\ y[3] = 179 /\ y[4] = 140
    BY <1>3, <1>17 DEF RowOf, crc32_table, Text, Byte
  <2>2. RowFits(Reverse(Bits(y)), p, 32, 1, 1, 0, 1)
    BY <1>2, <2>1, BackOf4 DEF RowFits
  <2>3. QED
    BY <1>1, <1>3, <1>17, <2>2
<1>18. CASE b1 = 1 /\ b2 = 1 /\ b3 = 1 /\ b4 = 0
  <2>1. y \in Text(4) /\ y[1] = 80 /\ y[2] = 5 /\ y[3] = 113 /\ y[4] = 60
    BY <1>3, <1>18 DEF RowOf, crc32_table, Text, Byte
  <2>2. RowFits(Reverse(Bits(y)), p, 32, 1, 1, 1, 0)
    BY <1>2, <2>1, BackOf4 DEF RowFits
  <2>3. QED
    BY <1>1, <1>3, <1>18, <2>2
<1>19. CASE b1 = 1 /\ b2 = 1 /\ b3 = 1 /\ b4 = 1
  <2>1. y \in Text(4) /\ y[1] = 189 /\ y[2] = 189 /\ y[3] = 242 /\ y[4] = 28
    BY <1>3, <1>19 DEF RowOf, crc32_table, Text, Byte
  <2>2. RowFits(Reverse(Bits(y)), p, 32, 1, 1, 1, 1)
    BY <1>2, <2>1, BackOf4 DEF RowFits
  <2>3. QED
    BY <1>1, <1>3, <1>19, <2>2
<1>20. QED
  BY <1>4, <1>5, <1>6, <1>7, <1>8, <1>9, <1>10, <1>11, <1>12, <1>13, <1>14, <1>15, <1>16, <1>17, <1>18, <1>19

LEMMA BackOf1 ==
  ASSUME NEW y \in Text(1)
  PROVE  Reverse(Bits(y)) \in Word(8)
<1>1. PICK b \in Word(8) : b = Bits(y)
  BY BitsOf1
<1>2. 8 \in Nat
  OBVIOUS
<1>3. QED
  BY <1>1, <1>2, ReverseIs

LEMMA Crc8Is ==
  ASSUME NEW c \in Word(8), NEW v \in Byte
  PROVE  Crc8(c, v) \in Word(8) /\ Crc8(c, v) = BitByBit(c, CRC8_POLY, Bits(<<v>>))
<1>1. 8 \in Nat /\ 8 >= 8
  OBVIOUS
<1>2. PICK p \in Word(8) : p = CRC8_POLY /\ p[1] = 0 /\ p[2] = 0 /\ p[3] = 0
  BY Poly8
<1>3. PICK y : y = <<v>>
  OBVIOUS
<1>4. y \in Text(1)
  BY <1>3 DEF Text
<1>5. PICK b \in Word(8) : b = Bits(y)
  BY <1>4, BitsOf1
<1>6. PICK x \in Word(8) : x = Added(c, b)
  BY <1>1, AddedIs
<1>7. ASSUME NEW d \in Word(8)
      PROVE  /\ Shifted(d, Bits(<<RowOf(crc8_table, d[1], d[2], d[3], d[4])>>)) \in Word(8)
             /\ Shifted(d, Bits(<<RowOf(crc8_table, d[1], d[2], d[3], d[4])>>)) = FourBits(d, p)
  <2>1. PICK r : r = Bits(<<RowOf(crc8_table, d[1], d[2], d[3], d[4])>>)
    OBVIOUS
  <2>2. 1 \in 1 .. 8 /\ 2 \in 1 .. 8 /\ 3 \in 1 .. 8 /\ 4 \in 1 .. 8
    OBVIOUS
  <2>3. d[1] \in {0, 1} /\ d[2] \in {0, 1} /\ d[3] \in {0, 1} /\ d[4] \in {0, 1}
    BY <2>2 DEF Word
  <2>4. RowFits(r, p, 8, d[1], d[2], d[3], d[4])
    BY <1>2, <2>1, <2>3, Rows8
  <2>5. QED
    BY <1>1, <1>2, <2>1, <2>4, HalfIs
<1>8. PICK z \in Word(8) : z = Shifted(x, Bits(<<RowOf(crc8_table, x[1], x[2], x[3], x[4])>>)) /\ z = FourBits(x, p)
  BY <1>7
<1>9. PICK u \in Word(8) : u = Shifted(z, Bits(<<RowOf(crc8_table, z[1], z[2], z[3], z[4])>>)) /\ u = FourBits(z, p)
  BY <1>7
<1>10. u = Crc8(c, v)
  BY <1>3, <1>5, <1>6, <1>8, <1>9 DEF Crc8
<1>11. u = BitByBit(c, p, b)
  BY <1>6, <1>8, <1>9 DEF BitByBit
<1>12. QED
  BY <1>2, <1>3, <1>5, <1>10, <1>11

LEMMA Crc16Is ==
  ASSUME NEW c \in Word(16), NEW v \in Byte
  PROVE  Crc16(c, v) \in Word(16) /\ Crc16(c, v) = BitByBit(c, CRC16_POLY, Bits(<<v>>))
<1>1. 16 \in Nat /\ 16 >= 8
  OBVIOUS
<1>2. PICK p \in Word(16) : p = CRC16_POLY /\ p[1] = 0 /\ p[2] = 0 /\ p[3] = 0
  BY Poly16
<1>3. PICK y : y = <<v>>
  OBVIOUS
<1>4. y \in Text(1)
  BY <1>3 DEF Text
<1>5. PICK b \in Word(8) : b = Bits(y)
  BY <1>4, BitsOf1
<1>6. PICK x \in Word(16) : x = Added(c, b)
  BY <1>1, AddedIs
<1>7. ASSUME NEW d \in Word(16)
      PROVE  /\ Shifted(d, Bits(RowOf(crc16_table, d[1], d[2], d[3], d[4]))) \in Word(16)
             /\ Shifted(d, Bits(RowOf(crc16_table, d[1], d[2], d[3], d[4]))) = FourBits(d, p)
  <2>1. PICK r : r = Bits(RowOf(crc16_table, d[1], d[2], d[3], d[4]))
    OBVIOUS
  <2>2. 1 \in 1 .. 16 /\ 2 \in 1 .. 16 /\ 3 \in 1 .. 16 /\ 4 \in 1 .. 16
    OBVIOUS
  <2>3. d[1] \in {0, 1} /\ d[2] \in {0, 1} /\ d[3] \in {0, 1} /\ d[4] \in {0, 1}
    BY <2>2 DEF Word
  <2>4. RowFits(r, p, 16, d[1], d[2], d[3], d[4])
    BY <1>2, <2>1, <2>3, Rows16
  <2>5. QED
    BY <1>1, <1>2, <2>1, <2>4, HalfIs
<1>8. PICK z \in Word(16) : z = Shifted(x, Bits(RowOf(crc16_table, x[1], x[2], x[3], x[4]))) /\ z = FourBits(x, p)
  BY <1>7
<1>9. PICK u \in Word(16) : u = Shifted(z, Bits(RowOf(crc16_table, z[1], z[2], z[3], z[4]))) /\ u = FourBits(z, p)
  BY <1>7
<1>10. u = Crc16(c, v)
  BY <1>3, <1>5, <1>6, <1>8, <1>9 DEF Crc16
<1>11. u = BitByBit(c, p, b)
  BY <1>6, <1>8, <1>9 DEF BitByBit
<1>12. QED
  BY <1>2, <1>3, <1>5, <1>10, <1>11

LEMMA Crc32Is ==
  ASSUME NEW c \in Word(32), NEW v \in Byte
  PROVE  Crc32(c, v) \in Word(32) /\ Crc32(c, v) = BitByBit(c, CRC32_POLY, Reverse(Bits(<<v>>)))
<1>1. 32 \in Nat /\ 32 >= 8
  OBVIOUS
<1>2. PICK p \in Word(32) : p = CRC32_POLY /\ p[1] = 0 /\ p[2] = 0 /\ p[3] = 0
  BY Poly32
<1>3. PICK y : y = <<v>>
  OBVIOUS
<1>4. y \in Text(1)
  BY <1>3 DEF Text
<1>5. PICK b \in Word(8) : b = Reverse(Bits(y))
  BY <1>4, BackOf1
<1>6. PICK x \in Word(32) : x = Added(c, b)
  BY <1>1, AddedIs
<1>7. ASSUME NEW d \in Word(32)
      PROVE  /\ Shifted(d, Reverse(Bits(RowOf(crc32_table, d[4], d[3], d[2], d[1])))) \in Word(32)
             /\ Shifted(d, Reverse(Bits(RowOf(crc32_table, d[4], d[3], d[2], d[1])))) = FourBits(d, p)
  <2>1. PICK r : r = Reverse(Bits(RowOf(crc32_table, d[4], d[3], d[2], d[1])))
    OBVIOUS
  <2>2. 1 \in 1 .. 32 /\ 2 \in 1 .. 32 /\ 3 \in 1 .. 32 /\ 4 \in 1 .. 32
    OBVIOUS
  <2>3. d[1] \in {0, 1} /\ d[2] \in {0, 1} /\ d[3] \in {0, 1} /\ d[4] \in {0, 1}
    BY <2>2 DEF Word
  <2>4. RowFits(r, p, 32, d[1], d[2], d[3], d[4])
    BY <1>2, <2>1, <2>3, Rows32
  <2>5. QED
    BY <1>1, <1>2, <2>1, <2>4, HalfIs
<1>8. PICK z \in Word(32) : z = Shifted(x, Reverse(Bits(RowOf(crc32_table, x[4], x[3], x[2], x[1])))) /\ z = FourBits(x, p)
  BY <1>7
<1>9. PICK u \in Word(32) : u = Shifted(z, Reverse(Bits(RowOf(crc32_table, z[4], z[3], z[2], z[1])))) /\ u = FourBits(z, p)
  BY <1>7
<1>10. u = Crc32(c, v)
  BY <1>3, <1>5, <1>6, <1>8, <1>9 DEF Crc32
<1>11. u = BitByBit(c, p, b)
  BY <1>6, <1>8, <1>9 DEF BitByBit
<1>12. QED
  BY <1>2, <1>3, <1>5, <1>10, <1>11

-----------------------------------------------------------------------------
(* Two rows that start alike and take every step alike are alike. *)
StepAlike(t, u, n) == t[0] = u[0] /\ \A k \in 1 .. n : t[k - 1] = u[k - 1] => t[k] = u[k]
Alike(t, u, n) == \A k \in 0 .. n : t[k] = u[k]

LEMMA SameSteps ==
  ASSUME NEW n \in Nat, NEW t, NEW u, StepAlike(t, u, n)
  PROVE  Alike(t, u, n)
<1>0. t[0] = u[0] /\ \A k \in 1 .. n : t[k - 1] = u[k - 1] => t[k] = u[k]
  BY DEF StepAlike
<1>1. PICK T : T = {k \in 0 .. n : t[k] # u[k]}
  OBVIOUS
<1>2. CASE T # {}
  <2>1. T \subseteq Nat
    BY <1>1
  <2>2. PICK k \in T : \A m \in T : k <= m
    BY <1>2, <2>1, Least
  <2>3. k \in 1 .. n /\ t[k] # u[k]
    BY <1>0, <1>1
  <2>4. k - 1 \in 0 .. n /\ k - 1 \notin T
    BY <2>2, <2>3
  <2>5. t[k - 1] = u[k - 1]
    BY <1>1, <2>4
  <2>6. QED
    BY <1>0, <2>3, <2>5
<1>3. QED
  BY <1>1, <1>2 DEF Alike

-----------------------------------------------------------------------------
(* The check sums of a row of bytes, one after the other. *)
Crcs == [crc8 : Word(8), crc16 : Word(16), crc32 : Word(32)]

CrcMore(crc, byte) ==
  [crc8  |-> BitByBit(crc.crc8, CRC8_POLY, Bits(<<byte>>)),
   crc16 |-> BitByBit(crc.crc16, CRC16_POLY, Bits(<<byte>>)),
   crc32 |-> BitByBit(crc.crc32, CRC32_POLY, Reverse(Bits(<<byte>>)))]

LEMMA CrcStepIs ==
  ASSUME NEW crc \in Crcs, NEW b \in Byte
  PROVE  CrcStep(crc, b) = CrcMore(crc, b) /\ CrcMore(crc, b) \in Crcs
<1>1. PICK c \in Word(8) : c = crc.crc8
  BY DEF Crcs
<1>2. PICK d \in Word(16) : d = crc.crc16
  BY DEF Crcs
<1>3. PICK e \in Word(32) : e = crc.crc32
  BY DEF Crcs
<1>4. PICK x \in Word(8) : x = Crc8(c, b) /\ x = BitByBit(c, CRC8_POLY, Bits(<<b>>))
  BY Crc8Is
<1>5. PICK y \in Word(16) : y = Crc16(d, b) /\ y = BitByBit(d, CRC16_POLY, Bits(<<b>>))
  BY Crc16Is
<1>6. PICK z \in Word(32) : z = Crc32(e, b) /\ z = BitByBit(e, CRC32_POLY, Reverse(Bits(<<b>>)))
  BY Crc32Is
<1>7. CrcStep(crc, b) = [crc8 |-> x, crc16 |-> y, crc32 |-> z]
  BY <1>1, <1>2, <1>3, <1>4, <1>5, <1>6 DEF CrcStep
<1>8. CrcMore(crc, b) = [crc8 |-> x, crc16 |-> y, crc32 |-> z]
  BY <1>1, <1>2, <1>3, <1>4, <1>5, <1>6 DEF CrcMore
<1>9. [crc8 |-> x, crc16 |-> y, crc32 |-> z] \in Crcs
  BY DEF Crcs
<1>10. QED
  BY <1>7, <1>8, <1>9

LEMMA CrcInitIs == CrcInit \in Crcs
<1>1. PICK x : x = <<255>>
  OBVIOUS
<1>2. PICK y : y = <<255, 255>>
  OBVIOUS
<1>3. PICK z : z = <<255, 255, 255, 255>>
  OBVIOUS
<1>4. x \in Text(1) /\ y \in Text(2) /\ z \in Text(4)
  BY <1>1, <1>2, <1>3 DEF Text, Byte
<1>5. PICK u \in Word(8) : u = Bits(x)
  BY <1>4, BitsOf1
<1>6. PICK v \in Word(16) : v = Bits(y)
  BY <1>4, BitsOf2
<1>7. PICK w \in Word(32) : w = Bits(z)
  BY <1>4, BitsOf4
<1>8. QED
  BY <1>1, <1>2, <1>3, <1>5, <1>6, <1>7 DEF CrcInit, Crcs

CrcFrom(t, bytes) ==
  t = [n \in 0 .. Len(bytes) |-> IF n = 0 THEN CrcInit ELSE CrcMore(t[n - 1], bytes[n])]

IsCrcs(t, bytes) ==
  /\ t \in [0 .. Len(bytes) -> Crcs] /\ t[0] = CrcInit
  /\ \A k \in 1 .. Len(bytes) : t[k] = CrcMore(t[k - 1], bytes[k])

LEMMA CrcsAre ==
  ASSUME NEW bytes \in Seq(Byte)
  PROVE  \E t : IsCrcs(t, bytes) /\ CrcOf(bytes) = t[Len(bytes)]
<1>1. PICK l \in Nat : l = Len(bytes)
  OBVIOUS
<1>2. PICK G : G = [k \in 1 .. l |-> [x \in Crcs |-> CrcMore(x, bytes[k])]]
  OBVIOUS
<1>3. ASSUME NEW k \in 1 .. l, NEW x \in Crcs PROVE CrcMore(x, bytes[k]) \in Crcs
  <2>1. PICK b \in Byte : b = bytes[k]
    BY <1>1
  <2>2. CrcMore(x, b) \in Crcs
    BY CrcStepIs
  <2>3. QED
    BY <2>1, <2>2
<1>4. G \in [1 .. l -> [Crcs -> Crcs]]
  BY <1>2, <1>3
<1>5. PICK g \in [0 .. l -> Crcs] : Steps(g, l, CrcInit, G)
  BY <1>4, CrcInitIs, StepsExist
<1>6. ASSUME NEW k \in 1 .. l PROVE G[k][g[k - 1]] = CrcMore(g[k - 1], bytes[k])
  <2>1. k - 1 \in 0 .. l
    OBVIOUS
  <2>2. PICK x \in Crcs : x = g[k - 1]
    BY <2>1
  <2>3. G[k][x] = CrcMore(x, bytes[k])
    BY <1>2
  <2>4. QED
    BY <2>2, <2>3
<1>7. \A k \in 0 .. l : (IF k = 0 THEN CrcInit ELSE G[k][g[k - 1]])
                          = IF k = 0 THEN CrcInit ELSE CrcMore(g[k - 1], bytes[k])
  BY <1>6
<1>8. CrcFrom(g, bytes)
  BY <1>1, <1>5, <1>7 DEF Steps, CrcFrom
<1>9. PICK t : t = CHOOSE x : CrcFrom(x, bytes)
  OBVIOUS
<1>10. CrcFrom(t, bytes)
  BY <1>8, <1>9
<1>11. CrcOf(bytes) = t[Len(bytes)]
  BY <1>9 DEF CrcOf, CrcMore, CrcFrom
<1>12. t[0] = CrcInit /\ \A k \in 1 .. l : t[k] = CrcMore(t[k - 1], bytes[k])
  BY <1>1, <1>10 DEF CrcFrom
<1>13. g[0] = CrcInit /\ \A k \in 1 .. l : g[k] = CrcMore(g[k - 1], bytes[k])
  BY <1>1, <1>8 DEF CrcFrom
<1>14. \A k \in 0 .. l : t[k] = g[k]
  <2>1. \A k \in 1 .. l : t[k - 1] = g[k - 1] => t[k] = g[k]
    BY <1>12, <1>13
  <2>2. t[0] = g[0] /\ l \in Nat
    BY <1>12, <1>13
  <2>3. StepAlike(t, g, l)
    BY <2>1, <2>2 DEF StepAlike
  <2>4. Alike(t, g, l)
    BY <2>3, SameSteps
  <2>5. QED
    BY <2>4 DEF Alike
<1>15. IsCrcs(g, bytes)
  BY <1>1, <1>13 DEF IsCrcs
<1>16. l \in 0 .. l
  OBVIOUS
<1>17. QED
  BY <1>1, <1>11, <1>14, <1>15, <1>16

(* One byte more. *)
LEMMA CrcOfMore ==
  /\ CrcOf(<<>>) = CrcInit
  /\ \A bytes \in Seq(Byte), b \in Byte : CrcOf(bytes \o <<b>>) = CrcMore(CrcOf(bytes), b)
<1>1. CrcOf(<<>>) = CrcInit
  <2>0. PICK s : s = <<>>
    OBVIOUS
  <2>1. s \in Seq(Byte) /\ s = <<>>
    BY <2>0
  <2>2. PICK t : IsCrcs(t, s) /\ CrcOf(s) = t[Len(s)]
    BY <2>1, CrcsAre
  <2>3. Len(s) = 0
    BY <2>1
  <2>4. QED
    BY <2>1, <2>2, <2>3 DEF IsCrcs
<1>2. ASSUME NEW bytes \in Seq(Byte), NEW b \in Byte
      PROVE  CrcOf(bytes \o <<b>>) = CrcMore(CrcOf(bytes), b)
  <2>0. PICK more : more = bytes \o <<b>>
    OBVIOUS
  <2>1. more \in Seq(Byte) /\ more = bytes \o <<b>>
    BY <2>0
  <2>2. PICK l \in Nat : l = Len(bytes)
    OBVIOUS
  <2>3. Len(more) = l + 1 /\ more[l + 1] = b /\ \A k \in 1 .. l : more[k] = bytes[k]
    BY <2>1, <2>2
  <2>4. PICK t : IsCrcs(t, bytes) /\ CrcOf(bytes) = t[Len(bytes)]
    BY CrcsAre
  <2>5. PICK u : IsCrcs(u, more) /\ CrcOf(more) = u[Len(more)]
    BY <2>1, CrcsAre
  <2>6. t[0] = CrcInit /\ \A k \in 1 .. l : t[k] = CrcMore(t[k - 1], bytes[k])
    BY <2>2, <2>4 DEF IsCrcs
  <2>7. u[0] = CrcInit /\ \A k \in 1 .. l + 1 : u[k] = CrcMore(u[k - 1], more[k])
    BY <2>3, <2>5 DEF IsCrcs
  <2>8. \A k \in 0 .. l : u[k] = t[k]
    <3>1. \A k \in 1 .. l : u[k - 1] = t[k - 1] => u[k] = t[k]
      BY <2>3, <2>6, <2>7
    <3>2. u[0] = t[0] /\ l \in Nat
      BY <2>6, <2>7
    <3>3. StepAlike(u, t, l)
      BY <3>1, <3>2 DEF StepAlike
    <3>4. Alike(u, t, l)
      BY <3>3, SameSteps
    <3>5. QED
      BY <3>4 DEF Alike
  <2>9. l + 1 \in 1 .. l + 1 /\ l + 1 - 1 = l /\ l \in 0 .. l
    OBVIOUS
  <2>10. u[l + 1] = CrcMore(t[l], b)
    BY <2>3, <2>7, <2>8, <2>9
  <2>11. QED
    BY <2>1, <2>2, <2>3, <2>4, <2>5, <2>10
<1>3. QED
  BY <1>1, <1>2

-----------------------------------------------------------------------------
(* The exclusive or of a row. *)
LEMMA XorAllMore ==
  /\ XorAll(<<>>) = 0
  /\ \A bytes \in Seq(Byte), b \in Byte :
       XorAll(bytes \o <<b>>) = XorBytes(XorAll(bytes), b) /\ XorAll(bytes) \in Byte
<1>1. \A bytes : CheckSum(bytes) = XorAll(bytes)
  BY DEF CheckSum
<1>2. XorAll(<<>>) = 0
  <2>0. PICK s : s = <<>>
    OBVIOUS
  <2>1. s \in Seq(Byte) /\ s = <<>>
    BY <2>0
  <2>2. PICK t : IsSums(t, s) /\ CheckSum(s) = t[Len(s)]
    BY <2>1, SumsAre
  <2>3. Len(s) = 0
    BY <2>1
  <2>4. QED
    BY <1>1, <2>1, <2>2, <2>3 DEF IsSums
<1>3. ASSUME NEW bytes \in Seq(Byte), NEW b \in Byte
      PROVE  XorAll(bytes \o <<b>>) = XorBytes(XorAll(bytes), b) /\ XorAll(bytes) \in Byte
  <2>0. PICK more : more = bytes \o <<b>>
    OBVIOUS
  <2>1. more \in Seq(Byte) /\ more = bytes \o <<b>>
    BY <2>0
  <2>2. PICK l \in Nat : l = Len(bytes)
    OBVIOUS
  <2>3. Len(more) = l + 1 /\ more[l + 1] = b /\ \A k \in 1 .. l : more[k] = bytes[k]
    BY <2>1, <2>2
  <2>4. PICK t : IsSums(t, bytes) /\ CheckSum(bytes) = t[Len(bytes)]
    BY SumsAre
  <2>5. PICK u : IsSums(u, more) /\ CheckSum(more) = u[Len(more)]
    BY <2>1, SumsAre
  <2>6. t[0] = 0 /\ \A k \in 1 .. l : t[k] = XorBytes(t[k - 1], bytes[k])
    BY <2>2, <2>4 DEF IsSums
  <2>7. u[0] = 0 /\ \A k \in 1 .. l + 1 : u[k] = XorBytes(u[k - 1], more[k])
    BY <2>3, <2>5 DEF IsSums
  <2>8. \A k \in 0 .. l : u[k] = t[k]
    <3>1. \A k \in 1 .. l : u[k - 1] = t[k - 1] => u[k] = t[k]
      BY <2>3, <2>6, <2>7
    <3>2. u[0] = t[0] /\ l \in Nat
      BY <2>6, <2>7
    <3>3. StepAlike(u, t, l)
      BY <3>1, <3>2 DEF StepAlike
    <3>4. Alike(u, t, l)
      BY <3>3, SameSteps
    <3>5. QED
      BY <3>4 DEF Alike
  <2>9. l + 1 \in 1 .. l + 1 /\ l + 1 - 1 = l /\ l \in 0 .. l
    OBVIOUS
  <2>10. u[l + 1] = XorBytes(t[l], b) /\ t[l] \in Byte
    <3>1. t[l] \in Byte
      BY <2>2, <2>4, <2>9 DEF IsSums
    <3>2. QED
      BY <2>3, <2>7, <2>8, <2>9, <3>1
  <2>11. QED
    BY <1>1, <2>1, <2>2, <2>3, <2>4, <2>5, <2>10
<1>4. QED
  BY <1>2, <1>3

-----------------------------------------------------------------------------
(* The digest.  What it has counted of n bytes. *)
CountOf(n) == << (8 * n) % CountWraps, ((8 * n) \div CountWraps) % CountWraps >>

LEMMA DivModIs ==
  ASSUME NEW a \in Nat, NEW d \in Nat \ {0}
  PROVE  \E k \in Nat, r \in 0 .. d - 1 : a = d * k + r /\ a \div d = k /\ a % d = r
<1>1. PICK k : k = a \div d
  OBVIOUS
<1>2. PICK r : r = a % d
  OBVIOUS
<1>3. k \in Nat /\ r \in 0 .. d - 1 /\ a = d * k + r
  BY <1>1, <1>2
<1>4. QED
  BY <1>1, <1>2, <1>3

LEMMA DivModOnly ==
  ASSUME NEW d \in Nat \ {0}, NEW k \in Nat, NEW r \in 0 .. d - 1
  PROVE  (d * k + r) \div d = k /\ (d * k + r) % d = r
<1>1. PICK z \in Nat : z = d * k
  OBVIOUS
<1>2. PICK a \in Nat : a = z + r
  OBVIOUS
<1>3. PICK j \in Nat, s \in 0 .. d - 1 : a = d * j + s /\ a \div d = j /\ a % d = s
  BY DivModIs
<1>4. j = k
  <2>1. CASE j < k
    <3>1. d * (j + 1) <= d * k
      BY <2>1
    <3>2. d * (j + 1) = d * j + d
      OBVIOUS
    <3>3. QED
      BY <1>1, <1>2, <1>3, <3>1, <3>2
  <2>2. CASE k < j
    <3>1. d * (k + 1) <= d * j
      BY <2>2
    <3>2. d * (k + 1) = d * k + d
      OBVIOUS
    <3>3. QED
      BY <1>1, <1>2, <1>3, <3>1, <3>2
  <2>3. QED
    BY <2>1, <2>2
<1>5. s = r
  BY <1>1, <1>2, <1>3, <1>4
<1>6. QED
  BY <1>1, <1>2, <1>3, <1>4, <1>5

LEMMA IndexIs ==
  ASSUME NEW n \in Nat, NEW ctx, ctx.count = CountOf(n)
  PROVE  Index(ctx) = n % 64
<1>1. PICK q \in Nat : CountWraps = 512 * q
  BY CountWrapsAssumption
<1>2. PICK a \in Nat : a = 8 * n
  OBVIOUS
<1>3. CountWraps \in Nat \ {0}
  BY CountWrapsAssumption
<1>4. PICK k \in Nat, r \in 0 .. CountWraps - 1 :
        a = CountWraps * k + r /\ a \div CountWraps = k /\ a % CountWraps = r
  BY <1>3, DivModIs
<1>5. PICK z \in Nat : z = q * k
  OBVIOUS
<1>6. r \in Nat
  BY <1>3
<1>7. CountWraps * k = 512 * z
  BY <1>1, <1>5
<1>8. r = 8 * n - 512 * z
  BY <1>2, <1>4, <1>6, <1>7
<1>9. (r \div 8) % 64 = n % 64
  BY <1>6, <1>8
<1>10. ctx.count[1] = r
  BY <1>2, <1>4 DEF CountOf
<1>11. QED
  BY <1>9, <1>10 DEF Index

(* Where the low word wraps around, one is carried to the high one. *)
LEMMA CountedIs ==
  ASSUME NEW n \in Nat, NEW m \in Nat
  PROVE  Counted(CountOf(n), m) = CountOf(n + m)
<1>1. PICK W : W = CountWraps
  OBVIOUS
<1>2. W \in Nat \ {0}
  BY <1>1, CountWrapsAssumption
<1>3. PICK a \in Nat : a = 8 * n
  OBVIOUS
<1>4. PICK b \in Nat : b = 8 * m
  OBVIOUS
<1>5. 8 * (n + m) = a + b /\ a + b \in Nat
  BY <1>3, <1>4
<1>6. PICK ka \in Nat, ra \in 0 .. W - 1 : a = W * ka + ra /\ a \div W = ka /\ a % W = ra
  BY <1>2, DivModIs
<1>7. PICK kb \in Nat, rb \in 0 .. W - 1 : b = W * kb + rb /\ b \div W = kb /\ b % W = rb
  BY <1>2, DivModIs
<1>8. PICK k \in Nat, r \in 0 .. W - 1 :
        a + b = W * k + r /\ (a + b) \div W = k /\ (a + b) % W = r
  BY <1>2, <1>5, DivModIs
<1>9. PICK kk \in Nat, kr \in 0 .. W - 1 : ka = W * kk + kr /\ ka \div W = kk /\ ka % W = kr
  BY <1>2, DivModIs
<1>10. PICK c : c = IF r < rb THEN 1 ELSE 0
  OBVIOUS
<1>11. c \in {0, 1} /\ c \in Nat
  BY <1>10
<1>12. PICK za \in Nat : za = W * ka
  BY <1>2
<1>13. PICK zb \in Nat : zb = W * kb
  BY <1>2
<1>13a. PICK d : d = IF ra + rb < W THEN ra + rb ELSE ra + rb - W
  OBVIOUS
<1>14. d \in 0 .. W - 1 /\ d = IF ra + rb < W THEN ra + rb ELSE ra + rb - W
  BY <1>2, <1>13a
<1>15. PICK e : e = IF ra + rb < W THEN 0 ELSE 1
  OBVIOUS
<1>16. e \in {0, 1} /\ e \in Nat
  BY <1>15
<1>17. a + b = W * (ka + kb + e) + d
  <2>1. W * (ka + kb + e) = W * ka + W * kb + W * e
    BY <1>2, <1>16
  <2>2. W * e = IF ra + rb < W THEN 0 ELSE W
    BY <1>2, <1>15
  <2>3. QED
    BY <1>2, <1>6, <1>7, <1>12, <1>13, <1>14, <2>1, <2>2
<1>18. k = ka + kb + e /\ r = d
  <2>1. PICK s \in Nat : s = ka + kb + e
    BY <1>16
  <2>2. (W * s + d) \div W = s /\ (W * s + d) % W = d
    BY <1>2, <1>14, DivModOnly
  <2>3. QED
    BY <1>8, <1>14, <1>17, <2>1, <2>2
<1>19. c = e
  BY <1>2, <1>10, <1>14, <1>15, <1>18
<1>20. (kr + c + kb) % W = k % W
  <2>1. PICK t \in Nat : t = kr + c + kb
    BY <1>2, <1>11
  <2>2. PICK j \in Nat, s \in 0 .. W - 1 : t = W * j + s /\ t \div W = j /\ t % W = s
    BY <1>2, DivModIs
  <2>3. k = W * kk + t
    BY <1>2, <1>9, <1>11, <1>18, <1>19, <2>1
  <2>4. PICK jj \in Nat : jj = kk + j
    OBVIOUS
  <2>5. W * jj = W * kk + W * j
    BY <1>2, <2>4
  <2>6. k = W * jj + s
    <3>1. W * kk \in Nat /\ W * j \in Nat
      BY <1>2
    <3>2. QED
      BY <1>2, <2>2, <2>3, <2>5, <3>1
  <2>7. (W * jj + s) % W = s
    BY <1>2, DivModOnly
  <2>8. QED
    BY <2>1, <2>2, <2>6, <2>7
<1>21. (ra + b) % W = r
  <2>1. ra + b = W * (kb + e) + d
    <3>1. W * (kb + e) = W * kb + W * e
      BY <1>2, <1>16
    <3>2. W * e = IF ra + rb < W THEN 0 ELSE W
      BY <1>2, <1>15
    <3>3. QED
      BY <1>2, <1>7, <1>13, <1>14, <3>1, <3>2
  <2>2. PICK s \in Nat : s = kb + e
    BY <1>16
  <2>3. (W * s + d) % W = d
    BY <1>2, <1>14, DivModOnly
  <2>4. QED
    BY <1>18, <2>1, <2>2, <2>3
<1>22. CountOf(n)[1] = ra /\ CountOf(n)[2] = kr
  BY <1>1, <1>3, <1>6, <1>9 DEF CountOf
<1>23. Counted(CountOf(n), m) = << r, (kr + c + kb) % W >>
  <2>1. (CountOf(n)[1] + 8 * m) % CountWraps = r
    BY <1>1, <1>4, <1>21, <1>22
  <2>2. (8 * m) % CountWraps = rb /\ (8 * m) \div CountWraps = kb
    BY <1>1, <1>4, <1>7
  <2>3. QED
    BY <1>1, <1>10, <1>22, <2>1, <2>2 DEF Counted
<1>24. CountOf(n + m) = << r, k % W >>
  BY <1>1, <1>5, <1>8 DEF CountOf
<1>25. QED
  BY <1>20, <1>23, <1>24

(* Texts, buffers and rows of blocks. *)
Nats == Seq(Nat)
Buffers == [1 .. 64 -> Nat]
Rows == Seq(Seq(Nat))

(* A cut of 64. *)
LEMMA CutIs ==
  ASSUME NEW s \in Seq(Nat), NEW a \in Nat, a + 64 <= Len(s)
  PROVE  /\ SubSeq(s, a + 1, a + 64) = [k \in 1 .. 64 |-> s[a + k]]
         /\ SubSeq(s, a + 1, a + 64) \in [1 .. 64 -> Nat]
         /\ SubSeq(s, a + 1, a + 64) \in Seq(Nat)
<1>1. PICK c : c = SubSeq(s, a + 1, a + 64)
  OBVIOUS
<1>2. \A i \in a + 1 .. a + 64 : s[i] \in Nat
  OBVIOUS
<1>3. /\ a + 1 \in Int /\ a + 64 \in Int /\ a + 1 <= a + 64 /\ (a + 64) - (a + 1) + 1 = 64
      /\ \A i \in 1 .. 64 : a + 1 + i - 1 = a + i
  OBVIOUS
<1>4. /\ c \in Seq(Nat) /\ Len(c) = 64
      /\ \A i \in 1 .. (a + 64) - (a + 1) + 1 : c[i] = s[a + 1 + i - 1]
  BY <1>1, <1>2, <1>3, SubSeqProperties
<1>5. \A i \in 1 .. 64 : c[i] = s[a + i]
  <2>1. ASSUME NEW i \in 1 .. 64 PROVE c[i] = s[a + i]
    <3>1. c[i] = s[a + 1 + i - 1]
      BY <1>3, <1>4
    <3>2. QED
      BY <1>3, <3>1
  <2>2. QED
    BY <2>1
<1>6. PICK f : f = [k \in 1 .. 64 |-> s[a + k]]
  OBVIOUS
<1>7. \A k \in 1 .. 64 : s[a + k] \in Nat
  OBVIOUS
<1>8. f \in [1 .. 64 -> Nat]
  BY <1>6, <1>7
<1>9. 64 \in Nat
  OBVIOUS
<1>10. f \in Seq(Nat) /\ Len(f) = 64
  BY <1>8, <1>9, WordIs
<1>11. \A i \in 1 .. 64 : c[i] = f[i]
  BY <1>5, <1>6
<1>12. c = f
  <2>1. Len(c) = Len(f) /\ \A i \in 1 .. Len(c) : c[i] = f[i]
    BY <1>4, <1>10, <1>11
  <2>2. QED
    BY <1>4, <1>10, <2>1, SeqEqual
<1>13. QED
  BY <1>1, <1>4, <1>6, <1>8, <1>12

Contexts == [count : Nat \X Nat, buffer : Buffers, blocks : Rows]

(* The block that starts behind a bytes. *)
CutAt(s, a) == SubSeq(s, a + 1, a + 64)

(* What is kept of the text w. *)
Digested(ctx, w) ==
  /\ ctx \in Contexts
  /\ ctx.count = CountOf(Len(w))
  /\ Len(ctx.blocks) = Len(w) \div 64
  /\ \A b \in 1 .. Len(w) \div 64 : ctx.blocks[b] = CutAt(w, 64 * b - 64)
  /\ \A k \in 1 .. Len(w) % 64 : ctx.buffer[k] = w[64 * (Len(w) \div 64) + k]

(* The first m - i elements of given behind the i-th, placed behind x of the buffer's own. *)
Places64(f, buffer, x, given, i, m) ==
  \A k \in 1 .. 64 : f[k] = IF k - x \in 1 .. m - i THEN given[k - x + i] ELSE buffer[k]

LEMMA BufferedIs ==
  ASSUME NEW buffer \in Buffers, NEW x \in Nat, NEW given \in Nats, NEW i \in Nat,
         NEW m \in Nat, m = Len(given)
  PROVE  /\ Buffered(buffer, x, given, i) \in Buffers
         /\ Places64(Buffered(buffer, x, given, i), buffer, x, given, i, m)
<1>1. PICK f : f = Buffered(buffer, x, given, i)
  OBVIOUS
<1>2. f = [k \in 1 .. 64 |-> IF k - x \in 1 .. m - i THEN given[k - x + i] ELSE buffer[k]]
  BY <1>1 DEF Buffered
<1>3. ASSUME NEW k \in 1 .. 64, k - x \in 1 .. m - i PROVE given[k - x + i] \in Nat
  <2>1. PICK j \in 1 .. m : j = k - x + i
    BY <1>3
  <2>2. given[j] \in Nat
    BY DEF Nats
  <2>3. QED
    BY <2>1, <2>2
<1>4. \A k \in 1 .. 64 : buffer[k] \in Nat
  BY DEF Buffers
<1>5. \A k \in 1 .. 64 : (IF k - x \in 1 .. m - i THEN given[k - x + i] ELSE buffer[k]) \in Nat
  BY <1>3, <1>4
<1>6. f \in Buffers
  BY <1>2, <1>5 DEF Buffers
<1>7. Places64(f, buffer, x, given, i, m)
  BY <1>2 DEF Places64
<1>8. QED
  BY <1>1, <1>6, <1>7

LEMMA UpdateKeeps ==
  ASSUME NEW w \in Nats, NEW ctx, Digested(ctx, w), NEW given \in Nats
  PROVE  Digested(MD5Update(ctx, given), w \o given)
<1>1. PICK n \in Nat : n = Len(w)
  BY DEF Nats
<1>2. PICK m \in Nat : m = Len(given)
  BY DEF Nats
<1>3. PICK q \in Nat : q = n \div 64
  OBVIOUS
<1>4. PICK x \in 0 .. 63 : x = n % 64
  OBVIOUS
<1>5. n = 64 * q + x
  BY <1>3, <1>4
<1>6. PICK v : v = w \o given
  OBVIOUS
<1>7. /\ v \in Nats /\ Len(v) = n + m
      /\ \A i \in 1 .. n : v[i] = w[i]
      /\ \A i \in 1 .. m : v[n + i] = given[i]
  <2>1. \A i \in 1 .. n + m : v[i] = IF i <= n THEN w[i] ELSE given[i - n]
    BY <1>1, <1>2, <1>6, ConcatProperties DEF Nats
  <2>2. ASSUME NEW i \in 1 .. n PROVE v[i] = w[i]
    BY <2>1
  <2>3. ASSUME NEW i \in 1 .. m PROVE v[n + i] = given[i]
    <3>1. n + i \in 1 .. n + m /\ ~(n + i <= n) /\ (n + i) - n = i
      OBVIOUS
    <3>2. QED
      BY <2>1, <3>1
  <2>4. v \in Nats /\ Len(v) = n + m
    BY <1>1, <1>2, <1>6, ConcatProperties DEF Nats
  <2>5. QED
    BY <2>2, <2>3, <2>4
<1>8. /\ ctx \in Contexts /\ ctx.count = CountOf(n) /\ Len(ctx.blocks) = q
      /\ \A b \in 1 .. q : ctx.blocks[b] = CutAt(w, 64 * b - 64)
      /\ \A k \in 1 .. x : ctx.buffer[k] = w[64 * q + k]
  BY <1>1, <1>3, <1>4 DEF Digested
<1>9. Index(ctx) = x
  BY <1>4, <1>8, IndexIs
<1>10. PICK c : c = Counted(ctx.count, m)
  OBVIOUS
<1>11. c = CountOf(n + m)
  BY <1>8, <1>10, CountedIs
<1>12. CountOf(n + m) \in Nat \X Nat
  <2>1. CountWraps \in Nat \ {0} /\ 8 * (n + m) \in Nat
    BY CountWrapsAssumption
  <2>2. QED
    BY <2>1 DEF CountOf
<1>13. PICK buffer \in Buffers : buffer = ctx.buffer
  BY <1>8 DEF Contexts
<1>14. PICK blocks \in Rows : blocks = ctx.blocks
  BY <1>8 DEF Contexts
<1>15. x \in Nat /\ 0 \in Nat
  OBVIOUS
<1>16. PICK full \in Buffers : full = Buffered(buffer, x, given, 0)
  BY <1>2, <1>15, BufferedIs
<1>17. ASSUME NEW k \in 1 .. 64, k <= x + m PROVE full[k] = v[64 * q + k]
  <2>1. full[k] = IF k - x \in 1 .. m - 0 THEN given[k - x + 0] ELSE buffer[k]
    <3>1. Places64(full, buffer, x, given, 0, m)
      BY <1>2, <1>15, <1>16, BufferedIs
    <3>2. QED
      BY <3>1 DEF Places64
  <2>2. CASE k <= x
    <3>1. k \in 1 .. x /\ ~(k - x \in 1 .. m - 0) /\ 64 * q + k \in 1 .. n
      BY <1>5, <2>2
    <3>2. QED
      BY <1>7, <1>8, <1>13, <2>1, <3>1
  <2>3. CASE ~(k <= x)
    <3>1. k - x \in 1 .. m - 0 /\ k - x + 0 = k - x /\ k - x \in 1 .. m /\ n + (k - x) = 64 * q + k
      BY <1>5, <1>17, <2>3
    <3>2. v[n + (k - x)] = given[k - x]
      BY <1>7, <3>1
    <3>3. QED
      BY <2>1, <3>1, <3>2
  <2>4. QED
    BY <2>2, <2>3
<1>18. \A b \in 1 .. q : blocks[b] = CutAt(v, 64 * b - 64)
  <2>1. ASSUME NEW b \in 1 .. q PROVE CutAt(w, 64 * b - 64) = CutAt(v, 64 * b - 64)
    <3>1. PICK a \in Nat : a = 64 * b - 64
      OBVIOUS
    <3>2. a + 64 <= n
      BY <1>5, <3>1
    <3>3. SubSeq(w, a + 1, a + 64) = [k \in 1 .. 64 |-> w[a + k]]
      BY <1>1, <3>2, CutIs DEF Nats
    <3>4. SubSeq(v, a + 1, a + 64) = [k \in 1 .. 64 |-> v[a + k]]
      <4>1. a + 64 <= n + m
        BY <3>2
      <4>2. QED
        BY <1>7, <4>1, CutIs DEF Nats
    <3>5. \A k \in 1 .. 64 : w[a + k] = v[a + k]
      <4>1. \A k \in 1 .. 64 : a + k \in 1 .. n
        BY <3>2
      <4>2. QED
        BY <1>7, <4>1
    <3>6. QED
      BY <3>1, <3>3, <3>4, <3>5 DEF CutAt
  <2>2. QED
    BY <1>8, <1>14, <2>1
<1>19. CASE m < 64 - x
  <2>1. PICK new : new = [ctx EXCEPT !.count = c, !.buffer = full]
    OBVIOUS
  <2>2. MD5Update(ctx, given) = new
    BY <1>2, <1>9, <1>10, <1>13, <1>16, <1>19, <2>1 DEF MD5Update
  <2>3. new = [count |-> c, buffer |-> full, blocks |-> blocks]
    BY <1>8, <1>14, <2>1 DEF Contexts
  <2>4. (n + m) \div 64 = q /\ (n + m) % 64 = x + m
    BY <1>5, <1>19
  <2>5. new \in Contexts
    BY <1>11, <1>12, <2>3 DEF Contexts
  <2>6. \A k \in 1 .. x + m : full[k] = v[64 * q + k]
    <3>1. \A k \in 1 .. x + m : k \in 1 .. 64 /\ k <= x + m
      BY <1>19
    <3>2. QED
      BY <1>17, <3>1
  <2>7. Digested(new, v)
    <3>1. Len(v) \div 64 = q /\ Len(v) % 64 = x + m
      BY <1>7, <2>4
    <3>2. new.count = CountOf(Len(v)) /\ Len(new.blocks) = q
      BY <1>7, <1>8, <1>11, <1>14, <2>3
    <3>3. new.buffer = full /\ new.blocks = blocks
      BY <2>3
    <3>4. QED
      BY <1>18, <2>5, <2>6, <3>1, <3>2, <3>3 DEF Digested
  <2>8. QED
    BY <1>6, <2>2, <2>7
<1>20. CASE ~(m < 64 - x)
  <2>1. PICK first : first = IF x = 0 THEN 0 ELSE 64 - x
    OBVIOUS
  <2>2. first \in 0 .. 63 /\ first <= m
    BY <1>20, <2>1
  <2>3. PICK whole \in Nat : whole = (m - first) \div 64
    BY <2>2
  <2>4. PICK i \in Nat : i = first + 64 * whole
    BY <2>2
  <2>5. i <= m /\ m - i < 64
    BY <2>2, <2>3, <2>4
  <2>6. PICK e : e = IF x = 0 THEN 0 ELSE 1
    OBVIOUS
  <2>7. e \in {0, 1} /\ n + first = 64 * (q + e)
    BY <1>5, <2>1, <2>6
  <2>8. PICK p \in Nat : p = q + e
    BY <2>7
  <2>9. (n + m) \div 64 = p + whole /\ (n + m) % 64 = m - i
    BY <2>2, <2>4, <2>5, <2>7, <2>8
  <2>10. PICK kept \in Buffers : kept = IF x = 0 THEN buffer ELSE full
    OBVIOUS
  <2>11. PICK rest \in Buffers : rest = Buffered(kept, 0, given, i)
    BY <1>2, <1>15, BufferedIs
  <2>12. PICK FF : FF = IF x = 0 THEN <<>> ELSE <<full>>
    OBVIOUS
  <2>13. PICK I : I = [j \in 1 .. whole |-> SubSeq(given, first + 64 * j - 63, first + 64 * j)]
    OBVIOUS
  <2>14. PICK B : B = blocks \o FF \o I
    OBVIOUS
  <2>15. PICK new : new = [count |-> c, buffer |-> rest, blocks |-> B]
    OBVIOUS
  <2>16. MD5Update(ctx, given) = new
    <3>1. MD5Update(ctx, given)
            = [count |-> c, buffer |-> Buffered(kept, 0, given, i), blocks |-> B]
      BY <1>2, <1>9, <1>10, <1>13, <1>14, <1>16, <1>20, <2>1, <2>3, <2>4, <2>10, <2>12, <2>13,
         <2>14 DEF MD5Update
    <3>2. QED
      BY <2>11, <2>15, <3>1
  <2>17. ASSUME NEW j \in 1 .. whole
         PROVE  I[j] \in Nats /\ I[j] = CutAt(v, 64 * (p + j) - 64)
    <3>1. PICK a \in Nat : a = first + 64 * j - 64
      BY <2>2
    <3>2. a + 1 = first + 64 * j - 63 /\ a + 64 = first + 64 * j
      BY <2>2, <3>1
    <3>3. a + 64 <= m
      BY <2>2, <2>4, <2>5, <3>1
    <3>4. I[j] = SubSeq(given, a + 1, a + 64)
      BY <2>13, <3>2
    <3>5. SubSeq(given, a + 1, a + 64) = [k \in 1 .. 64 |-> given[a + k]] /\ I[j] \in Nats
      BY <1>2, <3>3, <3>4, CutIs, ZenonT(40) DEF Nats
    <3>6. PICK d \in Nat : d = 64 * (p + j) - 64
      OBVIOUS
    <3>7. d = n + a
      BY <2>2, <2>7, <2>8, <3>1, <3>6
    <3>8. SubSeq(v, d + 1, d + 64) = [k \in 1 .. 64 |-> v[d + k]]
      <4>1. d + 64 <= n + m
        BY <3>3, <3>7
      <4>2. QED
        BY <1>7, <4>1, CutIs DEF Nats
    <3>9. ASSUME NEW k \in 1 .. 64 PROVE given[a + k] = v[d + k]
      <4>1. a + k \in 1 .. m /\ n + (a + k) = d + k
        BY <3>3, <3>7
      <4>2. v[n + (a + k)] = given[a + k]
        BY <1>7, <4>1
      <4>3. QED
        BY <4>1, <4>2
    <3>10. QED
      BY <3>4, <3>5, <3>6, <3>8, <3>9, ZenonT(40) DEF CutAt
  <2>18. FF \in Rows /\ Len(FF) = e
    <3>1. full \in Nats
      <4>1. 64 \in Nat
        OBVIOUS
      <4>2. QED
        BY <4>1, WordIs DEF Nats, Buffers
    <3>2. CASE x = 0
      BY <2>6, <2>12, <3>2 DEF Rows
    <3>3. CASE x # 0
      BY <2>6, <2>12, <3>1, <3>3 DEF Rows, Nats
    <3>4. QED
      BY <3>2, <3>3
  <2>19. I \in Rows /\ Len(I) = whole
    <3>1. I \in [1 .. whole -> Nats]
      <4>1. \A j \in 1 .. whole : I[j] \in Nats
        BY <2>17
      <4>2. I = [j \in 1 .. whole |-> I[j]]
        BY <2>13
      <4>3. QED
        BY <4>1, <4>2
    <3>2. QED
      BY <3>1, WordIs DEF Rows, Nats
  <2>20. PICK BF : BF = blocks \o FF
    OBVIOUS
  <2>21. /\ BF \in Rows /\ Len(BF) = p
         /\ \A b \in 1 .. p : BF[b] = IF b <= q THEN blocks[b] ELSE FF[b - q]
    <3>1. Len(blocks) = q
      BY <1>8, <1>14
    <3>2. QED
      BY <2>8, <2>18, <2>20, <3>1, ConcatProperties DEF Rows
  <2>22. /\ B \in Rows /\ Len(B) = p + whole
         /\ \A b \in 1 .. p + whole : B[b] = IF b <= p THEN BF[b] ELSE I[b - p]
    <3>1. B = BF \o I
      BY <2>14, <2>20
    <3>2. QED
      BY <2>19, <2>21, <3>1, ConcatProperties, ZenonT(40) DEF Rows
  <2>23. ASSUME NEW b \in 1 .. p + whole PROVE B[b] = CutAt(v, 64 * b - 64)
    <3>1. CASE b <= q
      <4>1. b \in 1 .. q /\ b \in 1 .. p /\ b <= p
        BY <2>7, <2>8, <3>1
      <4>2. B[b] = blocks[b]
        BY <2>21, <2>22, <3>1, <4>1
      <4>3. QED
        BY <1>18, <4>1, <4>2
    <3>2. CASE ~(b <= q) /\ b <= p
      <4>1. e = 1 /\ b = q + 1 /\ b - q = 1 /\ b \in 1 .. p
        BY <2>7, <2>8, <3>2
      <4>2. x # 0 /\ FF = <<full>>
        BY <2>6, <2>12, <4>1
      <4>3. B[b] = full
        BY <2>21, <2>22, <3>2, <4>1, <4>2
      <4>4. PICK d \in Nat : d = 64 * q
        OBVIOUS
      <4>5. d + 64 <= n + m /\ 64 <= x + m
        BY <1>5, <1>20, <4>4
      <4>6. SubSeq(v, d + 1, d + 64) = [k \in 1 .. 64 |-> v[d + k]]
        BY <1>7, <4>5, CutIs DEF Nats
      <4>7. \A k \in 1 .. 64 : full[k] = v[d + k]
        <5>1. \A k \in 1 .. 64 : k <= x + m
          BY <4>5
        <5>2. QED
          BY <1>17, <4>4, <5>1
      <4>8. full = [k \in 1 .. 64 |-> full[k]]
        BY DEF Buffers
      <4>9. full = SubSeq(v, d + 1, d + 64)
        BY <4>6, <4>7, <4>8
      <4>10. 64 * b - 64 = d
        BY <4>1, <4>4
      <4>11. QED
        BY <4>3, <4>9, <4>10 DEF CutAt
    <3>3. CASE ~(b <= p)
      <4>1. PICK j \in 1 .. whole : j = b - p
        BY <3>3
      <4>2. b = p + j
        BY <4>1
      <4>3. B[b] = I[j]
        BY <2>22, <3>3, <4>1
      <4>4. QED
        BY <2>17, <4>2, <4>3
    <3>4. QED
      BY <3>1, <3>2, <3>3
  <2>24. ASSUME NEW k \in 1 .. m - i PROVE rest[k] = v[64 * (p + whole) + k]
    <3>1. k \in 1 .. 64 /\ k - 0 = k /\ k - 0 + i = k + i /\ k + i \in 1 .. m
      BY <2>5
    <3>2. rest[k] = IF k - 0 \in 1 .. m - i THEN given[k - 0 + i] ELSE kept[k]
      <4>1. Places64(rest, kept, 0, given, i, m)
        BY <1>2, <1>15, <2>11, BufferedIs
      <4>2. QED
        BY <3>1, <4>1 DEF Places64
    <3>3. rest[k] = given[k + i]
      BY <3>1, <3>2
    <3>4. v[n + (k + i)] = given[k + i]
      BY <1>7, <3>1
    <3>5. n + (k + i) = 64 * (p + whole) + k
      BY <2>2, <2>4, <2>7, <2>8
    <3>6. QED
      BY <3>3, <3>4, <3>5
  <2>25. new \in Contexts
    BY <1>11, <1>12, <2>15, <2>22 DEF Contexts
  <2>26. Digested(new, v)
    <3>1. Len(v) \div 64 = p + whole /\ Len(v) % 64 = m - i
      BY <1>7, <2>9
    <3>2. new.count = CountOf(Len(v)) /\ Len(new.blocks) = p + whole
      BY <1>7, <1>11, <2>15, <2>22
    <3>3. new.buffer = rest /\ new.blocks = B
      BY <2>15
    <3>4. QED
      BY <2>23, <2>24, <2>25, <3>1, <3>2, <3>3 DEF Digested
  <2>27. QED
    BY <1>6, <2>16, <2>26
<1>21. QED
  BY <1>19, <1>20

LEMMA InitDigests == Digested(MD5Init, <<>>)
<1>1. CountOf(0) = <<0, 0>>
  <2>1. CountWraps \in Nat \ {0} /\ 8 * 0 = 0
    BY CountWrapsAssumption
  <2>2. 0 % CountWraps = 0 /\ 0 \div CountWraps = 0
    BY <2>1
  <2>3. QED
    BY <2>1, <2>2 DEF CountOf
<1>2. PICK f : f = [i \in 1 .. 64 |-> 0]
  OBVIOUS
<1>3. f \in Buffers
  BY <1>2 DEF Buffers
<1>4. MD5Init = [count |-> <<0, 0>>, buffer |-> f, blocks |-> <<>>]
  BY <1>2 DEF MD5Init
<1>5. <<0, 0>> \in Nat \X Nat
  OBVIOUS
<1>6. <<>> \in Rows
  BY DEF Rows
<1>7. MD5Init \in Contexts
  BY <1>3, <1>4, <1>5, <1>6 DEF Contexts
<1>8. Len(<<>>) = 0 /\ 0 \div 64 = 0 /\ 0 % 64 = 0
  OBVIOUS
<1>9. MD5Init.count = CountOf(0) /\ MD5Init.blocks = <<>>
  BY <1>1, <1>4
<1>10. QED
  BY <1>7, <1>8, <1>9 DEF Digested

LEMMA ZerosAre ==
  ASSUME NEW n \in Nat
  PROVE  [i \in 1 .. n |-> 0] \in Nats /\ Len([i \in 1 .. n |-> 0]) = n
<1>1. PICK f : f = [i \in 1 .. n |-> 0]
  OBVIOUS
<1>2. f \in [1 .. n -> Nat]
  BY <1>1
<1>3. f \in Seq(Nat) /\ Len(f) = n
  BY <1>2, WordIs
<1>4. QED
  BY <1>1, <1>3 DEF Nats

LEMMA JoinIs ==
  ASSUME NEW s \in Nats, NEW t \in Nats, NEW u \in Nats
  PROVE  s \o t \in Nats /\ Len(s \o t) = Len(s) + Len(t) /\ (s \o t) \o u = s \o (t \o u)
<1>1. s \in Seq(Nat) /\ t \in Seq(Nat) /\ u \in Seq(Nat)
  BY DEF Nats
<1>2. s \o t \in Seq(Nat) /\ Len(s \o t) = Len(s) + Len(t)
  BY <1>1, ConcatProperties
<1>3. (s \o t) \o u = s \o (t \o u)
  BY <1>1, ConcatAssociative, SMTT(30)
<1>4. QED
  BY <1>2, <1>3 DEF Nats

(* Two updates more make the whole of the padded text. *)
LEMMA FinalIs ==
  ASSUME NEW w \in Nats, NEW ctx, Digested(ctx, w)
  PROVE  MD5Final(ctx) = BlocksOf(w)
<1>1. PICK n \in Nat : n = Len(w)
  BY DEF Nats
<1>2. PICK x \in 0 .. 63 : x = n % 64
  OBVIOUS
<1>3. ctx \in Contexts /\ ctx.count = CountOf(n)
  BY <1>1 DEF Digested
<1>4. Index(ctx) = x
  BY <1>2, <1>3, IndexIs
<1>5. PICK p : p = (IF x < 56 THEN 56 ELSE 120) - x
  OBVIOUS
<1>6. p \in Nat /\ p - 1 \in Nat /\ p = (IF x < 56 THEN 56 ELSE 120) - x
  BY <1>5
<1>7. PICK room \in Nat : room = ((n + 8) \div 64) + 1
  OBVIOUS
<1>8. n + p + 8 = 64 * room
  <2>1. PICK q \in Nat : n = 64 * q + x
    BY <1>2
  <2>2. CASE x < 56
    <3>1. (n + 8) \div 64 = q
      BY <2>1, <2>2
    <3>2. QED
      BY <1>6, <1>7, <2>1, <2>2, <3>1
  <2>3. CASE ~(x < 56)
    <3>1. (n + 8) \div 64 = q + 1
      BY <2>1, <2>3
    <3>2. QED
      BY <1>6, <1>7, <2>1, <2>3, <3>1
  <2>4. QED
    BY <2>2, <2>3
<1>9. PICK O : O = <<128>>
  OBVIOUS
<1>10. PICK Z : Z = [i \in 1 .. p - 1 |-> 0]
  OBVIOUS
<1>11. PICK E : E = Encode(ctx.count)
  OBVIOUS
<1>12. O \in Nats /\ Len(O) = 1
  BY <1>9 DEF Nats
<1>13. Z \in Nats /\ Len(Z) = p - 1
  BY <1>6, <1>10, ZerosAre
<1>14. E \in Nats /\ Len(E) = 8
  <2>1. PICK c : c = ctx.count
    OBVIOUS
  <2>2. c \in Nats /\ Len(c) = 2
    <3>1. c \in Nat \X Nat
      BY <1>3, <2>1 DEF Contexts
    <3>2. PICK a \in Nat, b \in Nat : c = <<a, b>>
      BY <3>1
    <3>3. QED
      BY <3>2 DEF Nats
  <2>3. PICK f : f = [i \in 1 .. 6 |-> 0]
    OBVIOUS
  <2>4. f \in Nats /\ Len(f) = 6
    <3>1. 6 \in Nat
      OBVIOUS
    <3>2. QED
      BY <2>3, <3>1, ZerosAre
  <2>5. c \o f \in Nats /\ Len(c \o f) = 2 + 6
    BY <2>2, <2>4, JoinIs
  <2>6. E = c \o f
    BY <1>11, <2>1, <2>3 DEF Encode
  <2>7. QED
    BY <2>5, <2>6
<1>15. PICK P : P = Padding(p)
  OBVIOUS
<1>16. P = O \o Z
  BY <1>9, <1>10, <1>15 DEF Padding
<1>17. P \in Nats /\ Len(P) = p
  <2>1. O \o Z \in Nats /\ Len(O \o Z) = Len(O) + Len(Z)
    BY <1>12, <1>13, JoinIs
  <2>2. 1 + (p - 1) = p
    BY <1>6
  <2>3. QED
    BY <1>12, <1>13, <1>16, <2>1, <2>2
<1>18. PICK T : T = (w \o P) \o E
  OBVIOUS
<1>19. w \o P \in Nats /\ Len(w \o P) = n + p
  BY <1>1, <1>17, JoinIs
<1>20. T \in Nats /\ Len(T) = n + p + 8
  BY <1>14, <1>18, <1>19, JoinIs
<1>21. T = ((w \o O) \o Z) \o E
  <2>1. (w \o O) \o Z = w \o (O \o Z)
    BY <1>12, <1>13, JoinIs, ZenonT(40)
  <2>2. QED
    BY <1>16, <1>18, <2>1
<1>22. PICK one : one = MD5Update(ctx, P)
  OBVIOUS
<1>23. Digested(one, w \o P)
  BY <1>17, <1>22, UpdateKeeps
<1>24. PICK two : two = MD5Update(one, E)
  OBVIOUS
<1>25. Digested(two, T)
  BY <1>14, <1>18, <1>19, <1>23, <1>24, UpdateKeeps
<1>26. MD5Final(ctx) = two.blocks
  BY <1>4, <1>5, <1>11, <1>15, <1>22, <1>24 DEF MD5Final
<1>27. Len(T) \div 64 = room
  BY <1>8, <1>20
<1>28. /\ two.blocks \in Rows /\ Len(two.blocks) = room
       /\ \A b \in 1 .. room : two.blocks[b] = CutAt(T, 64 * b - 64)
  BY <1>25, <1>27 DEF Digested, Contexts
<1>29. PICK blocks \in Rows : blocks = two.blocks
  BY <1>28
<1>30. blocks = [b \in 1 .. room |-> blocks[b]]
  BY <1>28, <1>29 DEF Rows
<1>31. ASSUME NEW b \in 1 .. room PROVE blocks[b] = SubSeq(T, 64 * b - 63, 64 * b)
  <2>1. (64 * b - 64) + 1 = 64 * b - 63 /\ (64 * b - 64) + 64 = 64 * b
    OBVIOUS
  <2>2. blocks[b] = SubSeq(T, (64 * b - 64) + 1, (64 * b - 64) + 64)
    BY <1>28, <1>29 DEF CutAt
  <2>3. QED
    BY <2>1, <2>2
<1>32. BlocksOf(w) = [b \in 1 .. room |-> SubSeq(T, 64 * b - 63, 64 * b)]
  <2>1. p - 1 = 64 * room - n - 9
    BY <1>6, <1>8
  <2>2. Z = [i \in 1 .. 64 * room - n - 9 |-> 0]
    BY <1>10, <2>1
  <2>3. E = Encode(<< (8 * n) % CountWraps, ((8 * n) \div CountWraps) % CountWraps >>)
    BY <1>3, <1>11 DEF CountOf
  <2>4. QED
    BY <1>1, <1>7, <1>9, <1>21, <2>2, <2>3 DEF BlocksOf
<1>33. QED
  BY <1>26, <1>29, <1>30, <1>31, <1>32

-----------------------------------------------------------------------------
(* The frame parser. *)
Raw == Seq(Byte)
RawRows == Seq(Raw)

Sts == {"head", "cmd1", "cmd2", "len1", "len2", "data", "check"}
ParserStates == [sts : Sts, frame : Raw, len : Nat, rlen : Nat, sum : Byte]

(* How much the parser holds, by where it is. *)
Shaped(p) ==
  /\ p.sts = "head" => p.frame = <<>> /\ p.sum = 0
  /\ p.sts = "cmd1" => Len(p.frame) = 1
  /\ p.sts = "cmd2" => Len(p.frame) = 2
  /\ p.sts = "len1" => Len(p.frame) = 3
  /\ p.sts = "len2" => Len(p.frame) = 4
  /\ p.sts = "data" => Len(p.frame) = 5 + p.rlen /\ p.rlen < p.len /\ p.len = p.frame[5]
  /\ p.sts = "check" => Len(p.frame) >= 5 /\ Len(p.frame) = 5 + p.frame[5]
  /\ p.sts \notin {"data", "check"} => p.rlen = 0
  /\ p.sts # "head" => Len(p.frame) > 0 /\ p.sum = XorAll(Tail(p.frame))

LEMMA AddedToFrame ==
  ASSUME NEW frame \in Raw, NEW b \in Byte, NEW n \in Nat, n = Len(frame)
  PROVE  /\ Append(frame, b) \in Raw /\ Len(Append(frame, b)) = n + 1
         /\ Append(frame, b)[n + 1] = b
         /\ \A i \in 1 .. n : Append(frame, b)[i] = frame[i]
         /\ n > 0 => /\ SubSeq(Append(frame, b), 2, n) = Tail(frame)
                     /\ XorAll(Tail(frame)) \in Byte
                     /\ XorAll(Tail(Append(frame, b))) = XorBytes(XorAll(Tail(frame)), b)
<1>1. PICK f : f = Append(frame, b)
  OBVIOUS
<1>2. f \in Raw /\ Len(f) = n + 1 /\ f[n + 1] = b /\ \A i \in 1 .. n : f[i] = frame[i]
  BY <1>1 DEF Raw
<1>3. ASSUME n > 0
      PROVE  /\ SubSeq(f, 2, n) = Tail(frame) /\ XorAll(Tail(frame)) \in Byte
             /\ XorAll(Tail(f)) = XorBytes(XorAll(Tail(frame)), b)
  <2>1. PICK t : t = Tail(frame)
    OBVIOUS
  <2>2. frame \in Seq(Byte) /\ frame # <<>>
    BY <1>3 DEF Raw
  <2>3. t \in Seq(Byte) /\ Len(t) = n - 1 /\ \A i \in 1 .. n - 1 : t[i] = frame[i + 1]
    BY <1>3, <2>1, <2>2
  <2>4. SubSeq(f, 2, n) = t
    <3>1. \A i \in 2 .. n : f[i] \in Byte
      BY <1>2 DEF Raw
    <3>2. PICK s : s = SubSeq(f, 2, n)
      OBVIOUS
    <3>3. s \in Seq(Byte) /\ Len(s) = n - 1 /\ \A i \in 1 .. n - 2 + 1 : s[i] = f[2 + i - 1]
      <4>1. 2 \in Int /\ n \in Int /\ (IF 2 <= n THEN n - 2 + 1 ELSE 0) = n - 1
        BY <1>3
      <4>2. QED
        BY <3>1, <3>2, <4>1, SubSeqProperties
    <3>4. ASSUME NEW i \in 1 .. n - 1 PROVE s[i] = t[i]
      <4>1. i \in 1 .. n - 2 + 1 /\ 2 + i - 1 = i + 1 /\ i + 1 \in 1 .. n
        OBVIOUS
      <4>2. s[i] = f[i + 1]
        BY <3>3, <4>1
      <4>3. f[i + 1] = frame[i + 1]
        BY <1>2, <4>1
      <4>4. QED
        BY <2>3, <4>2, <4>3
    <3>5. Len(s) = Len(t) /\ \A i \in 1 .. Len(s) : s[i] = t[i]
      BY <2>3, <3>3, <3>4
    <3>6. QED
      BY <2>3, <3>2, <3>3, <3>5, SeqEqual
  <2>5. Tail(f) = t \o <<b>>
    <3>1. PICK u : u = Tail(f)
      OBVIOUS
    <3>2. PICK v : v = t \o <<b>>
      OBVIOUS
    <3>3. u \in Seq(Byte) /\ Len(u) = n /\ \A i \in 1 .. n : u[i] = f[i + 1]
      BY <1>2, <3>1 DEF Raw
    <3>4. v \in Seq(Byte) /\ Len(v) = n /\ v[n] = b /\ \A i \in 1 .. n - 1 : v[i] = t[i]
      BY <1>3, <2>3, <3>2
    <3>5. ASSUME NEW i \in 1 .. n PROVE u[i] = v[i]
      <4>1. CASE i = n
        BY <1>2, <3>3, <3>4, <4>1
      <4>2. CASE i # n
        <5>1. i \in 1 .. n - 1 /\ i + 1 \in 1 .. n
          BY <4>2
        <5>2. v[i] = frame[i + 1]
          BY <2>3, <3>4, <5>1
        <5>3. f[i + 1] = frame[i + 1]
          BY <1>2, <5>1
        <5>4. QED
          BY <3>3, <5>2, <5>3
      <4>3. QED
        BY <4>1, <4>2
    <3>6. Len(u) = Len(v) /\ \A i \in 1 .. Len(u) : u[i] = v[i]
      BY <3>3, <3>4, <3>5
    <3>7. QED
      BY <3>1, <3>2, <3>3, <3>4, <3>6, SeqEqual
  <2>6. XorAll(t \o <<b>>) = XorBytes(XorAll(t), b) /\ XorAll(t) \in Byte
    BY <2>3, XorAllMore
  <2>7. QED
    BY <2>1, <2>4, <2>5, <2>6
<1>4. QED
  BY <1>1, <1>2, <1>3

LEMMA ShapeIs ==
  ASSUME NEW s \in Sts, NEW f \in Raw, NEW l \in Nat, NEW r \in Nat, NEW x \in Byte, NEW n \in Nat,
         n = Len(f), s # "head", n > 0, x = XorAll(Tail(f)),
         s = "cmd1" => n = 1, s = "cmd2" => n = 2, s = "len1" => n = 3, s = "len2" => n = 4,
         s = "data" => n = 5 + r /\ r < l /\ l = f[5],
         s = "check" => n >= 5 /\ n = 5 + f[5],
         s \notin {"data", "check"} => r = 0
  PROVE  /\ [sts |-> s, frame |-> f, len |-> l, rlen |-> r, sum |-> x] \in ParserStates
         /\ Shaped([sts |-> s, frame |-> f, len |-> l, rlen |-> r, sum |-> x])
<1>1. PICK p : p = [sts |-> s, frame |-> f, len |-> l, rlen |-> r, sum |-> x]
  OBVIOUS
<1>2. p.sts = s /\ p.frame = f /\ p.len = l /\ p.rlen = r /\ p.sum = x
  BY <1>1
<1>3. p \in ParserStates
  BY <1>1 DEF ParserStates
<1>4. Shaped(p)
  BY <1>2 DEF Shaped
<1>5. QED
  BY <1>1, <1>3, <1>4

(* No length of 256 or more was begun. *)
Short(p) == p.sts \in {"len2", "data", "check"} => p.frame[4] = 0

(* One byte. *)
LEMMA ParserStep ==
  ASSUME NEW p \in ParserStates, Shaped(p), NEW b \in Byte
  PROVE  /\ ParserTakes(p, b) \in ParserStates /\ Shaped(ParserTakes(p, b))
         /\ p.sts = "head" =>
              IF b = HeadByte THEN ParserTakes(p, b).sts = "cmd1" /\ ParserTakes(p, b).frame = <<b>>
              ELSE ParserTakes(p, b).sts = "head"
         /\ p.sts \notin {"head", "check"} =>
              /\ ParserTakes(p, b).sts # "head" /\ ~ Whole(Append(p.frame, b))
              /\ ParserTakes(p, b).frame = Append(p.frame, b)
         /\ p.sts = "check" =>
              /\ ParserTakes(p, b).sts = "head"
              /\ Short(p) => Whole(Append(p.frame, b))
              /\ Sound(Append(p.frame, b)) <=> p.sum = b
<1>1. PICK frame \in Raw : frame = p.frame
  BY DEF ParserStates
<1>2. PICK sum \in Byte : sum = p.sum
  BY DEF ParserStates
<1>3. PICK len \in Nat : len = p.len
  BY DEF ParserStates
<1>4. PICK rlen \in Nat : rlen = p.rlen
  BY DEF ParserStates
<1>5. PICK n \in Nat : n = Len(frame)
  BY DEF Raw
<1>6. PICK f : f = Append(frame, b)
  OBVIOUS
<1>7. /\ f \in Raw /\ Len(f) = n + 1 /\ f[n + 1] = b /\ \A i \in 1 .. n : f[i] = frame[i]
      /\ n > 0 => /\ SubSeq(f, 2, n) = Tail(frame) /\ XorAll(Tail(frame)) \in Byte
                  /\ XorAll(Tail(f)) = XorBytes(XorAll(Tail(frame)), b)
  BY <1>5, <1>6, AddedToFrame
<1>8. PICK x \in Byte : x = XorBytes(sum, b)
  BY XorByteIs
<1>9. PICK q : q = Kept(p, b)
  OBVIOUS
<1>10. q = [sts |-> p.sts, frame |-> f, len |-> len, rlen |-> rlen, sum |-> x]
  BY <1>1, <1>2, <1>3, <1>4, <1>6, <1>8, <1>9 DEF Kept, ParserStates
<1>11. p.sts \in Sts
  BY DEF ParserStates
<1>12. PICK new : new = ParserTakes(p, b)
  OBVIOUS
<1>13. p.sts # "head" => n > 0 /\ sum = XorAll(Tail(frame)) /\ x = XorAll(Tail(f))
  BY <1>1, <1>2, <1>5, <1>7, <1>8 DEF Shaped
<1>14. CASE p.sts = "head"
  <2>1. new = IF b = HeadByte THEN [p EXCEPT !.sts = "cmd1", !.frame = <<b>>] ELSE p
    BY <1>12, <1>14 DEF ParserTakes
  <2>2. CASE b = HeadByte
    <3>1. PICK g : g = <<b>>
      OBVIOUS
    <3>2. g \in Raw /\ Len(g) = 1
      BY <3>1 DEF Raw
    <3>3. new = [sts |-> "cmd1", frame |-> g, len |-> len, rlen |-> rlen, sum |-> sum]
      BY <1>2, <1>3, <1>4, <2>1, <2>2, <3>1 DEF ParserStates
    <3>4. sum = 0 /\ rlen = 0
      BY <1>2, <1>4, <1>14 DEF Shaped
    <3>5. XorAll(Tail(g)) = 0
      <4>1. Tail(g) = <<>>
        BY <3>1
      <4>2. QED
        BY <4>1, XorAllMore
    <3>6. PICK s \in Sts : s = "cmd1"
      BY DEF Sts
    <3>7. new \in ParserStates /\ Shaped(new)
      <4>1. PICK m \in Nat : m = 1
        OBVIOUS
      <4>2. m = Len(g) /\ m > 0
        BY <3>2, <4>1
      <4>3. /\ s # "head" /\ s # "data" /\ s # "check" /\ s # "cmd2" /\ s # "len1" /\ s # "len2"
            /\ s = "cmd1" => m = 1
        BY <3>6, <4>1
      <4>4. QED
        BY <3>2, <3>3, <3>4, <3>5, <3>6, <4>2, <4>3, ShapeIs
    <3>8. QED
      BY <1>12, <1>14, <2>2, <3>1, <3>3, <3>7
  <2>3. CASE b # HeadByte
    BY <1>12, <1>14, <2>1, <2>3
  <2>4. QED
    BY <2>2, <2>3
<1>15. CASE p.sts = "cmd1"
  <2>0. new = [q EXCEPT !.sts = "cmd2"]
    BY <1>9, <1>12, <1>15 DEF ParserTakes
  <2>1. new = [sts |-> "cmd2", frame |-> f, len |-> len, rlen |-> rlen, sum |-> x]
    BY <1>10, <2>0
  <2>2. n = 1 /\ rlen = 0
    BY <1>1, <1>4, <1>5, <1>15 DEF Shaped
  <2>3. x = XorAll(Tail(f)) /\ n + 1 \in Nat /\ n + 1 > 0
    BY <1>13, <1>15
  <2>4. new \in ParserStates /\ Shaped(new)
    <3>1. PICK s \in Sts : s = "cmd2"
      BY DEF Sts
    <3>2. PICK m \in Nat : m = n + 1
      OBVIOUS
    <3>3. m = 2 /\ m = Len(f) /\ m > 0
      BY <1>7, <2>2, <3>2
    <3>4. /\ s # "head" /\ s # "data" /\ s # "check"
          /\ s = "cmd1" => m = 1
          /\ s = "cmd2" => m = 2
          /\ s = "len1" => m = 3
          /\ s = "len2" => m = 4
      BY <3>1, <3>3
    <3>5. QED
      BY <1>7, <2>1, <2>2, <2>3, <3>1, <3>3, <3>4, ShapeIs
  <2>5. ~ Whole(f)
    BY <1>7, <2>2 DEF Whole
  <2>6. QED
    BY <1>1, <1>6, <1>12, <1>15, <2>1, <2>4, <2>5
<1>16. CASE p.sts = "cmd2"
  <2>0. new = [q EXCEPT !.sts = "len1"]
    BY <1>9, <1>12, <1>16 DEF ParserTakes
  <2>1. new = [sts |-> "len1", frame |-> f, len |-> len, rlen |-> rlen, sum |-> x]
    BY <1>10, <2>0
  <2>2. n = 2 /\ rlen = 0
    BY <1>1, <1>4, <1>5, <1>16 DEF Shaped
  <2>3. x = XorAll(Tail(f)) /\ n + 1 \in Nat /\ n + 1 > 0
    BY <1>13, <1>16
  <2>4. new \in ParserStates /\ Shaped(new)
    <3>1. PICK s \in Sts : s = "len1"
      BY DEF Sts
    <3>2. PICK m \in Nat : m = n + 1
      OBVIOUS
    <3>3. m = 3 /\ m = Len(f) /\ m > 0
      BY <1>7, <2>2, <3>2
    <3>4. /\ s # "head" /\ s # "data" /\ s # "check"
          /\ s = "cmd1" => m = 1
          /\ s = "cmd2" => m = 2
          /\ s = "len1" => m = 3
          /\ s = "len2" => m = 4
      BY <3>1, <3>3
    <3>5. QED
      BY <1>7, <2>1, <2>2, <2>3, <3>1, <3>3, <3>4, ShapeIs
  <2>5. ~ Whole(f)
    BY <1>7, <2>2 DEF Whole
  <2>6. QED
    BY <1>1, <1>6, <1>12, <1>16, <2>1, <2>4, <2>5
<1>17. CASE p.sts = "len1"
  <2>0. new = [q EXCEPT !.sts = "len2"]
    BY <1>9, <1>12, <1>17 DEF ParserTakes
  <2>1. new = [sts |-> "len2", frame |-> f, len |-> len, rlen |-> rlen, sum |-> x]
    BY <1>10, <2>0
  <2>2. n = 3 /\ rlen = 0
    BY <1>1, <1>4, <1>5, <1>17 DEF Shaped
  <2>3. x = XorAll(Tail(f)) /\ n + 1 \in Nat /\ n + 1 > 0
    BY <1>13, <1>17
  <2>4. new \in ParserStates /\ Shaped(new)
    <3>1. PICK s \in Sts : s = "len2"
      BY DEF Sts
    <3>2. PICK m \in Nat : m = n + 1
      OBVIOUS
    <3>3. m = 4 /\ m = Len(f) /\ m > 0
      BY <1>7, <2>2, <3>2
    <3>4. /\ s # "head" /\ s # "data" /\ s # "check"
          /\ s = "cmd1" => m = 1
          /\ s = "cmd2" => m = 2
          /\ s = "len1" => m = 3
          /\ s = "len2" => m = 4
      BY <3>1, <3>3
    <3>5. QED
      BY <1>7, <2>1, <2>2, <2>3, <3>1, <3>3, <3>4, ShapeIs
  <2>5. ~ Whole(f)
    BY <1>7, <2>2 DEF Whole
  <2>6. QED
    BY <1>1, <1>6, <1>12, <1>17, <2>1, <2>4, <2>5
<1>18. CASE p.sts = "len2"
  <2>1. n = 4 /\ rlen = 0
    BY <1>1, <1>4, <1>5, <1>18 DEF Shaped
  <2>2. f[5] = b /\ Len(f) = 5
    BY <1>7, <2>1
  <2>3. q.frame = f /\ b \in Nat /\ ~(b > MAX_FRAME_LEN)
    BY <1>10 DEF Byte, MAX_FRAME_LEN
  <2>4. new = [q EXCEPT !.sts = IF b > 0 THEN "data" ELSE "check", !.len = b]
    BY <1>9, <1>12, <1>18, <2>2, <2>3 DEF ParserTakes, FrameGetLen
  <2>5. new = [sts |-> IF b > 0 THEN "data" ELSE "check", frame |-> f, len |-> b,
               rlen |-> rlen, sum |-> x]
    BY <1>10, <2>4
  <2>6. x = XorAll(Tail(f)) /\ n + 1 \in Nat /\ n + 1 > 0
    BY <1>13, <1>18
  <2>7. new \in ParserStates /\ Shaped(new)
    <3>1. PICK s \in Sts : s = IF b > 0 THEN "data" ELSE "check"
      BY DEF Sts
    <3>2. s = "data" => n + 1 = 5 + rlen /\ rlen < b /\ b = f[5]
      BY <2>1, <2>2, <2>3, <3>1
    <3>3. s = "check" => n + 1 >= 5 /\ n + 1 = 5 + f[5]
      BY <2>1, <2>2, <2>3, <3>1
    <3>4. s \in {"data", "check"}
      BY <3>1
    <3>5. QED
      BY <1>7, <2>3, <2>5, <2>6, <3>1, <3>2, <3>3, <3>4, ShapeIs
  <2>8. ~ Whole(f)
    <3>1. PICK h \in Nat : h = f[4]
      <4>1. 4 \in 1 .. Len(f)
        BY <2>2
      <4>2. \A i \in 1 .. Len(f) : f[i] \in Byte
        BY <1>7 DEF Raw
      <4>3. f[4] \in 0 .. 255
        BY <4>1, <4>2 DEF Byte
      <4>4. QED
        BY <4>3
    <3>2. ~(5 = 256 * h + b + 6)
      BY <2>3
    <3>3. QED
      BY <2>2, <3>1, <3>2 DEF Whole
  <2>9. QED
    BY <1>1, <1>6, <1>12, <1>18, <2>5, <2>7, <2>8
<1>19. CASE p.sts = "data"
  <2>1. n = 5 + rlen /\ rlen < len /\ len = frame[5]
    BY <1>1, <1>3, <1>4, <1>5, <1>19 DEF Shaped
  <2>2. f[5] = len
    BY <1>7, <2>1
  <2>0. new = [q EXCEPT !.rlen = q.rlen + 1, !.sts = IF p.rlen + 1 = p.len THEN "check" ELSE q.sts]
    BY <1>9, <1>12, <1>19 DEF ParserTakes
  <2>3. new = [q EXCEPT !.rlen = rlen + 1, !.sts = IF rlen + 1 = len THEN "check" ELSE p.sts]
    BY <1>3, <1>4, <1>10, <2>0
  <2>4. new = [sts |-> IF rlen + 1 = len THEN "check" ELSE "data", frame |-> f, len |-> len,
               rlen |-> rlen + 1, sum |-> x]
    BY <1>10, <1>19, <2>3
  <2>5. x = XorAll(Tail(f)) /\ n + 1 \in Nat /\ n + 1 > 0 /\ rlen + 1 \in Nat
    BY <1>13, <1>19
  <2>6. new \in ParserStates /\ Shaped(new)
    <3>1. PICK s \in Sts : s = IF rlen + 1 = len THEN "check" ELSE "data"
      BY DEF Sts
    <3>2. s = "data" => n + 1 = 5 + (rlen + 1) /\ rlen + 1 < len /\ len = f[5]
      BY <2>1, <2>2, <3>1
    <3>3. s = "check" => n + 1 >= 5 /\ n + 1 = 5 + f[5]
      BY <2>1, <2>2, <3>1
    <3>4. s \in {"data", "check"}
      BY <3>1
    <3>5. QED
      BY <1>7, <2>4, <2>5, <3>1, <3>2, <3>3, <3>4, ShapeIs
  <2>7. ~ Whole(f)
    <3>1. PICK h \in Nat : h = f[4]
      <4>1. 4 \in 1 .. Len(f)
        BY <1>7, <2>1
      <4>2. \A i \in 1 .. Len(f) : f[i] \in Byte
        BY <1>7 DEF Raw
      <4>3. f[4] \in 0 .. 255
        BY <4>1, <4>2 DEF Byte
      <4>4. QED
        BY <4>3
    <3>2. ~(n + 1 = 256 * h + len + 6)
      BY <2>1
    <3>3. QED
      BY <1>7, <2>2, <3>1, <3>2 DEF Whole
  <2>8. QED
    BY <1>1, <1>6, <1>12, <1>19, <2>4, <2>6, <2>7
<1>20. CASE p.sts = "check"
  <2>1. new = StateReset
    BY <1>12, <1>20 DEF ParserTakes
  <2>2. new = [sts |-> "head", frame |-> <<>>, len |-> 0, rlen |-> 0, sum |-> 0]
    BY <2>1 DEF StateReset
  <2>3. new \in ParserStates
    BY <2>2 DEF ParserStates, Sts, Raw, Byte
  <2>4. Shaped(new)
    BY <2>2 DEF Shaped
  <2>5. n >= 5 /\ n = 5 + frame[5]
    BY <1>1, <1>5, <1>20 DEF Shaped
  <2>6. f[5] = frame[5]
    BY <1>7, <2>5
  <2>7. ASSUME Short(p) PROVE Whole(f)
    <3>0. f[4] = 0
      <4>1. frame[4] = 0
        BY <1>1, <1>20, <2>7 DEF Short
      <4>2. QED
        BY <1>7, <2>5, <4>1
    <3>1. PICK e : e = frame[5]
      OBVIOUS
    <3>2. e \in Nat
      <4>1. 5 \in 1 .. n
        BY <2>5
      <4>2. \A i \in 1 .. n : frame[i] \in Byte
        BY <1>5 DEF Raw
      <4>3. frame[5] \in 0 .. 255
        BY <4>1, <4>2 DEF Byte
      <4>4. QED
        BY <3>1, <4>3
    <3>3. n = 5 + e /\ f[5] = e /\ Len(f) = n + 1
      BY <1>7, <2>5, <2>6, <3>1
    <3>4. n + 1 >= 5 /\ n + 1 = 256 * 0 + e + 6
      BY <3>2, <3>3
    <3>5. QED
      BY <3>0, <3>3, <3>4 DEF Whole
  <2>8. Sound(f) <=> sum = b
    <3>1. Len(f) - 1 = n
      BY <1>7
    <3>2. QED
      BY <1>7, <1>13, <1>20, <3>1 DEF Sound
  <2>9. QED
    BY <1>1, <1>2, <1>6, <1>12, <1>20, <2>2, <2>3, <2>4, <2>7, <2>8
<1>21. QED
  BY <1>11, <1>14, <1>15, <1>16, <1>17, <1>18, <1>19, <1>20 DEF Sts

(* A length stays below 256 when its first byte is 0. *)
LEMMA ShortStep ==
  ASSUME NEW p \in ParserStates, Shaped(p), Short(p), NEW b \in Byte, ~(p.sts = "len1" /\ b # 0)
  PROVE  Short(ParserTakes(p, b))
<1>1. PICK q \in ParserStates : q = ParserTakes(p, b) /\ Shaped(q)
  BY ParserStep
<1>2. SUFFICES ASSUME q.sts \in {"len2", "data", "check"} PROVE q.frame[4] = 0
  BY <1>1 DEF Short
<1>3. PICK frame \in Raw : frame = p.frame
  BY DEF ParserStates
<1>4. PICK n \in Nat : n = Len(frame)
  BY DEF Raw
<1>5. p.sts \notin {"head", "check"}
  <2>1. p.sts = "head" => q.sts \in {"cmd1", "head"}
    BY <1>1, ParserStep
  <2>2. p.sts = "check" => q.sts = "head"
    BY <1>1, ParserStep
  <2>3. QED
    BY <1>2, <2>1, <2>2
<1>6. q.frame = Append(frame, b)
  BY <1>1, <1>3, <1>5, ParserStep
<1>7. PICK f : f = Append(frame, b)
  OBVIOUS
<1>8. Len(f) = n + 1 /\ f[n + 1] = b /\ \A i \in 1 .. n : f[i] = frame[i]
  BY <1>4, <1>7, AddedToFrame
<1>9. p.sts = "cmd1" => n = 1
  BY <1>3, <1>4 DEF Shaped
<1>10. p.sts = "cmd2" => n = 2
  BY <1>3, <1>4 DEF Shaped
<1>11. p.sts = "len1" => n = 3
  BY <1>3, <1>4 DEF Shaped
<1>12. n + 1 >= 4
  <2>1. q.sts = "len2" => n + 1 = 4
    BY <1>1, <1>6, <1>7, <1>8 DEF Shaped
  <2>2. q.sts = "check" => n + 1 >= 5
    BY <1>1, <1>6, <1>7, <1>8 DEF Shaped
  <2>3. q.sts = "data" => n + 1 = 5 + q.rlen /\ q.rlen \in Nat
    BY <1>1, <1>6, <1>7, <1>8 DEF Shaped, ParserStates
  <2>4. QED
    BY <1>2, <2>1, <2>2, <2>3
<1>13. p.sts \in {"len1", "len2", "data"}
  <2>1. p.sts \in Sts
    BY DEF ParserStates
  <2>2. p.sts # "cmd1" /\ p.sts # "cmd2"
    BY <1>9, <1>10, <1>12
  <2>3. QED
    BY <1>5, <2>1, <2>2 DEF Sts
<1>14. CASE p.sts = "len1"
  BY <1>6, <1>7, <1>8, <1>11, <1>14
<1>15. CASE p.sts \in {"len2", "data"}
  <2>1. frame[4] = 0
    BY <1>3, <1>15 DEF Short
  <2>2. n >= 4
    <3>1. p.sts = "len2" => n = 4
      BY <1>3, <1>4 DEF Shaped
    <3>2. p.sts = "data" => n = 5 + p.rlen /\ p.rlen \in Nat
      BY <1>3, <1>4 DEF Shaped, ParserStates
    <3>3. QED
      BY <1>15, <3>1, <3>2
  <2>3. 4 \in 1 .. n
    BY <2>2
  <2>4. QED
    BY <1>6, <1>7, <1>8, <2>1, <2>3
<1>16. QED
  BY <1>13, <1>14, <1>15

(* Cuts of a row and of the row with one byte more. *)
IsCut(s, bytes, from, k) ==
  /\ s \in Raw /\ Len(s) = IF from <= k THEN k - from + 1 ELSE 0
  /\ \A i \in 1 .. k - from + 1 : s[i] = bytes[from + i - 1]

LEMMA CutOfRow ==
  ASSUME NEW bytes \in Raw, NEW from \in Nat, NEW k \in Nat, from >= 1, k <= Len(bytes)
  PROVE  IsCut(SubSeq(bytes, from, k), bytes, from, k)
<1>1. from \in Int /\ k \in Int
  OBVIOUS
<1>2. \A i \in from .. k : bytes[i] \in Byte
  BY DEF Raw
<1>3. QED
  BY <1>1, <1>2, SubSeqProperties DEF Raw, IsCut

LEMMA CutsGrow ==
  ASSUME NEW bytes \in Raw, NEW b \in Byte, NEW n \in Nat, n = Len(bytes),
         NEW more \in Raw, more = bytes \o <<b>>
  PROVE  /\ Len(more) = n + 1 /\ more[n + 1] = b /\ \A i \in 1 .. n : more[i] = bytes[i]
         /\ \A from \in 1 .. n + 1, k \in 0 .. n : SubSeq(more, from, k) = SubSeq(bytes, from, k)
         /\ \A from \in 1 .. n + 1 : SubSeq(more, from, n + 1) = Append(SubSeq(bytes, from, n), b)
<1>1. Len(more) = n + 1 /\ more[n + 1] = b /\ \A i \in 1 .. n : more[i] = bytes[i]
  BY DEF Raw
<1>2. ASSUME NEW from \in 1 .. n + 1, NEW k \in 0 .. n
      PROVE  SubSeq(more, from, k) = SubSeq(bytes, from, k)
  <2>0. PICK s : s = SubSeq(more, from, k)
    OBVIOUS
  <2>1. /\ s \in Raw /\ Len(s) = IF from <= k THEN k - from + 1 ELSE 0
        /\ \A i \in 1 .. k - from + 1 : s[i] = more[from + i - 1]
    <3>1. from \in Nat /\ k \in Nat /\ from >= 1 /\ k <= Len(more)
      BY <1>1
    <3>2. IsCut(s, more, from, k)
      BY <2>0, <3>1, CutOfRow
    <3>3. QED
      BY <3>2 DEF IsCut
  <2>1a. PICK t : t = SubSeq(bytes, from, k)
    OBVIOUS
  <2>2. /\ t \in Raw /\ Len(t) = IF from <= k THEN k - from + 1 ELSE 0
        /\ \A i \in 1 .. k - from + 1 : t[i] = bytes[from + i - 1]
    <3>1. from \in Nat /\ k \in Nat /\ from >= 1 /\ k <= Len(bytes)
      OBVIOUS
    <3>2. IsCut(t, bytes, from, k)
      BY <2>1a, <3>1, CutOfRow
    <3>3. QED
      BY <3>2 DEF IsCut
  <2>3. \A i \in 1 .. k - from + 1 : from + i - 1 \in 1 .. n
    OBVIOUS
  <2>4. \A i \in 1 .. k - from + 1 : s[i] = t[i]
    BY <1>1, <2>1, <2>2, <2>3
  <2>5. Len(s) = Len(t)
    BY <2>1, <2>2
  <2>6. \A i \in 1 .. Len(s) : i \in 1 .. k - from + 1
    BY <2>1
  <2>7. s \in Seq(Byte) /\ t \in Seq(Byte)
    BY <2>1, <2>2 DEF Raw
  <2>8. s = t
    BY <2>4, <2>5, <2>6, <2>7, SeqEqual
  <2>9. QED
    BY <2>0, <2>1a, <2>8
<1>3. ASSUME NEW from \in 1 .. n + 1
      PROVE  SubSeq(more, from, n + 1) = Append(SubSeq(bytes, from, n), b)
  <2>0. PICK s : s = SubSeq(more, from, n + 1)
    OBVIOUS
  <2>1. /\ s \in Raw /\ Len(s) = n + 1 - from + 1
        /\ \A i \in 1 .. n + 1 - from + 1 : s[i] = more[from + i - 1]
    <3>1. from \in Nat /\ n + 1 \in Nat /\ from >= 1 /\ n + 1 <= Len(more) /\ from <= n + 1
      BY <1>1
    <3>2. IsCut(s, more, from, n + 1)
      BY <2>0, <3>1, CutOfRow
    <3>3. QED
      BY <3>1, <3>2 DEF IsCut
  <2>1a. PICK t : t = SubSeq(bytes, from, n)
    OBVIOUS
  <2>2. /\ t \in Raw /\ Len(t) = n - from + 1
        /\ \A i \in 1 .. n - from + 1 : t[i] = bytes[from + i - 1]
    <3>1. from \in Nat /\ n \in Nat /\ from >= 1 /\ n <= Len(bytes)
      OBVIOUS
    <3>2. (IF from <= n THEN n - from + 1 ELSE 0) = n - from + 1
      OBVIOUS
    <3>3. IsCut(t, bytes, from, n)
      BY <2>1a, <3>1, CutOfRow
    <3>4. QED
      BY <3>2, <3>3 DEF IsCut
  <2>3. PICK l \in Nat : l = n - from + 1
    OBVIOUS
  <2>4. PICK u : u = Append(t, b)
    OBVIOUS
  <2>5. u \in Raw /\ Len(u) = l + 1 /\ u[l + 1] = b /\ \A i \in 1 .. l : u[i] = t[i]
    <3>1. t \in Raw /\ l = Len(t)
      BY <2>2, <2>3
    <3>2. QED
      BY <2>4, <3>1, AddedToFrame
  <2>6. Len(s) = l + 1
    BY <2>1, <2>3
  <2>7. ASSUME NEW i \in 1 .. l + 1 PROVE s[i] = u[i]
    <3>1. i \in 1 .. n + 1 - from + 1
      BY <2>3
    <3>2. s[i] = more[from + i - 1]
      BY <2>1, <3>1
    <3>3. CASE i = l + 1
      <4>1. from + i - 1 = n + 1
        BY <2>3, <3>3
      <4>2. QED
        BY <1>1, <2>5, <3>2, <3>3, <4>1
    <3>4. CASE i # l + 1
      <4>1. i \in 1 .. l /\ i \in 1 .. n - from + 1 /\ from + i - 1 \in 1 .. n
        BY <2>3, <3>4
      <4>2. u[i] = bytes[from + i - 1]
        BY <2>2, <2>5, <4>1
      <4>3. QED
        BY <1>1, <3>2, <4>1, <4>2
    <3>5. QED
      BY <3>3, <3>4
  <2>8. s \in Seq(Byte) /\ u \in Seq(Byte)
    BY <2>1, <2>5 DEF Raw
  <2>9. Len(s) = Len(u) /\ \A i \in 1 .. Len(s) : s[i] = u[i]
    BY <2>5, <2>6, <2>7
  <2>10. s = u
    BY <2>8, <2>9, SeqEqual
  <2>11. QED
    BY <2>0, <2>1a, <2>4, <2>10
<1>4. QED
  BY <1>1, <1>2, <1>3

(* What the reference has found in the first n bytes. *)
Scans == [from : Nat, held : RawRows]
NoScan == [from |-> 0, held |-> <<>>]

FromOf(was, bytes, n) == IF was.from = 0 /\ bytes[n] = HeadByte THEN n ELSE was.from

LEMMA ScannedIs ==
  ASSUME NEW was \in Scans, NEW bytes \in Raw, NEW n \in Nat, n >= 1, n <= Len(bytes)
  PROVE  /\ FromOf(was, bytes, n) \in Nat
         /\ FromOf(was, bytes, n) # 0 => SubSeq(bytes, FromOf(was, bytes, n), n) \in Raw
         /\ Scanned(was, bytes, n) \in Scans
<1>1. PICK from \in Nat : from = FromOf(was, bytes, n)
  BY DEF FromOf, Scans
<1>2. PICK frame : frame = SubSeq(bytes, from, n)
  OBVIOUS
<1>3. from # 0 => frame \in Raw
  <2>1. CASE from # 0
    <3>1. IsCut(frame, bytes, from, n)
      BY <1>2, <2>1, CutOfRow
    <3>2. QED
      BY <3>1 DEF IsCut
  <2>2. QED
    BY <2>1
<1>4. PICK found \in RawRows : found = was.held
  BY DEF Scans
<1>5. Scanned(was, bytes, n)
        = IF from # 0 /\ Whole(frame)
          THEN [from |-> 0, held |-> IF Sound(frame) THEN Append(found, frame) ELSE found]
          ELSE [from |-> from, held |-> found]
  BY <1>1, <1>2, <1>4 DEF Scanned, FromOf
<1>6. from # 0 => Append(found, frame) \in RawRows
  BY <1>3 DEF RawRows
<1>7. 0 \in Nat
  OBVIOUS
<1>8. CASE from # 0 /\ Whole(frame)
  <2>1. PICK h : h = IF Sound(frame) THEN Append(found, frame) ELSE found
    OBVIOUS
  <2>2. h \in RawRows
    BY <1>6, <1>8, <2>1
  <2>3. Scanned(was, bytes, n) = [from |-> 0, held |-> h]
    BY <1>5, <1>8, <2>1
  <2>4. Scanned(was, bytes, n) \in Scans
    BY <1>7, <2>2, <2>3 DEF Scans
  <2>5. QED
    BY <1>1, <1>2, <1>3, <2>4
<1>9. CASE ~(from # 0 /\ Whole(frame))
  <2>1. Scanned(was, bytes, n) = [from |-> from, held |-> found]
    BY <1>5, <1>9
  <2>2. Scanned(was, bytes, n) \in Scans
    BY <2>1 DEF Scans
  <2>3. QED
    BY <1>1, <1>2, <1>3, <2>2
<1>10. QED
  BY <1>8, <1>9

ScanFrom(t, bytes) ==
  t = [n \in 0 .. Len(bytes) |-> IF n = 0 THEN NoScan ELSE Scanned(t[n - 1], bytes, n)]

IsScans(t, bytes) ==
  /\ t \in [0 .. Len(bytes) -> Scans] /\ t[0] = NoScan
  /\ \A k \in 1 .. Len(bytes) : t[k] = Scanned(t[k - 1], bytes, k)

ScanAt(bytes) == (CHOOSE t : ScanFrom(t, bytes))[Len(bytes)]

LEMMA ScansAre ==
  ASSUME NEW bytes \in Raw
  PROVE  \E t : IsScans(t, bytes) /\ ScanAt(bytes) = t[Len(bytes)] /\ Scan(bytes) = ScanAt(bytes).held
<1>1. PICK l \in Nat : l = Len(bytes)
  BY DEF Raw
<1>2. PICK G : G = [k \in 1 .. l |-> [x \in Scans |-> Scanned(x, bytes, k)]]
  OBVIOUS
<1>3. ASSUME NEW k \in 1 .. l, NEW x \in Scans PROVE Scanned(x, bytes, k) \in Scans
  <2>1. k \in Nat /\ k >= 1 /\ k <= Len(bytes)
    BY <1>1
  <2>2. QED
    BY <2>1, ScannedIs
<1>4. G \in [1 .. l -> [Scans -> Scans]]
  BY <1>2, <1>3
<1>5. NoScan \in Scans
  BY DEF NoScan, Scans, RawRows
<1>6. PICK g \in [0 .. l -> Scans] : Steps(g, l, NoScan, G)
  BY <1>4, <1>5, StepsExist
<1>7. ASSUME NEW k \in 1 .. l PROVE G[k][g[k - 1]] = Scanned(g[k - 1], bytes, k)
  <2>1. k - 1 \in 0 .. l
    OBVIOUS
  <2>2. PICK x \in Scans : x = g[k - 1]
    BY <2>1
  <2>3. G[k][x] = Scanned(x, bytes, k)
    BY <1>2
  <2>4. QED
    BY <2>2, <2>3
<1>8. \A k \in 0 .. l : (IF k = 0 THEN NoScan ELSE G[k][g[k - 1]])
                          = IF k = 0 THEN NoScan ELSE Scanned(g[k - 1], bytes, k)
  BY <1>7
<1>9. ScanFrom(g, bytes)
  BY <1>1, <1>6, <1>8 DEF Steps, ScanFrom
<1>10. PICK t : t = CHOOSE x : ScanFrom(x, bytes)
  OBVIOUS
<1>11. ScanFrom(t, bytes)
  BY <1>9, <1>10
<1>12. ScanAt(bytes) = t[l]
  BY <1>1, <1>10 DEF ScanAt
<1>13. Scan(bytes) = t[l].held
  BY <1>1, <1>10 DEF Scan, ScanFrom, NoScan
<1>14. t[0] = NoScan /\ \A k \in 1 .. l : t[k] = Scanned(t[k - 1], bytes, k)
  BY <1>1, <1>11 DEF ScanFrom
<1>15. g[0] = NoScan /\ \A k \in 1 .. l : g[k] = Scanned(g[k - 1], bytes, k)
  BY <1>1, <1>9 DEF ScanFrom
<1>16. \A k \in 0 .. l : t[k] = g[k]
  <2>1. StepAlike(t, g, l)
    BY <1>14, <1>15 DEF StepAlike
  <2>2. Alike(t, g, l)
    BY <2>1, SameSteps
  <2>3. QED
    BY <2>2 DEF Alike
<1>17. IsScans(g, bytes)
  BY <1>1, <1>15 DEF IsScans
<1>18. l \in 0 .. l
  OBVIOUS
<1>19. QED
  BY <1>1, <1>12, <1>13, <1>16, <1>17, <1>18

LEMMA ScanMore ==
  /\ ScanAt(<<>>) = NoScan
  /\ \A bytes \in Raw, b \in Byte :
       ScanAt(bytes \o <<b>>) = Scanned(ScanAt(bytes), bytes \o <<b>>, Len(bytes) + 1)
<1>1. ScanAt(<<>>) = NoScan
  <2>1. PICK s : s = <<>>
    OBVIOUS
  <2>2. s \in Raw /\ Len(s) = 0
    BY <2>1 DEF Raw
  <2>3. PICK t : IsScans(t, s) /\ ScanAt(s) = t[Len(s)]
    BY <2>2, ScansAre
  <2>4. QED
    BY <2>1, <2>2, <2>3 DEF IsScans
<1>2. ASSUME NEW bytes \in Raw, NEW b \in Byte
      PROVE  ScanAt(bytes \o <<b>>) = Scanned(ScanAt(bytes), bytes \o <<b>>, Len(bytes) + 1)
  <2>1. PICK more : more = bytes \o <<b>>
    OBVIOUS
  <2>2. PICK l \in Nat : l = Len(bytes)
    BY DEF Raw
  <2>3. more \in Raw
    BY <2>1 DEF Raw
  <2>4. /\ Len(more) = l + 1 /\ more[l + 1] = b /\ \A i \in 1 .. l : more[i] = bytes[i]
        /\ \A from \in 1 .. l + 1, k \in 0 .. l : SubSeq(more, from, k) = SubSeq(bytes, from, k)
    BY <2>1, <2>2, <2>3, CutsGrow
  <2>5. PICK t : IsScans(t, bytes) /\ ScanAt(bytes) = t[Len(bytes)]
    BY ScansAre
  <2>6. PICK u : IsScans(u, more) /\ ScanAt(more) = u[Len(more)]
    BY <2>3, ScansAre
  <2>7. t[0] = NoScan /\ \A k \in 1 .. l : t[k] = Scanned(t[k - 1], bytes, k)
    BY <2>2, <2>5 DEF IsScans
  <2>8. u[0] = NoScan /\ \A k \in 1 .. l + 1 : u[k] = Scanned(u[k - 1], more, k)
    BY <2>4, <2>6 DEF IsScans
  <2>9. ASSUME NEW k \in 1 .. l, u[k - 1] = t[k - 1] PROVE u[k] = t[k]
    <3>1. PICK was : was = t[k - 1]
      OBVIOUS
    <3>2. FromOf(was, more, k) = FromOf(was, bytes, k)
      BY <2>4 DEF FromOf
    <3>3. PICK from : from = FromOf(was, bytes, k)
      OBVIOUS
    <3>4. was \in Scans
      <4>1. k - 1 \in 0 .. l
        OBVIOUS
      <4>2. QED
        BY <2>2, <2>5, <3>1, <4>1 DEF IsScans
    <3>5. CASE from \in 1 .. l + 1
      <4>1. SubSeq(more, from, k) = SubSeq(bytes, from, k)
        BY <2>4, <3>5
      <4>2. Scanned(was, more, k) = Scanned(was, bytes, k)
        BY <3>2, <3>3, <4>1 DEF Scanned, FromOf
      <4>3. QED
        BY <2>7, <2>8, <2>9, <3>1, <4>2
    <3>6. CASE from \notin 1 .. l + 1
      <4>1. CASE from = 0
        <5>1. Scanned(was, more, k) = Scanned(was, bytes, k)
          BY <3>2, <3>3, <4>1 DEF Scanned, FromOf
        <5>2. QED
          BY <2>7, <2>8, <2>9, <3>1, <5>1
      <4>2. CASE from # 0
        <5>1. PICK s : s = SubSeq(more, from, k)
          OBVIOUS
        <5>2. PICK v : v = SubSeq(bytes, from, k)
          OBVIOUS
        <5>3. from \in Nat /\ from > k
          BY <3>3, <3>4, <3>6, <4>2 DEF FromOf, Scans
        <5>4. s = <<>> /\ v = <<>>
          BY <2>2, <2>4, <5>1, <5>2, <5>3, SubSeqEmpty
        <5>5. Scanned(was, more, k) = Scanned(was, bytes, k)
          BY <3>2, <3>3, <5>1, <5>2, <5>4 DEF Scanned, FromOf
        <5>6. QED
          BY <2>7, <2>8, <2>9, <3>1, <5>5
      <4>3. QED
        BY <4>1, <4>2
    <3>7. QED
      BY <3>5, <3>6
  <2>10. \A k \in 0 .. l : u[k] = t[k]
    <3>1. StepAlike(u, t, l)
      BY <2>7, <2>8, <2>9 DEF StepAlike
    <3>2. Alike(u, t, l)
      BY <3>1, SameSteps
    <3>3. QED
      BY <3>2 DEF Alike
  <2>11. l + 1 \in 1 .. l + 1 /\ l + 1 - 1 = l /\ l \in 0 .. l
    OBVIOUS
  <2>12. u[l + 1] = Scanned(t[l], more, l + 1)
    BY <2>8, <2>10, <2>11
  <2>13. QED
    BY <2>1, <2>2, <2>4, <2>5, <2>6, <2>12
<1>3. QED
  BY <1>1, <1>2

(* The parser holds what the reference holds, and has returned what the reference has found. *)
Parsed(p, done, x, bytes) ==
  /\ x \in Scans /\ x.from <= Len(bytes) /\ done \in RawRows
  /\ Short(p)
  /\ p.sts = "head" <=> x.from = 0
  /\ x.from # 0 => p.frame = SubSeq(bytes, x.from, Len(bytes))
  /\ Len(done) = Len(x.held)
  /\ \A i \in 1 .. Len(x.held) : done[i] = MyMemcpy(x.held[i])

LEMMA CopyIs ==
  ASSUME NEW frame \in Raw
  PROVE  MyMemcpy(frame) \in Raw
<1>1. PICK n \in Nat : n = Len(frame)
  BY DEF Raw
<1>2. PICK k \in Nat : k = n % CopyWraps
  BY CopyWrapsAssumption
<1>3. k <= n
  BY <1>2, CopyWrapsAssumption
<1>4. 1 \in Nat /\ 1 >= 1
  OBVIOUS
<1>5. IsCut(SubSeq(frame, 1, k), frame, 1, k)
  BY <1>1, <1>3, <1>4, CutOfRow
<1>6. QED
  BY <1>1, <1>2, <1>5 DEF IsCut, MyMemcpy

LEMMA OneMore ==
  ASSUME NEW rows \in RawRows, NEW r \in Raw, NEW n \in Nat, n = Len(rows)
  PROVE  /\ Append(rows, r) \in RawRows /\ Len(Append(rows, r)) = n + 1
         /\ Append(rows, r)[n + 1] = r /\ \A i \in 1 .. n : Append(rows, r)[i] = rows[i]
  BY DEF RawRows

LEMMA ParsedMore ==
  ASSUME NEW bytes \in Raw, NEW b \in Byte, NEW p \in ParserStates, Shaped(p), NEW done, NEW x,
         Parsed(p, done, x, bytes), NEW more \in Raw, more = bytes \o <<b>>,
         NEW w, w.p = p, w.out = done, ~(p.sts = "len1" /\ b # 0)
  PROVE  Parsed(Takes(w, b).p, Takes(w, b).out, Scanned(x, more, Len(bytes) + 1), more)
<1>1. PICK n \in Nat : n = Len(bytes)
  BY DEF Raw
<1>2. /\ Len(more) = n + 1 /\ more[n + 1] = b
      /\ \A from \in 1 .. n + 1 : SubSeq(more, from, n + 1) = Append(SubSeq(bytes, from, n), b)
  BY <1>1, CutsGrow
<1>3. /\ x \in Scans /\ x.from <= n /\ done \in RawRows
      /\ p.sts = "head" <=> x.from = 0
      /\ x.from # 0 => p.frame = SubSeq(bytes, x.from, n)
      /\ Len(done) = Len(x.held)
      /\ \A i \in 1 .. Len(x.held) : done[i] = MyMemcpy(x.held[i])
  BY <1>1 DEF Parsed
<1>4. PICK xf \in Nat : xf = x.from
  BY <1>3 DEF Scans
<1>5. PICK found \in RawRows : found = x.held
  BY <1>3 DEF Scans
<1>6. PICK h \in Nat : h = Len(found) /\ h = Len(done)
  BY <1>3, <1>5 DEF RawRows
<1>7. PICK q : q = ParserTakes(p, b)
  OBVIOUS
<1>8. PICK f : f = Append(p.frame, b)
  OBVIOUS
<1>9. PICK new : new = IF FrameEnds(p, b) THEN Append(done, MyMemcpy(f)) ELSE done
  OBVIOUS
<1>a. Short(p)
  BY DEF Parsed
<1>b. Short(q)
  BY <1>7, <1>a, ShortStep
<1>10. Takes(w, b).p = q /\ Takes(w, b).out = new
  BY <1>7, <1>8, <1>9 DEF Takes
<1>11. PICK y : y = Scanned(x, more, n + 1)
  OBVIOUS
<1>12. y \in Scans
  <2>1. n + 1 \in Nat /\ n + 1 >= 1 /\ n + 1 <= Len(more)
    BY <1>2
  <2>2. QED
    BY <1>3, <1>11, <2>1, ScannedIs
<1>13. f \in Raw
  <2>1. p.frame \in Raw
    BY DEF ParserStates
  <2>2. QED
    BY <1>8, <2>1 DEF Raw
<1>14. PICK from : from = IF xf = 0 /\ b = HeadByte THEN n + 1 ELSE xf
  OBVIOUS
<1>15. y = IF from # 0 /\ Whole(SubSeq(more, from, n + 1))
           THEN [from |-> 0, held |-> IF Sound(SubSeq(more, from, n + 1))
                                      THEN Append(found, SubSeq(more, from, n + 1)) ELSE found]
           ELSE [from |-> from, held |-> found]
  BY <1>2, <1>4, <1>5, <1>11, <1>14 DEF Scanned
<1>16. p.sts \in Sts
  BY DEF ParserStates
<1>17. CASE p.sts = "head"
  <2>1. xf = 0
    BY <1>3, <1>4, <1>17
  <2>2. ~ FrameEnds(p, b)
    BY <1>17 DEF FrameEnds
  <2>3. new = done
    BY <1>9, <2>2
  <2>4. CASE b = HeadByte
    <3>1. q.sts = "cmd1" /\ q.frame = <<b>>
      BY <1>7, <1>17, <2>4, ParserStep
    <3>2. from = n + 1 /\ from \in 1 .. n + 1 /\ from # 0
      BY <1>14, <2>1, <2>4
    <3>3. SubSeq(bytes, n + 1, n) = <<>>
      BY SubSeqEmpty
    <3>4. SubSeq(more, n + 1, n + 1) = <<b>>
      <4>1. SubSeq(more, n + 1, n + 1) = Append(<<>>, b)
        BY <1>2, <3>2, <3>3
      <4>2. Append(<<>>, b) = <<b>>
        OBVIOUS
      <4>3. QED
        BY <4>1, <4>2
    <3>5. ~ Whole(SubSeq(more, from, n + 1))
      <4>1. PICK g : g = <<b>>
        OBVIOUS
      <4>2. Len(g) = 1
        BY <4>1
      <4>3. ~ Whole(g)
        BY <4>2 DEF Whole
      <4>4. QED
        BY <3>2, <3>4, <4>1, <4>3
    <3>6. y = [from |-> n + 1, held |-> found]
      BY <1>15, <3>2, <3>5
    <3>7. Parsed(q, done, y, more)
      <4>1. y.from = n + 1 /\ y.held = found /\ y.from <= Len(more) /\ y.from # 0
        BY <1>2, <3>6
      <4>2. q.sts # "head"
        BY <3>1
      <4>3. q.frame = SubSeq(more, y.from, Len(more))
        BY <1>2, <3>1, <3>4, <4>1
      <4>4. Len(done) = Len(y.held) /\ \A i \in 1 .. Len(y.held) : done[i] = MyMemcpy(y.held[i])
        BY <1>3, <1>5, <4>1
      <4>5. QED
        BY <1>b, <1>3, <1>12, <4>1, <4>2, <4>3, <4>4 DEF Parsed
    <3>8. QED
      BY <1>1, <1>10, <1>11, <2>3, <3>7
  <2>5. CASE b # HeadByte
    <3>1. q.sts = "head"
      BY <1>7, <1>17, <2>5, ParserStep
    <3>2. from = 0
      BY <1>14, <2>1, <2>5
    <3>3. y = [from |-> 0, held |-> found]
      BY <1>15, <3>2
    <3>4. Parsed(q, done, y, more)
      <4>1. y.from = 0 /\ y.held = found /\ y.from <= Len(more)
        BY <1>2, <3>3
      <4>2. Len(done) = Len(y.held) /\ \A i \in 1 .. Len(y.held) : done[i] = MyMemcpy(y.held[i])
        BY <1>3, <1>5, <4>1
      <4>3. QED
        BY <1>b, <1>3, <1>12, <3>1, <4>1, <4>2 DEF Parsed
    <3>5. QED
      BY <1>1, <1>10, <1>11, <2>3, <3>4
  <2>6. QED
    BY <2>4, <2>5
<1>18. CASE p.sts # "head"
  <2>1. xf # 0 /\ from = xf /\ from \in 1 .. n + 1 /\ from # 0 /\ from <= n
    BY <1>3, <1>4, <1>14, <1>18
  <2>2. SubSeq(more, from, n + 1) = f
    <3>1. SubSeq(more, from, n + 1) = Append(SubSeq(bytes, from, n), b)
      BY <1>2, <2>1
    <3>2. p.frame = SubSeq(bytes, from, n)
      BY <1>3, <1>4, <2>1
    <3>3. QED
      BY <1>8, <3>1, <3>2
  <2>3. CASE p.sts = "check"
    <3>1. q.sts = "head" /\ Whole(f) /\ (Sound(f) <=> p.sum = b)
      BY <1>7, <1>8, <1>a, <2>3, ParserStep
    <3>2. FrameEnds(p, b) <=> Sound(f)
      BY <2>3, <3>1 DEF FrameEnds
    <3>3. y = [from |-> 0, held |-> IF Sound(f) THEN Append(found, f) ELSE found]
      BY <1>15, <2>1, <2>2, <3>1
    <3>4. y.from = 0 /\ y.from <= Len(more)
      BY <1>2, <3>3
    <3>5. CASE Sound(f)
      <4>1. y.held = Append(found, f)
        BY <3>3, <3>5
      <4>2. new = Append(done, MyMemcpy(f))
        BY <1>9, <3>2, <3>5
      <4>3. PICK g \in Raw : g = MyMemcpy(f)
        BY <1>13, CopyIs
      <4>4. /\ y.held \in RawRows /\ Len(y.held) = h + 1 /\ y.held[h + 1] = f
            /\ \A i \in 1 .. h : y.held[i] = found[i]
        <5>1. h = Len(found)
          BY <1>6
        <5>2. /\ Append(found, f) \in RawRows /\ Len(Append(found, f)) = h + 1
              /\ Append(found, f)[h + 1] = f /\ \A i \in 1 .. h : Append(found, f)[i] = found[i]
          BY <1>13, <5>1, OneMore
        <5>3. QED
          BY <4>1, <5>2
      <4>5. /\ new \in RawRows /\ Len(new) = h + 1 /\ new[h + 1] = g
            /\ \A i \in 1 .. h : new[i] = done[i]
        BY <1>3, <1>6, <4>2, <4>3, OneMore
      <4>6. ASSUME NEW i \in 1 .. h + 1 PROVE new[i] = MyMemcpy(y.held[i])
        <5>1. CASE i = h + 1
          BY <4>3, <4>4, <4>5, <5>1
        <5>2. CASE i # h + 1
          <6>1. i \in 1 .. h
            BY <5>2
          <6>2. done[i] = MyMemcpy(found[i])
            BY <1>3, <1>5, <1>6, <6>1
          <6>3. QED
            BY <4>4, <4>5, <6>1, <6>2
        <5>3. QED
          BY <5>1, <5>2
      <4>7. Parsed(q, new, y, more)
        BY <1>b, <1>12, <3>1, <3>4, <4>4, <4>5, <4>6 DEF Parsed
      <4>8. QED
        BY <1>1, <1>10, <1>11, <4>7
    <3>6. CASE ~ Sound(f)
      <4>1. y.held = found
        BY <3>3, <3>6
      <4>2. new = done
        BY <1>9, <3>2, <3>6
      <4>3. Parsed(q, done, y, more)
        BY <1>b, <1>3, <1>5, <1>12, <3>1, <3>4, <4>1 DEF Parsed
      <4>4. QED
        BY <1>1, <1>10, <1>11, <4>2, <4>3
    <3>7. QED
      BY <3>5, <3>6
  <2>4. CASE p.sts # "check"
    <3>1. q.sts # "head" /\ ~ Whole(f) /\ q.frame = f
      BY <1>7, <1>8, <1>18, <2>4, ParserStep
    <3>2. ~ FrameEnds(p, b)
      BY <2>4 DEF FrameEnds
    <3>3. y = [from |-> from, held |-> found]
      BY <1>15, <2>2, <3>1
    <3>4. new = done
      BY <1>9, <3>2
    <3>5. y.from = from /\ y.from <= Len(more) /\ y.from # 0 /\ y.held = found
      BY <1>2, <2>1, <3>3
    <3>6. q.frame = SubSeq(more, y.from, Len(more))
      BY <1>2, <2>2, <3>1, <3>5
    <3>7. Parsed(q, done, y, more)
      BY <1>b, <1>3, <1>5, <1>12, <3>1, <3>5, <3>6 DEF Parsed
    <3>8. QED
      BY <1>1, <1>10, <1>11, <3>4, <3>7
  <2>5. QED
    BY <2>3, <2>4
<1>19. QED
  BY <1>17, <1>18

(* A whole chunk. *)
Pairs == [p : {p \in ParserStates : Shaped(p)}, out : RawRows, over : BOOLEAN]

LEMMA TakesIs ==
  ASSUME NEW w \in Pairs, NEW b \in Byte
  PROVE  Takes(w, b) \in Pairs
<1>1. PICK p \in ParserStates : p = w.p /\ Shaped(p)
  BY DEF Pairs
<1>2. PICK done \in RawRows : done = w.out
  BY DEF Pairs
<1>3. PICK q \in ParserStates : q = ParserTakes(p, b) /\ Shaped(q)
  BY <1>1, ParserStep
<1>4. PICK f : f = Append(p.frame, b)
  OBVIOUS
<1>5. f \in Raw
  <2>1. p.frame \in Raw
    BY DEF ParserStates
  <2>2. QED
    BY <1>4, <2>1 DEF Raw
<1>6. PICK g \in Raw : g = MyMemcpy(f)
  BY <1>5, CopyIs
<1>7. Append(done, g) \in RawRows
  BY DEF RawRows
<1>8. PICK new \in RawRows : new = IF FrameEnds(p, b) THEN Append(done, MyMemcpy(f)) ELSE done
  BY <1>6, <1>7
<1>9. PICK over \in BOOLEAN : over = (w.over \/ (p.sts = "len1" /\ b # 0))
  OBVIOUS
<1>10. Takes(w, b) = [p |-> q, out |-> new, over |-> over]
  BY <1>1, <1>2, <1>3, <1>4, <1>8, <1>9 DEF Takes
<1>11. QED
  BY <1>3, <1>10 DEF Pairs

AfterFrom(t, w, chunk) ==
  t = [n \in 0 .. Len(chunk) |-> IF n = 0 THEN w ELSE Takes(t[n - 1], chunk[n])]

After(w, chunk) == (CHOOSE t : AfterFrom(t, w, chunk))[Len(chunk)]

IsAfter(t, w, chunk) ==
  /\ t \in [0 .. Len(chunk) -> Pairs] /\ t[0] = w
  /\ \A k \in 1 .. Len(chunk) : t[k] = Takes(t[k - 1], chunk[k])

LEMMA AfterIs ==
  ASSUME NEW w \in Pairs, NEW chunk \in Raw
  PROVE  \E t : IsAfter(t, w, chunk) /\ After(w, chunk) = t[Len(chunk)]
<1>1. PICK l \in Nat : l = Len(chunk)
  BY DEF Raw
<1>2. PICK G : G = [k \in 1 .. l |-> [x \in Pairs |-> Takes(x, chunk[k])]]
  OBVIOUS
<1>3. ASSUME NEW k \in 1 .. l, NEW x \in Pairs PROVE Takes(x, chunk[k]) \in Pairs
  <2>1. PICK b \in Byte : b = chunk[k]
    BY <1>1 DEF Raw
  <2>2. Takes(x, b) \in Pairs
    BY TakesIs
  <2>3. QED
    BY <2>1, <2>2
<1>4. G \in [1 .. l -> [Pairs -> Pairs]]
  BY <1>2, <1>3
<1>5. PICK g \in [0 .. l -> Pairs] : Steps(g, l, w, G)
  BY <1>4, StepsExist
<1>6. ASSUME NEW k \in 1 .. l PROVE G[k][g[k - 1]] = Takes(g[k - 1], chunk[k])
  <2>1. k - 1 \in 0 .. l
    OBVIOUS
  <2>2. PICK x \in Pairs : x = g[k - 1]
    BY <2>1
  <2>3. G[k][x] = Takes(x, chunk[k])
    BY <1>2
  <2>4. QED
    BY <2>2, <2>3
<1>7. \A k \in 0 .. l : (IF k = 0 THEN w ELSE G[k][g[k - 1]])
                          = IF k = 0 THEN w ELSE Takes(g[k - 1], chunk[k])
  BY <1>6
<1>8. AfterFrom(g, w, chunk)
  BY <1>1, <1>5, <1>7 DEF Steps, AfterFrom
<1>9. PICK t : t = CHOOSE x : AfterFrom(x, w, chunk)
  OBVIOUS
<1>10. AfterFrom(t, w, chunk)
  BY <1>8, <1>9
<1>11. After(w, chunk) = t[l]
  BY <1>1, <1>9 DEF After
<1>12. t[0] = w /\ \A k \in 1 .. l : t[k] = Takes(t[k - 1], chunk[k])
  BY <1>1, <1>10 DEF AfterFrom
<1>13. g[0] = w /\ \A k \in 1 .. l : g[k] = Takes(g[k - 1], chunk[k])
  BY <1>1, <1>8, SMTT(30) DEF AfterFrom
<1>14. \A k \in 0 .. l : t[k] = g[k]
  <2>1. StepAlike(t, g, l)
    BY <1>12, <1>13 DEF StepAlike
  <2>2. Alike(t, g, l)
    BY <2>1, SameSteps
  <2>3. QED
    BY <2>2 DEF Alike
<1>15. IsAfter(g, w, chunk)
  BY <1>1, <1>13 DEF IsAfter
<1>16. l \in 0 .. l
  OBVIOUS
<1>17. QED
  BY <1>1, <1>11, <1>14, <1>15, <1>16

(* The row read so far: bytes and the first k of the chunk. *)
ReadIn(bytes, chunk, k) == bytes \o SubSeq(chunk, 1, k)

LEMMA ReadsMore ==
  ASSUME NEW bytes \in Raw, NEW chunk \in Raw, NEW k \in Nat, k < Len(chunk)
  PROVE  /\ ReadIn(bytes, chunk, k) \in Raw /\ ReadIn(bytes, chunk, k + 1) \in Raw
         /\ chunk[k + 1] \in Byte
         /\ ReadIn(bytes, chunk, k + 1) = ReadIn(bytes, chunk, k) \o <<chunk[k + 1]>>
<1>1. PICK s : s = SubSeq(chunk, 1, k)
  OBVIOUS
<1>2. PICK t : t = SubSeq(chunk, 1, k + 1)
  OBVIOUS
<1>3. PICK l \in Nat : l = Len(chunk)
  BY DEF Raw
<1>4. 1 \in Nat /\ 1 >= 1 /\ k + 1 \in Nat /\ k + 1 <= l /\ k <= l /\ k + 1 \in 1 .. l
  BY <1>3
<1>5. IsCut(s, chunk, 1, k) /\ IsCut(t, chunk, 1, k + 1)
  BY <1>1, <1>2, <1>3, <1>4, CutOfRow
<1>6. chunk[k + 1] \in Byte
  BY <1>3, <1>4 DEF Raw
<1>7. PICK b \in Byte : b = chunk[k + 1]
  BY <1>6
<1>8. s \in Raw /\ Len(s) = k /\ \A i \in 1 .. k : s[i] = chunk[i]
  <2>1. s \in Raw /\ Len(s) = IF 1 <= k THEN k - 1 + 1 ELSE 0
    BY <1>5 DEF IsCut
  <2>2. \A i \in 1 .. k - 1 + 1 : s[i] = chunk[1 + i - 1]
    BY <1>5 DEF IsCut
  <2>3. \A i \in 1 .. k : i \in 1 .. k - 1 + 1 /\ 1 + i - 1 = i
    OBVIOUS
  <2>4. (IF 1 <= k THEN k - 1 + 1 ELSE 0) = k
    OBVIOUS
  <2>5. QED
    BY <2>1, <2>2, <2>3, <2>4
<1>9. t \in Raw /\ Len(t) = k + 1 /\ \A i \in 1 .. k + 1 : t[i] = chunk[i]
  <2>1. t \in Raw /\ Len(t) = IF 1 <= k + 1 THEN k + 1 - 1 + 1 ELSE 0
    BY <1>5 DEF IsCut
  <2>2. \A i \in 1 .. k + 1 - 1 + 1 : t[i] = chunk[1 + i - 1]
    BY <1>5 DEF IsCut
  <2>3. \A i \in 1 .. k + 1 : i \in 1 .. k + 1 - 1 + 1 /\ 1 + i - 1 = i
    OBVIOUS
  <2>4. (IF 1 <= k + 1 THEN k + 1 - 1 + 1 ELSE 0) = k + 1
    OBVIOUS
  <2>5. QED
    BY <2>1, <2>2, <2>3, <2>4
<1>10. t = s \o <<b>>
  <2>1. PICK u : u = s \o <<b>>
    OBVIOUS
  <2>2. u \in Seq(Byte) /\ Len(u) = k + 1 /\ u[k + 1] = b /\ \A i \in 1 .. k : u[i] = s[i]
    <3>1. s \in Seq(Byte) /\ Len(s) = k /\ <<b>> \in Seq(Byte) /\ Len(<<b>>) = 1
      BY <1>8 DEF Raw
    <3>2. /\ u \in Seq(Byte) /\ Len(u) = k + 1
          /\ \A i \in 1 .. k + 1 : u[i] = IF i <= k THEN s[i] ELSE <<b>>[i - k]
      BY <2>1, <3>1, ConcatProperties
    <3>3. u[k + 1] = b
      <4>1. k + 1 \in 1 .. k + 1 /\ ~(k + 1 <= k) /\ k + 1 - k = 1
        OBVIOUS
      <4>2. QED
        BY <3>2, <4>1
    <3>4. \A i \in 1 .. k : u[i] = s[i]
      BY <3>2
    <3>5. QED
      BY <3>2, <3>3, <3>4
  <2>3. \A i \in 1 .. k + 1 : t[i] = u[i]
    <3>1. \A i \in 1 .. k : t[i] = chunk[i] /\ u[i] = chunk[i]
      BY <1>8, <1>9, <2>2
    <3>2. t[k + 1] = b
      BY <1>7, <1>9
    <3>3. QED
      BY <2>2, <3>1, <3>2
  <2>4. t \in Seq(Byte) /\ Len(t) = Len(u) /\ \A i \in 1 .. Len(t) : t[i] = u[i]
    BY <1>9, <2>2, <2>3 DEF Raw
  <2>5. QED
    BY <2>1, <2>2, <2>4, SeqEqual
<1>11. bytes \in Seq(Byte) /\ s \in Seq(Byte) /\ t \in Seq(Byte) /\ <<b>> \in Seq(Byte)
  BY <1>8, <1>9 DEF Raw
<1>12. (bytes \o s) \o <<b>> = bytes \o (s \o <<b>>)
  BY <1>11, ConcatAssociative
<1>13. bytes \o s \in Seq(Byte) /\ bytes \o t \in Seq(Byte)
  BY <1>11, ConcatProperties
<1>14. QED
  BY <1>1, <1>2, <1>6, <1>7, <1>10, <1>12, <1>13 DEF ReadIn, Raw

LEMMA ChunkIsParsed ==
  ASSUME NEW bytes \in Raw, NEW chunk \in Raw, NEW w \in Pairs,
         Parsed(w.p, w.out, ScanAt(bytes), bytes)
  PROVE  /\ After(w, chunk) \in Pairs
         /\ ~ After(w, chunk).over =>
              Parsed(After(w, chunk).p, After(w, chunk).out, ScanAt(bytes \o chunk), bytes \o chunk)
<1>1. PICK l \in Nat : l = Len(chunk)
  BY DEF Raw
<1>2. PICK t : IsAfter(t, w, chunk) /\ After(w, chunk) = t[Len(chunk)]
  BY AfterIs
<1>3. /\ t \in [0 .. l -> Pairs] /\ t[0] = w
      /\ \A k \in 1 .. l : t[k] = Takes(t[k - 1], chunk[k])
  BY <1>1, <1>2 DEF IsAfter
<1>4. PICK T : T = {k \in 0 .. l : /\ ~ t[k].over
                                    /\ ~ Parsed(t[k].p, t[k].out, ScanAt(ReadIn(bytes, chunk, k)),
                                                ReadIn(bytes, chunk, k))}
  OBVIOUS
<1>5. ReadIn(bytes, chunk, 0) = bytes
  <2>1. SubSeq(chunk, 1, 0) = <<>>
    BY SubSeqEmpty
  <2>2. bytes \o <<>> = bytes
    BY ConcatEmptySeq DEF Raw
  <2>3. QED
    BY <2>1, <2>2 DEF ReadIn
<1>6. ReadIn(bytes, chunk, l) = bytes \o chunk
  <2>1. SubSeq(chunk, 1, l) = chunk
    BY <1>1, SubSeqFull DEF Raw
  <2>2. QED
    BY <2>1 DEF ReadIn
<1>7. CASE T # {}
  <2>1. T \subseteq Nat
    BY <1>4
  <2>2. PICK k \in T : \A m \in T : k <= m
    BY <1>7, <2>1, Least
  <2>3. k \in 0 .. l /\ k # 0
    BY <1>3, <1>4, <1>5
  <2>4. PICK j \in Nat : j = k - 1 /\ k = j + 1
    BY <2>3
  <2>5. j \in 0 .. l /\ j \notin T /\ j < l /\ k \in 1 .. l
    BY <2>2, <2>3, <2>4
  <2>6. PICK row \in Raw : row = ReadIn(bytes, chunk, j)
    BY <1>1, <2>5, ReadsMore
  <2>7. PICK b \in Byte : b = chunk[k]
    BY <1>1, <2>4, <2>5, ReadsMore
  <2>8. PICK more \in Raw : more = ReadIn(bytes, chunk, k) /\ more = row \o <<b>>
    BY <1>1, <2>4, <2>5, <2>6, <2>7, ReadsMore
  <2>9. PICK p \in ParserStates : p = t[j].p /\ Shaped(p)
    BY <1>3, <2>5 DEF Pairs
  <2>10. PICK done : done = t[j].out
    OBVIOUS
  <2>11. t[k] = Takes(t[j], b) /\ ~ t[k].over
    BY <1>3, <1>4, <2>2, <2>4, <2>5, <2>7
  <2>12. ~ t[j].over /\ ~(p.sts = "len1" /\ b # 0)
    <3>1. Takes(t[j], b).over = (t[j].over \/ (t[j].p.sts = "len1" /\ b # 0))
      BY DEF Takes
    <3>2. QED
      BY <2>9, <2>11, <3>1
  <2>13. Parsed(p, done, ScanAt(row), row)
    BY <1>4, <2>5, <2>6, <2>9, <2>10, <2>12
  <2>14. PICK v : v = Takes(t[j], b)
    OBVIOUS
  <2>15. Parsed(v.p, v.out, Scanned(ScanAt(row), more, Len(row) + 1), more)
    BY <2>8, <2>9, <2>10, <2>12, <2>13, <2>14, ParsedMore
  <2>16. ScanAt(more) = Scanned(ScanAt(row), more, Len(row) + 1)
    BY <2>8, ScanMore
  <2>17. QED
    BY <1>4, <2>2, <2>8, <2>11, <2>14, <2>15, <2>16
<1>8. CASE T = {}
  <2>1. l \in 0 .. l
    OBVIOUS
  <2>2. ~ t[l].over => Parsed(t[l].p, t[l].out, ScanAt(bytes \o chunk), bytes \o chunk)
    BY <1>4, <1>6, <1>8, <2>1
  <2>3. QED
    BY <1>1, <1>2, <1>3, <2>1, <2>2
<1>9. QED
  BY <1>7, <1>8

(* A composed frame is found as it is. *)
LEMMA FrameIsFound ==
  ASSUME NEW data \in Raw, Len(data) < 256
  PROVE  Scan(FrameSet(1, 2, data)) = <<FrameSet(1, 2, data)>>
<1>1. PICK d \in Nat : d = Len(data)
  BY DEF Raw
<1>2. PICK lead : lead = <<1, 2, (d \div 256) % 256, d % 256>>
  OBVIOUS
<1>3. (d \div 256) % 256 = 0 /\ d % 256 = d
  BY <1>1
<1>4. lead \in Raw /\ Len(lead) = 4 /\ lead[4] = d /\ lead[3] = 0
  <2>1. lead = <<1, 2, 0, d>>
    BY <1>2, <1>3
  <2>2. 1 \in Byte /\ 2 \in Byte /\ 0 \in Byte /\ d \in Byte
    <3>1. d < 256
      BY <1>1
    <3>2. d \in 0 .. 255
      BY <3>1
    <3>3. QED
      BY <3>2 DEF Byte
  <2>3. /\ <<1, 2, 0, d>> \in Seq(Byte) /\ Len(<<1, 2, 0, d>>) = 4
        /\ <<1, 2, 0, d>>[4] = d /\ <<1, 2, 0, d>>[3] = 0
    BY <2>2
  <2>4. QED
    BY <2>1, <2>3 DEF Raw
<1>5. PICK body : body = lead \o data
  OBVIOUS
<1>6. body \in Raw /\ Len(body) = d + 4 /\ body[4] = d /\ body[3] = 0
  <2>1. lead \in Seq(Byte) /\ data \in Seq(Byte)
    BY <1>4 DEF Raw
  <2>2. /\ body \in Seq(Byte) /\ Len(body) = 4 + d
        /\ \A i \in 1 .. 4 + d : body[i] = IF i <= 4 THEN lead[i] ELSE data[i - 4]
    <3>1. /\ body \in Seq(Byte) /\ Len(body) = Len(lead) + Len(data)
          /\ \A i \in 1 .. Len(lead) + Len(data) :
               body[i] = IF i <= Len(lead) THEN lead[i] ELSE data[i - Len(lead)]
      BY <1>5, <2>1, ConcatProperties
    <3>2. QED
      BY <1>1, <1>4, <3>1
  <2>3. 4 \in 1 .. 4 + d /\ 3 \in 1 .. 4 + d
    OBVIOUS
  <2>4. QED
    BY <1>4, <2>2, <2>3 DEF Raw
<1>7. PICK c \in Byte : c = XorAll(body)
  <2>1. body \in Seq(Byte) /\ 0 \in Byte
    BY <1>6 DEF Raw, Byte
  <2>2. XorAll(body) \in Byte
    BY <2>1, XorAllMore
  <2>3. QED
    BY <2>2
<1>8. PICK h : h = <<HeadByte>>
  OBVIOUS
<1>9. h \in Raw /\ Len(h) = 1 /\ h[1] = HeadByte
  BY <1>8 DEF Raw, Byte, HeadByte
<1>10. PICK hb : hb = h \o body
  OBVIOUS
<1>11. /\ hb \in Raw /\ Len(hb) = d + 5 /\ hb[1] = HeadByte /\ hb[5] = d /\ hb[4] = 0
       /\ \A i \in 1 .. d + 4 : hb[i + 1] = body[i]
  <2>1. h \in Seq(Byte) /\ body \in Seq(Byte)
    BY <1>6, <1>9 DEF Raw
  <2>2. /\ hb \in Seq(Byte) /\ Len(hb) = 1 + (d + 4)
        /\ \A i \in 1 .. 1 + (d + 4) : hb[i] = IF i <= 1 THEN h[i] ELSE body[i - 1]
    <3>1. /\ hb \in Seq(Byte) /\ Len(hb) = Len(h) + Len(body)
          /\ \A i \in 1 .. Len(h) + Len(body) :
               hb[i] = IF i <= Len(h) THEN h[i] ELSE body[i - Len(h)]
      BY <1>10, <2>1, ConcatProperties
    <3>2. QED
      BY <1>6, <1>9, <3>1
  <2>3. ASSUME NEW i \in 1 .. d + 4 PROVE hb[i + 1] = body[i]
    <3>1. i + 1 \in 1 .. 1 + (d + 4) /\ ~(i + 1 <= 1) /\ i + 1 - 1 = i
      OBVIOUS
    <3>2. QED
      BY <2>2, <3>1
  <2>4. hb[1] = HeadByte
    <3>1. 1 \in 1 .. 1 + (d + 4) /\ 1 <= 1
      OBVIOUS
    <3>2. QED
      BY <1>9, <2>2, <3>1
  <2>5. hb[5] = d /\ hb[4] = 0
    <3>1. 4 \in 1 .. d + 4 /\ 4 + 1 = 5 /\ 3 \in 1 .. d + 4 /\ 3 + 1 = 4
      OBVIOUS
    <3>2. QED
      BY <1>6, <2>3, <3>1
  <2>6. hb \in Raw /\ Len(hb) = d + 5
    BY <2>2 DEF Raw
  <2>7. QED
    BY <2>3, <2>4, <2>5, <2>6
<1>12. PICK f : f = hb \o <<c>>
  OBVIOUS
<1>13. FrameSet(1, 2, data) = f
  BY <1>1, <1>2, <1>5, <1>7, <1>8, <1>10, <1>12 DEF FrameSet
<1>14. f \in Raw
  BY <1>11, <1>12 DEF Raw
<1>15. PICK l \in Nat : l = d + 5
  OBVIOUS
<1>16. /\ Len(f) = l + 1 /\ f[l + 1] = c /\ \A i \in 1 .. l : f[i] = hb[i]
  BY <1>11, <1>12, <1>14, <1>15, CutsGrow
<1>17. f[1] = HeadByte /\ f[5] = d /\ f[4] = 0
  <2>1. 1 \in 1 .. l /\ 5 \in 1 .. l /\ 4 \in 1 .. l
    BY <1>15
  <2>2. QED
    BY <1>11, <1>16, <2>1
<1>18. ASSUME NEW k \in 1 .. l + 1
       PROVE  LET s == SubSeq(f, 1, k)
              IN /\ s \in Raw /\ Len(s) = k /\ \A i \in 1 .. k : s[i] = f[i]
                 /\ Whole(s) <=> k = l + 1
  <2>1. PICK s : s = SubSeq(f, 1, k)
    OBVIOUS
  <2>2. 1 \in Nat /\ 1 >= 1 /\ k \in Nat /\ k <= Len(f) /\ 1 <= k
    BY <1>16
  <2>3. IsCut(s, f, 1, k)
    BY <1>14, <2>1, <2>2, CutOfRow
  <2>4. s \in Raw /\ Len(s) = k - 1 + 1 /\ \A i \in 1 .. k - 1 + 1 : s[i] = f[1 + i - 1]
    BY <2>2, <2>3 DEF IsCut
  <2>5. \A i \in 1 .. k : i \in 1 .. k - 1 + 1 /\ 1 + i - 1 = i
    OBVIOUS
  <2>6. k - 1 + 1 = k
    OBVIOUS
  <2>7. s \in Raw /\ Len(s) = k /\ \A i \in 1 .. k : s[i] = f[i]
    BY <2>4, <2>5, <2>6
  <2>8. Whole(s) <=> k = l + 1
    <3>1. CASE k >= 5
      <4>1. 5 \in 1 .. k /\ 4 \in 1 .. k
        BY <3>1
      <4>2. s[5] = d /\ s[4] = 0
        BY <1>17, <2>7, <4>1
      <4>3. Whole(s) <=> k = d + 6
        <5>1. 256 * 0 + d + 6 = d + 6
          OBVIOUS
        <5>2. QED
          BY <2>7, <3>1, <4>2, <5>1 DEF Whole
      <4>4. QED
        BY <1>15, <4>3
    <3>2. CASE ~(k >= 5)
      <4>1. ~ Whole(s)
        BY <2>7, <3>2 DEF Whole
      <4>2. QED
        BY <1>15, <3>2, <4>1
    <3>3. QED
      BY <3>1, <3>2
  <2>9. QED
    BY <2>1, <2>7, <2>8
<1>19. PICK u : u = [k \in 0 .. l + 1 |-> IF k = 0 THEN NoScan
                                          ELSE IF k = l + 1 THEN [from |-> 0, held |-> <<f>>]
                                          ELSE [from |-> 1, held |-> <<>>]]
  OBVIOUS
<1>20. PICK t : IsScans(t, f) /\ ScanAt(f) = t[Len(f)] /\ Scan(f) = ScanAt(f).held
  BY <1>14, ScansAre
<1>21. t[0] = NoScan /\ \A k \in 1 .. l + 1 : t[k] = Scanned(t[k - 1], f, k)
  BY <1>16, <1>20 DEF IsScans
<1>22. ASSUME NEW k \in 1 .. l + 1, t[k - 1] = u[k - 1] PROVE t[k] = u[k]
  <2>1. u[k - 1] = [from |-> IF k = 1 THEN 0 ELSE 1, held |-> <<>>]
    <3>1. k - 1 \in 0 .. l + 1 /\ k - 1 # l + 1 /\ (k - 1 = 0 <=> k = 1)
      OBVIOUS
    <3>2. QED
      BY <1>19, <3>1 DEF NoScan
  <2>2. PICK was : was = t[k - 1]
    OBVIOUS
  <2>3. was.from = (IF k = 1 THEN 0 ELSE 1) /\ was.held = <<>>
    BY <1>22, <2>1, <2>2
  <2>4. PICK from : from = IF was.from = 0 /\ f[k] = HeadByte THEN k ELSE was.from
    OBVIOUS
  <2>5. from = 1
    BY <1>17, <2>3, <2>4
  <2>6. PICK s : s = SubSeq(f, 1, k)
    OBVIOUS
  <2>7. /\ s \in Raw /\ Len(s) = k /\ \A i \in 1 .. k : s[i] = f[i]
        /\ Whole(s) <=> k = l + 1
    BY <1>18, <2>6
  <2>8. t[k] = IF from # 0 /\ Whole(s)
               THEN [from |-> 0, held |-> IF Sound(s) THEN Append(was.held, s) ELSE was.held]
               ELSE [from |-> from, held |-> was.held]
    BY <1>21, <2>2, <2>4, <2>5, <2>6 DEF Scanned
  <2>9. CASE k = l + 1
    <3>1. s = f
      <4>1. Len(s) = Len(f) /\ \A i \in 1 .. Len(s) : s[i] = f[i]
        BY <1>16, <2>7, <2>9
      <4>2. s \in Seq(Byte) /\ f \in Seq(Byte)
        BY <1>14, <2>7 DEF Raw
      <4>3. QED
        BY <4>1, <4>2, SeqEqual
    <3>2. Sound(f)
      <4>1. PICK v : v = SubSeq(f, 2, l)
        OBVIOUS
      <4>2. 2 \in Nat /\ 2 >= 1 /\ l <= Len(f) /\ 2 <= l
        BY <1>15, <1>16
      <4>3. IsCut(v, f, 2, l)
        BY <1>14, <4>1, <4>2, CutOfRow
      <4>4. v \in Raw /\ Len(v) = l - 2 + 1 /\ \A i \in 1 .. l - 2 + 1 : v[i] = f[2 + i - 1]
        BY <4>2, <4>3 DEF IsCut
      <4>5. l - 2 + 1 = d + 4
        BY <1>15
      <4>6. ASSUME NEW i \in 1 .. d + 4 PROVE v[i] = body[i]
        <5>1. i \in 1 .. l - 2 + 1 /\ 2 + i - 1 = i + 1 /\ i + 1 \in 1 .. l
          BY <1>15
        <5>2. QED
          BY <1>11, <1>16, <4>4, <5>1
      <4>7. v \in Seq(Byte) /\ body \in Seq(Byte)
        BY <1>6, <4>4 DEF Raw
      <4>8. Len(v) = Len(body) /\ \A i \in 1 .. Len(v) : v[i] = body[i]
        BY <1>6, <4>4, <4>5, <4>6
      <4>9. v = body
        BY <4>7, <4>8, SeqEqual
      <4>10. Len(f) - 1 = l /\ f[Len(f)] = c
        BY <1>16
      <4>11. QED
        BY <1>7, <4>1, <4>9, <4>10 DEF Sound
    <3>3. Append(<<>>, f) = <<f>>
      OBVIOUS
    <3>4. t[k] = [from |-> 0, held |-> <<f>>]
      BY <2>3, <2>5, <2>7, <2>8, <2>9, <3>1, <3>2, <3>3
    <3>5. u[k] = [from |-> 0, held |-> <<f>>]
      BY <1>19, <2>9
    <3>6. QED
      BY <3>4, <3>5
  <2>10. CASE k # l + 1
    <3>1. t[k] = [from |-> 1, held |-> <<>>]
      BY <2>3, <2>5, <2>7, <2>8, <2>10
    <3>2. u[k] = [from |-> 1, held |-> <<>>]
      BY <1>19, <2>10
    <3>3. QED
      BY <3>1, <3>2
  <2>11. QED
    BY <2>9, <2>10
<1>23. Alike(t, u, l + 1)
  <2>1. u[0] = NoScan
    BY <1>19
  <2>2. l + 1 \in Nat /\ StepAlike(t, u, l + 1)
    BY <1>21, <1>22, <2>1 DEF StepAlike
  <2>3. QED
    BY <2>2, SameSteps
<1>24. t[l + 1] = [from |-> 0, held |-> <<f>>]
  <2>1. l + 1 \in 0 .. l + 1 /\ l + 1 # 0
    OBVIOUS
  <2>2. QED
    BY <1>19, <1>23, <2>1 DEF Alike
<1>25. QED
  BY <1>13, <1>16, <1>20, <1>24

LEMMA CopyFits ==
  ASSUME NEW frame \in Raw
  PROVE  /\ IsPrefix(MyMemcpy(frame), frame)
         /\ MyMemcpy(frame) = frame \/ Len(frame) >= CopyWraps
<1>1. PICK n \in Nat : n = Len(frame)
  BY DEF Raw
<1>2. PICK k \in Nat : k = n % CopyWraps
  BY CopyWrapsAssumption
<1>3. k <= n /\ (n < CopyWraps => k = n)
  BY <1>2, CopyWrapsAssumption
<1>4. PICK s : s = SubSeq(frame, 1, k)
  OBVIOUS
<1>5. s = MyMemcpy(frame)
  BY <1>1, <1>2, <1>4 DEF MyMemcpy
<1>6. 1 \in Nat /\ 1 >= 1 /\ (IF 1 <= k THEN k - 1 + 1 ELSE 0) = k
  OBVIOUS
<1>7. IsCut(s, frame, 1, k)
  BY <1>1, <1>3, <1>4, <1>6, CutOfRow
<1>8. s \in Raw /\ Len(s) = k
  BY <1>6, <1>7 DEF IsCut
<1>9. SubSeq(s, 1, k) = s
  BY <1>8, SubSeqFull DEF Raw
<1>10. IsPrefix(s, frame)
  BY <1>1, <1>3, <1>4, <1>8, <1>9 DEF IsPrefix
<1>11. CASE n < CopyWraps
  <2>1. s = SubSeq(frame, 1, Len(frame))
    BY <1>1, <1>3, <1>4, <1>11
  <2>2. s = frame
    BY <2>1, SubSeqFull DEF Raw
  <2>3. QED
    BY <1>5, <1>10, <2>2
<1>12. CASE ~(n < CopyWraps)
  BY <1>1, <1>5, <1>10, <1>12, CopyWrapsAssumption
<1>13. QED
  BY <1>11, <1>12

(* The invariant: what is kept between two pieces is what the pieces so far make, whatever
   they are. *)
StreamInv ==
  /\ kind = "crc" => fed \in Raw /\ at \in Crcs /\ at = CrcOf(fed)
  /\ kind = "md5" => fed \in Nats /\ Digested(at, fed)
  /\ kind = "proto" =>
       /\ fed \in Raw
       /\ ~astray => /\ [p |-> at, out |-> frames, over |-> FALSE] \in Pairs
                     /\ Parsed(at, frames, ScanAt(fed), fed)

LEMMA StreamInvInit == StreamInit => StreamInv
<1> SUFFICES ASSUME StreamInit PROVE StreamInv
  OBVIOUS
<1>1. fed = <<>> /\ frames = <<>>
  BY DEF StreamInit
<1>2. kind = "crc" => fed \in Raw /\ at \in Crcs /\ at = CrcOf(fed)
  <2>1. <<>> \in Raw
    BY DEF Raw
  <2>2. kind = "crc" => at = CrcInit
    BY DEF StreamInit
  <2>3. CrcOf(fed) = CrcInit
    BY <1>1, CrcOfMore
  <2>4. QED
    BY <1>1, <2>1, <2>2, <2>3, CrcInitIs
<1>3. kind = "md5" => fed \in Nats /\ Digested(at, fed)
  <2>1. <<>> \in Nats
    BY DEF Nats
  <2>2. kind = "md5" => at = MD5Init
    BY DEF StreamInit
  <2>3. QED
    BY <1>1, <2>1, <2>2, InitDigests
<1>4. ASSUME kind = "proto"
      PROVE  /\ fed \in Raw /\ [p |-> at, out |-> frames, over |-> FALSE] \in Pairs
             /\ Parsed(at, frames, ScanAt(fed), fed)
  <2>1. at = [sts |-> "head", frame |-> <<>>, len |-> 0, rlen |-> 0, sum |-> 0]
    BY <1>4 DEF StreamInit, StateReset
  <2>2. <<>> \in Raw /\ <<>> \in RawRows /\ Len(<<>>) = 0
    BY DEF Raw, RawRows
  <2>3. at \in ParserStates
    BY <2>1, <2>2 DEF ParserStates, Sts, Byte
  <2>4. at.sts = "head" /\ at.frame = <<>> /\ at.rlen = 0 /\ at.sum = 0
    BY <2>1
  <2>5. Shaped(at)
    BY <2>4 DEF Shaped
  <2>6. ScanAt(fed) = [from |-> 0, held |-> <<>>]
    BY <1>1, ScanMore DEF NoScan
  <2>7. ScanAt(fed) \in Scans /\ ScanAt(fed).from = 0 /\ ScanAt(fed).held = <<>>
    BY <2>2, <2>6 DEF Scans
  <2>8. Parsed(at, frames, ScanAt(fed), fed)
    <3>1. Short(at)
      BY <2>4 DEF Short
    <3>2. QED
      BY <1>1, <2>2, <2>4, <2>7, <3>1 DEF Parsed
  <2>9. QED
    BY <1>1, <2>2, <2>3, <2>5, <2>8 DEF Pairs
<1>5. QED
  BY <1>2, <1>3, <1>4 DEF StreamInv

LEMMA StreamInvStep == StreamInv /\ [StreamNext]_stream => StreamInv'
<1> SUFFICES ASSUME StreamInv, [StreamNext]_stream PROVE StreamInv'
  OBVIOUS
<1>1. CASE FeedCrc
  <2>1. kind = "crc" /\ kind' = kind
    BY <1>1 DEF FeedCrc
  <2>2. PICK b \in Bytes1 : fed' = fed \o <<b>> /\ at' = CrcStep(at, b)
    BY <1>1 DEF FeedCrc, Feed
  <2>3. b \in Byte
    BY InputAssumption DEF Byte
  <2>4. fed \in Raw /\ at \in Crcs /\ at = CrcOf(fed)
    BY <2>1 DEF StreamInv
  <2>5. CrcStep(at, b) = CrcMore(at, b) /\ CrcMore(at, b) \in Crcs
    BY <2>3, <2>4, CrcStepIs
  <2>6. CrcOf(fed \o <<b>>) = CrcMore(CrcOf(fed), b)
    BY <2>3, <2>4, CrcOfMore DEF Raw
  <2>7. fed' \in Raw
    BY <2>2, <2>3, <2>4 DEF Raw
  <2>8. at' \in Crcs /\ at' = CrcOf(fed')
    BY <2>2, <2>4, <2>5, <2>6
  <2>9. kind' = "crc"
    BY <2>1
  <2>10. QED
    BY <2>7, <2>8, <2>9 DEF StreamInv
<1>2. CASE FeedMd5
  <2>1. kind = "md5" /\ kind' = kind
    BY <1>2 DEF FeedMd5
  <2>2. PICK n \in Pieces : /\ fed' = fed \o [i \in 1 .. n |-> 1000 + Len(fed) + i]
                            /\ at' = MD5Update(at, [i \in 1 .. n |-> 1000 + Len(fed) + i])
    BY <1>2 DEF FeedMd5, Feed
  <2>3. PICK piece : piece = [i \in 1 .. n |-> 1000 + Len(fed) + i]
    OBVIOUS
  <2>4. fed \in Nats /\ Digested(at, fed)
    BY <2>1 DEF StreamInv
  <2>5. piece \in Nats
    <3>1. n \in Nat /\ Len(fed) \in Nat
      BY <2>4, InputAssumption DEF Nats
    <3>2. \A i \in 1 .. n : 1000 + Len(fed) + i \in Nat
      BY <3>1
    <3>3. piece \in [1 .. n -> Nat]
      BY <2>3, <3>2
    <3>4. QED
      BY <3>1, <3>3, WordIs DEF Nats
  <2>6. fed' = fed \o piece /\ at' = MD5Update(at, piece)
    BY <2>2, <2>3
  <2>7. fed' \in Nats
    BY <2>4, <2>5, <2>6, JoinIs
  <2>8. Digested(MD5Update(at, piece), fed \o piece)
    BY <2>4, <2>5, UpdateKeeps
  <2>9. Digested(at', fed')
    BY <2>6, <2>8
  <2>10. kind' = "md5"
    BY <2>1
  <2>11. QED
    BY <2>7, <2>9, <2>10 DEF StreamInv
<1>3. CASE FeedProto
  <2>1. kind = "proto" /\ kind' = "proto"
    BY <1>3 DEF FeedProto
  <2>2. PICK w : w = [p |-> at, out |-> frames, over |-> FALSE]
    OBVIOUS
  <2>3. PICK chunk \in Chunks : /\ fed' = fed \o chunk
                                /\ at' = After(w, chunk).p /\ frames' = After(w, chunk).out
                                /\ astray' = (astray \/ After(w, chunk).over)
    <3>1. PICK chunk \in Chunks :
            /\ fed' = fed \o chunk
            /\ at' = After([p |-> at, out |-> frames, over |-> FALSE], chunk).p
            /\ frames' = After([p |-> at, out |-> frames, over |-> FALSE], chunk).out
            /\ astray' = (astray \/ After([p |-> at, out |-> frames, over |-> FALSE], chunk).over)
      BY <1>3 DEF FeedProto, Feed, After, AfterFrom
    <3>2. QED
      BY <2>2, <3>1
  <2>4. chunk \in Raw
    BY InputAssumption DEF Raw, Byte
  <2>5. fed \in Raw
    BY <2>1 DEF StreamInv
  <2>6. fed' \in Raw
    BY <2>3, <2>4, <2>5, ConcatProperties DEF Raw
  <2>7. ASSUME ~(astray')
        PROVE  /\ [p |-> at', out |-> frames', over |-> FALSE] \in Pairs
               /\ Parsed(at', frames', ScanAt(fed'), fed')
    <3>1. w \in Pairs /\ Parsed(at, frames, ScanAt(fed), fed)
      BY <2>1, <2>2, <2>3, <2>7 DEF StreamInv
    <3>2. w.p = at /\ w.out = frames
      BY <2>2
    <3>3. PICK v : v = After(w, chunk)
      OBVIOUS
    <3>4. v \in Pairs /\ ~ v.over
      BY <2>3, <2>4, <2>5, <2>7, <3>1, <3>2, <3>3, ChunkIsParsed
    <3>5. Parsed(v.p, v.out, ScanAt(fed \o chunk), fed \o chunk)
      BY <2>4, <2>5, <3>1, <3>2, <3>3, <3>4, ChunkIsParsed
    <3>6. [p |-> v.p, out |-> v.out, over |-> FALSE] \in Pairs
      BY <3>4 DEF Pairs
    <3>7. QED
      BY <2>3, <3>3, <3>5, <3>6
  <2>8. QED
    BY <2>1, <2>6, <2>7 DEF StreamInv
<1>4. CASE SetProto
  <2>1. /\ kind = "proto" /\ kind' = "proto" /\ fed' = fed /\ frames' = frames
        /\ astray' = (astray \/ at.sts = "data")
    BY <1>4 DEF SetProto
  <2>2. PICK n \in {0, 1} : at' = [at EXCEPT !.len = n + 6]
    BY <1>4 DEF SetProto
  <2>3. fed \in Raw
    BY <2>1 DEF StreamInv
  <2>4. ASSUME ~(astray')
        PROVE  /\ [p |-> at', out |-> frames', over |-> FALSE] \in Pairs
               /\ Parsed(at', frames', ScanAt(fed'), fed')
    <3>1. ~astray /\ at.sts # "data"
      BY <2>1, <2>4
    <3>2. [p |-> at, out |-> frames, over |-> FALSE] \in Pairs /\ Parsed(at, frames, ScanAt(fed), fed)
      BY <2>1, <3>1 DEF StreamInv
    <3>3. at \in ParserStates /\ Shaped(at) /\ frames \in RawRows
      BY <3>2 DEF Pairs
    <3>4. at' \in ParserStates
      <4>1. n + 6 \in Nat
        OBVIOUS
      <4>2. QED
        BY <2>2, <3>3, <4>1 DEF ParserStates
    <3>5. at'.sts = at.sts /\ at'.frame = at.frame /\ at'.rlen = at.rlen /\ at'.sum = at.sum
      BY <2>2, <3>3 DEF ParserStates
    <3>6. PICK p : p = at'
      OBVIOUS
    <3>7. PICK q : q = at
      OBVIOUS
    <3>8. Shaped(p)
      <4>1. /\ p.sts = q.sts /\ p.frame = q.frame /\ p.rlen = q.rlen /\ p.sum = q.sum
            /\ Shaped(q) /\ q.sts # "data"
        BY <3>1, <3>3, <3>5, <3>6, <3>7
      <4>2. QED
        BY <4>1 DEF Shaped
    <3>9. Parsed(p, frames, ScanAt(fed), fed)
      BY <3>2, <3>5, <3>6 DEF Parsed, Short
    <3>10. [p |-> at', out |-> frames', over |-> FALSE] \in Pairs
      BY <2>1, <3>3, <3>4, <3>6, <3>8 DEF Pairs
    <3>11. QED
      BY <2>1, <3>6, <3>9, <3>10
  <2>5. QED
    BY <2>1, <2>3, <2>4 DEF StreamInv
<1>5. CASE UNCHANGED stream
  BY <1>5 DEF stream, StreamInv
<1>6. QED
  BY <1>1, <1>2, <1>3, <1>4, <1>5 DEF StreamNext

LEMMA StreamInvImplies == StreamInv => StreamsAreWhole
<1> SUFFICES ASSUME StreamInv PROVE StreamsAreWhole
  OBVIOUS
<1>1. kind = "crc" => at = CrcOf(fed)
  BY DEF StreamInv
<1>2. kind = "md5" => MD5Final(at) = BlocksOf(fed)
  BY FinalIs DEF StreamInv
<1>3. ASSUME kind = "proto", ~astray
      PROVE  /\ Len(frames) = Len(Scan(fed))
             /\ \A i \in DOMAIN Scan(fed) :
                  /\ IsPrefix(frames[i], Scan(fed)[i])
                  /\ frames[i] = Scan(fed)[i] \/ Len(Scan(fed)[i]) >= CopyWraps
  <2>1. fed \in Raw /\ Parsed(at, frames, ScanAt(fed), fed)
    BY <1>3 DEF StreamInv
  <2>2. Scan(fed) = ScanAt(fed).held
    BY <2>1, ScansAre
  <2>3. PICK found : found = Scan(fed)
    OBVIOUS
  <2>4. found \in RawRows
    BY <2>1, <2>2, <2>3 DEF Parsed, Scans
  <2>5. Len(frames) = Len(found) /\ \A i \in 1 .. Len(found) : frames[i] = MyMemcpy(found[i])
    BY <2>1, <2>2, <2>3 DEF Parsed
  <2>6. DOMAIN found = 1 .. Len(found) /\ \A i \in 1 .. Len(found) : found[i] \in Raw
    BY <2>4 DEF RawRows
  <2>7. ASSUME NEW i \in DOMAIN found
        PROVE  IsPrefix(frames[i], found[i]) /\ (frames[i] = found[i] \/ Len(found[i]) >= CopyWraps)
    <3>1. i \in 1 .. Len(found)
      BY <2>6
    <3>2. PICK f \in Raw : f = found[i]
      BY <2>6, <3>1
    <3>3. frames[i] = MyMemcpy(f)
      BY <2>5, <3>1, <3>2
    <3>4. IsPrefix(MyMemcpy(f), f) /\ (MyMemcpy(f) = f \/ Len(f) >= CopyWraps)
      BY CopyFits
    <3>5. QED
      BY <3>2, <3>3, <3>4
  <2>8. QED
    BY <2>3, <2>5, <2>7
<1>4. ASSUME NEW data \in Chunks PROVE Scan(FrameSet(1, 2, data)) = <<FrameSet(1, 2, data)>>
  <2>1. data \in Raw /\ Len(data) < 256
    BY InputAssumption DEF Raw, Byte
  <2>2. QED
    BY <2>1, FrameIsFound
<1>5. QED
  BY <1>1, <1>2, <1>3, <1>4 DEF StreamsAreWhole

(* However the given is cut into pieces, and whatever it is: the check sums of crc.c are those
   of the polynomials crc.h names, the digest of md5.c takes the blocks of the padded given,
   and proto_frame_get returns the frames the bytes hold. *)
THEOREM InputIsTakenWhole == StreamSpec => []StreamsAreWhole
<1>1. StreamInit => StreamInv
  BY StreamInvInit
<1>2. StreamInv /\ [StreamNext]_stream => StreamInv'
  BY StreamInvStep
<1>3. StreamInv => StreamsAreWhole
  BY StreamInvImplies
<1>4. QED
  BY <1>1, <1>2, <1>3, PTL DEF StreamSpec
=============================================================================
