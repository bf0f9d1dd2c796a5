---------------------------- MODULE LibraryProofs ----------------------------
(* Proofs about three parts of the libraries: the cipher and the frames of commands, for
   every key, every text and every round function; the doubly linked list, for every heap and
   every kind of data; and the wrappers of sockets and serial lines, for every set of
   descriptors and every size. *)
EXTENDS Cipher, OsiList, OsiIo, SequenceTheorems, WellFoundedInduction, TLAPS

Less == {p \in Nat \X Nat : p[1] < p[2]}

LEMMA Least ==
  ASSUME NEW T, T \subseteq Nat, T # {}
  PROVE  \E x \in T : \A y \in T : x <= y
<1>1. IsWellFoundedOn(Less, Nat)
  BY NatLessThanWellFounded DEF OpToRel, Less
<1>2. PICK x \in T : \A y \in T : ~ (<<y, x>> \in Less)
  BY <1>1, WFMin
<1>3. \A y \in T : x \in Nat /\ y \in Nat /\ ~ (y < x)
  BY <1>2 DEF Less
<1>4. QED
  BY <1>3

(* A function defined step by step exists. *)
Steps(g, n, a, G) ==
  g = [i \in 0 .. n |-> IF i = 0 THEN a ELSE G[i][g[i - 1]]]

LEMMA StepsExist ==
  ASSUME NEW X, NEW a \in X, NEW n \in Nat, NEW G \in [1 .. n -> [X -> X]]
  PROVE  \E g \in [0 .. n -> X] : Steps(g, n, a, G)
<1>1. PICK T : T = {m \in 0 .. n : ~ \E g \in [0 .. m -> X] : Steps(g, m, a, G)}
  OBVIOUS
<1>2. CASE T = {}
  BY <1>1, <1>2
<1>3. CASE T # {}
  <2>1. T \subseteq Nat
    BY <1>1
  <2>2. PICK m \in T : \A l \in T : m <= l
    BY <1>3, <2>1, Least
  <2>3. m \in 0 .. n
    BY <1>1
  <2>4. m # 0
    <3> SUFFICES ASSUME m = 0 PROVE FALSE
      OBVIOUS
    <3>1. PICK g : g = [i \in 0 .. 0 |-> a]
      OBVIOUS
    <3>2. g \in [0 .. 0 -> X] /\ Steps(g, 0, a, G)
      BY <3>1 DEF Steps
    <3>3. QED
      BY <1>1, <3>2
  <2>5. m - 1 \in 0 .. n /\ ~(m <= m - 1)
    BY <2>3, <2>4
  <2>6. PICK h \in [0 .. m - 1 -> X] : Steps(h, m - 1, a, G)
    BY <1>1, <2>2, <2>5
  <2>7. h[0] = a /\ \A i \in 1 .. m - 1 : h[i] = G[i][h[i - 1]]
    BY <2>3, <2>4, <2>6 DEF Steps
  <2>8. PICK y \in X : y = G[m][h[m - 1]]
    BY <2>3, <2>4, <2>6
  <2>9. PICK g : g = [i \in 0 .. m |-> IF i = m THEN y ELSE h[i]]
    OBVIOUS
  <2>10. g \in [0 .. m -> X]
    BY <2>3, <2>4, <2>6, <2>9
  <2>11. g[m] = y /\ \A i \in 0 .. m - 1 : g[i] = h[i]
    BY <2>3, <2>4, <2>9
  <2>12. ASSUME NEW i \in 0 .. m PROVE g[i] = IF i = 0 THEN a ELSE G[i][g[i - 1]]
    <3>1. CASE i = 0
      BY <2>3, <2>4, <2>7, <2>11, <3>1
    <3>2. CASE i = m
      <4>1. m - 1 \in 0 .. m - 1
        BY <2>3, <2>4
      <4>2. QED
        BY <2>4, <2>8, <2>11, <3>2, <4>1
    <3>3. CASE i # 0 /\ i # m
      <4>1. i \in 1 .. m - 1 /\ i \in 0 .. m - 1 /\ i - 1 \in 0 .. m - 1
        BY <2>3, <3>3
      <4>2. QED
        BY <2>7, <2>11, <3>3, <4>1
    <3>4. QED
      BY <3>1, <3>2, <3>3
  <2>13. Steps(g, m, a, G)
    BY <2>10, <2>12 DEF Steps
  <2>14. QED
    BY <1>1, <2>2, <2>10, <2>13
<1>4. QED
  BY <1>2, <1>3

-----------------------------------------------------------------------------
Word(n) == [1 .. n -> {0, 1}]

(* A function on 1 .. n is a sequence. *)
LEMMA WordIs ==
  ASSUME NEW n \in Nat, NEW S, NEW f \in [1 .. n -> S]
  PROVE  f \in Seq(S) /\ Len(f) = n /\ Tuple(f) = f
<1>1. f \in Seq(S) /\ Len(f) = n
  OBVIOUS
<1>2. SubSeq(f, 1, Len(f)) = f
  BY <1>1, SubSeqFull
<1>3. QED
  BY <1>1, <1>2 DEF Tuple

(* The two permutations of the bits of a block undo each other. *)
LEMMA TablesInverse ==
  ASSUME NEW i \in 1 .. 64
  PROVE  /\ Table_IP[i] \in 1 .. 64 /\ Table_InverseIP[i] \in 1 .. 64
         /\ Table_IP[Table_InverseIP[i]] = i /\ Table_InverseIP[Table_IP[i]] = i
<1>1. CASE i \in 1 .. 16
  BY <1>1, SMTT(60) DEF Table_IP, Table_InverseIP
<1>2. CASE i \in 17 .. 32
  BY <1>2, SMTT(60) DEF Table_IP, Table_InverseIP
<1>3. CASE i \in 33 .. 48
  BY <1>3, SMTT(60) DEF Table_IP, Table_InverseIP
<1>4. CASE i \in 49 .. 64
  BY <1>4, SMTT(60) DEF Table_IP, Table_InverseIP
<1>5. QED
  BY <1>1, <1>2, <1>3, <1>4

LEMMA TableDomains ==
  DOMAIN Table_IP = 1 .. 64 /\ DOMAIN Table_InverseIP = 1 .. 64 /\ DOMAIN Table_PC1 = 1 .. 56
  BY DEF Table_IP, Table_InverseIP, Table_PC1

(* The choice of the key's bits. *)
LEMMA ChoiceIs == \A i \in 1 .. 56 : Table_PC1[i] \in 1 .. 64
<1>1. \A i \in 1 .. 28 : Table_PC1[i] \in 1 .. 64
  BY SMTT(60) DEF Table_PC1
<1>2. \A i \in 29 .. 56 : Table_PC1[i] \in 1 .. 64
  BY SMTT(60) DEF Table_PC1
<1>3. QED
  BY <1>1, <1>2

(* A permutation picks bits. *)
Picks(v, b, t, m) == \A i \in 1 .. m : v[i] = b[t[i]]

PicksFrom(t, m, n) == DOMAIN t = 1 .. m /\ \A i \in 1 .. m : t[i] \in 1 .. n

LEMMA PermutationIs ==
  ASSUME NEW n \in Nat, NEW m \in Nat, NEW b \in Word(n), NEW t, PicksFrom(t, m, n)
  PROVE  Permutation(b, t) \in Word(m) /\ Picks(Permutation(b, t), b, t, m)
<1>1. PICK f : f = [i \in DOMAIN t |-> b[t[i]]]
  OBVIOUS
<1>2. f \in Word(m) /\ \A i \in 1 .. m : f[i] = b[t[i]]
  BY <1>1 DEF Word, PicksFrom
<1>3. Tuple(f) = f
  BY <1>2, WordIs DEF Word
<1>4. QED
  BY <1>1, <1>2, <1>3 DEF Permutation, Picks

(* Two words with the same bits are one. *)
LEMMA WordEqual ==
  ASSUME NEW n \in Nat, NEW a \in Word(n), NEW b \in Word(n), \A i \in 1 .. n : a[i] = b[i]
  PROVE  a = b
  BY DEF Word

LEMMA PermuteBack ==
  ASSUME NEW b \in Word(64)
  PROVE  /\ Permutation(b, Table_IP) \in Word(64) /\ Permutation(b, Table_InverseIP) \in Word(64)
         /\ Permutation(Permutation(b, Table_IP), Table_InverseIP) = b
         /\ Permutation(Permutation(b, Table_InverseIP), Table_IP) = b
<1>1. PICK u : u = Permutation(b, Table_IP)
  OBVIOUS
<1>2. PICK v : v = Permutation(b, Table_InverseIP)
  OBVIOUS
<1>0. /\ 64 \in Nat
      /\ \A i \in 1 .. 64 : Table_IP[i] \in 1 .. 64
      /\ \A i \in 1 .. 64 : Table_InverseIP[i] \in 1 .. 64
      /\ \A i \in 1 .. 64 : Table_IP[Table_InverseIP[i]] = i
      /\ \A i \in 1 .. 64 : Table_InverseIP[Table_IP[i]] = i
  BY TablesInverse
<1>a. PicksFrom(Table_IP, 64, 64) /\ PicksFrom(Table_InverseIP, 64, 64)
  BY <1>0, TableDomains DEF PicksFrom
<1>3. u \in Word(64) /\ Picks(u, b, Table_IP, 64)
  BY <1>1, <1>0, <1>a, PermutationIs, SMTT(30)
<1>4. v \in Word(64) /\ Picks(v, b, Table_InverseIP, 64)
  BY <1>2, <1>0, <1>a, PermutationIs, SMTT(30)
<1>5. PICK x : x = Permutation(u, Table_InverseIP)
  OBVIOUS
<1>6. x \in Word(64) /\ Picks(x, u, Table_InverseIP, 64)
  BY <1>3, <1>5, <1>0, <1>a, PermutationIs, SMTT(30)
<1>7. PICK y : y = Permutation(v, Table_IP)
  OBVIOUS
<1>8. y \in Word(64) /\ Picks(y, v, Table_IP, 64)
  BY <1>4, <1>7, <1>0, <1>a, PermutationIs, SMTT(30)
<1>9. \A i \in 1 .. 64 : x[i] = b[i] /\ y[i] = b[i]
  <2> SUFFICES ASSUME NEW i \in 1 .. 64 PROVE x[i] = b[i] /\ y[i] = b[i]
    OBVIOUS
  <2>1. PICK j \in 1 .. 64 : j = Table_InverseIP[i] /\ Table_IP[j] = i
    BY <1>0
  <2>2. PICK k \in 1 .. 64 : k = Table_IP[i] /\ Table_InverseIP[k] = i
    BY <1>0
  <2>3. x[i] = u[j] /\ u[j] = b[i] /\ y[i] = v[k] /\ v[k] = b[i]
    BY <1>3, <1>4, <1>6, <1>8, <2>1, <2>2 DEF Picks
  <2>4. QED
    BY <2>3
<1>10. x = b /\ y = b
  BY <1>6, <1>8, <1>9 DEF Word
<1>11. QED
  BY <1>1, <1>2, <1>3, <1>4, <1>5, <1>7, <1>10

-----------------------------------------------------------------------------
(* Two words in a row, and the halves of a word. *)
InRow(c, a, b, n, m) ==
  (\A i \in 1 .. n : c[i] = a[i]) /\ (\A i \in 1 .. m : c[n + i] = b[i])

LEMMA RowIs ==
  ASSUME NEW n \in Nat, NEW m \in Nat, NEW k, k = n + m, NEW a \in Word(n), NEW b \in Word(m)
  PROVE  a \o b \in Word(k) /\ InRow(a \o b, a, b, n, m)
<1>1. a \in Seq({0, 1}) /\ Len(a) = n /\ b \in Seq({0, 1}) /\ Len(b) = m
  BY WordIs DEF Word
<1>2. PICK x : x = a \o b
  OBVIOUS
<1>3. /\ x \in Seq({0, 1}) /\ Len(x) = n + m
      /\ \A i \in 1 .. n + m : x[i] = IF i <= n THEN a[i] ELSE b[i - n]
  BY <1>1, <1>2, ConcatProperties
<1>4. x \in Word(k)
  BY <1>3, LenProperties DEF Word
<1>5. QED
  BY <1>2, <1>3, <1>4 DEF InRow

LEMMA PieceIs ==
  ASSUME NEW n \in Nat, NEW a \in Word(n), NEW p \in 1 .. n + 1, NEW q \in p - 1 .. n
  PROVE  /\ SubSeq(a, p, q) \in Word(q - p + 1)
         /\ \A i \in 1 .. q - p + 1 : SubSeq(a, p, q)[i] = a[p - 1 + i]
<1>1. \A i \in p .. q : a[i] \in {0, 1}
  BY DEF Word
<1>2. PICK x : x = SubSeq(a, p, q)
  OBVIOUS
<1>3. /\ x \in Seq({0, 1}) /\ Len(x) = IF p <= q THEN q - p + 1 ELSE 0
      /\ \A i \in 1 .. q - p + 1 : x[i] = a[p + i - 1]
  BY <1>1, <1>2, SubSeqProperties
<1>4. Len(x) = q - p + 1
  BY <1>3
<1>5. x \in Word(q - p + 1)
  BY <1>3, <1>4, LenProperties DEF Word
<1>6. QED
  BY <1>2, <1>3, <1>5

(* The halves of a block. *)
LEMMA HalvesAre ==
  ASSUME NEW b \in Word(64)
  PROVE  /\ Half(b, 32, 1) \in Word(32) /\ Half(b, 32, 2) \in Word(32)
         /\ \A i \in 1 .. 32 : Half(b, 32, 1)[i] = b[i] /\ Half(b, 32, 2)[i] = b[32 + i]
<1>1. Half(b, 32, 1) = SubSeq(b, 1, 32) /\ Half(b, 32, 2) = SubSeq(b, 33, 64)
  BY DEF Half
<1>2. 32 - 1 + 1 = 32 /\ 64 - 33 + 1 = 32 /\ 33 - 1 = 32
  OBVIOUS
<1>3. SubSeq(b, 1, 32) \in Word(32) /\ \A i \in 1 .. 32 : SubSeq(b, 1, 32)[i] = b[i]
  BY <1>2, PieceIs
<1>4. SubSeq(b, 33, 64) \in Word(32) /\ \A i \in 1 .. 32 : SubSeq(b, 33, 64)[i] = b[32 + i]
  BY <1>2, PieceIs
<1>5. QED
  BY <1>1, <1>3, <1>4

(* Swapping them. *)
LEMMA SwappedIs ==
  ASSUME NEW b \in Word(64)
  PROVE  /\ Swapped(b) \in Word(64)
         /\ \A i \in 1 .. 32 : Swapped(b)[i] = b[32 + i] /\ Swapped(b)[32 + i] = b[i]
         /\ Half(Swapped(b), 32, 1) = Half(b, 32, 2) /\ Half(Swapped(b), 32, 2) = Half(b, 32, 1)
         /\ Swapped(Swapped(b)) = b
<1>1. PICK l : l = Half(b, 32, 1)
  OBVIOUS
<1>2. PICK r : r = Half(b, 32, 2)
  OBVIOUS
<1>3. l \in Word(32) /\ r \in Word(32) /\ \A i \in 1 .. 32 : l[i] = b[i] /\ r[i] = b[32 + i]
  BY <1>1, <1>2, HalvesAre
<1>4. PICK s : s = r \o l
  OBVIOUS
<1>5. s \in Word(64) /\ InRow(s, r, l, 32, 32)
  <2>1. 64 = 32 + 32 /\ 32 \in Nat
    OBVIOUS
  <2>2. QED
    BY <1>3, <1>4, <2>1, RowIs
<1>6. Swapped(b) = s
  BY <1>1, <1>2, <1>4 DEF Swapped
<1>7. PICK x : x = Half(s, 32, 1)
  OBVIOUS
<1>8. PICK y : y = Half(s, 32, 2)
  OBVIOUS
<1>9. x \in Word(32) /\ y \in Word(32) /\ \A i \in 1 .. 32 : x[i] = s[i] /\ y[i] = s[32 + i]
  BY <1>5, <1>7, <1>8, HalvesAre
<1>10. x = r /\ y = l
  BY <1>3, <1>5, <1>9 DEF Word, InRow
<1>11. PICK z : z = y \o x
  OBVIOUS
<1>12. z \in Word(64) /\ InRow(z, y, x, 32, 32)
  <2>1. 64 = 32 + 32 /\ 32 \in Nat
    OBVIOUS
  <2>2. QED
    BY <1>9, <1>11, <2>1, RowIs, ZenonT(40)
<1>13. \A i \in 1 .. 64 : z[i] = b[i]
  <2>1. \A i \in 1 .. 32 : z[i] = b[i] /\ z[32 + i] = b[32 + i]
    BY <1>3, <1>10, <1>12 DEF InRow
  <2>2. \A i \in 1 .. 64 : i \in 1 .. 32 \/ (i - 32 \in 1 .. 32 /\ i = 32 + (i - 32))
    OBVIOUS
  <2>3. QED
    BY <2>1, <2>2
<1>14. z = b
  BY <1>12, <1>13, WordEqual
<1>15. QED
  BY <1>1, <1>2, <1>3, <1>5, <1>6, <1>7, <1>8, <1>10, <1>11, <1>14 DEF Swapped, InRow

-----------------------------------------------------------------------------
(* The round function gives words. *)
RoundFunction == \A r \in Word(32), k \in Word(56) : F(r, k) \in Word(32)

(* The halves of two words in a row. *)
LEMMA HalvesOfRow ==
  ASSUME NEW a \in Word(32), NEW b \in Word(32)
  PROVE  a \o b \in Word(64) /\ Half(a \o b, 32, 1) = a /\ Half(a \o b, 32, 2) = b
<1>1. 64 = 32 + 32 /\ 32 \in Nat
  OBVIOUS
<1>2. PICK c : c = a \o b
  OBVIOUS
<1>3. c \in Word(64) /\ InRow(c, a, b, 32, 32)
  BY <1>1, <1>2, RowIs
<1>4. PICK x : x = Half(c, 32, 1)
  OBVIOUS
<1>5. PICK y : y = Half(c, 32, 2)
  OBVIOUS
<1>6. x \in Word(32) /\ y \in Word(32) /\ \A i \in 1 .. 32 : x[i] = c[i] /\ y[i] = c[32 + i]
  BY <1>3, <1>4, <1>5, HalvesAre
<1>7. x = a /\ y = b
  BY <1>3, <1>6 DEF InRow, Word
<1>8. QED
  BY <1>2, <1>3, <1>4, <1>5, <1>7

(* Xor::Xor, and that it undoes itself. *)
LEMMA XorIs ==
  ASSUME NEW a \in Word(32), NEW b \in Word(32)
  PROVE  XorBits(a, b) \in Word(32) /\ \A i \in 1 .. 32 : XorBits(a, b)[i] = (a[i] + b[i]) % 2
<1>1. PICK f : f = [i \in DOMAIN a |-> (a[i] + b[i]) % 2]
  OBVIOUS
<1>2. DOMAIN a = 1 .. 32 /\ 32 \in Nat
  BY DEF Word
<1>3. \A i \in 1 .. 32 : a[i] \in {0, 1} /\ b[i] \in {0, 1}
  BY DEF Word
<1>4. \A i \in 1 .. 32 : (a[i] + b[i]) % 2 \in {0, 1}
  BY <1>3
<1>5. f \in Word(32) /\ \A i \in 1 .. 32 : f[i] = (a[i] + b[i]) % 2
  BY <1>1, <1>2, <1>4 DEF Word
<1>6. Tuple(f) = f
  BY <1>2, <1>5, WordIs DEF Word
<1>7. QED
  BY <1>1, <1>5, <1>6 DEF XorBits

LEMMA XorBack ==
  ASSUME NEW a \in Word(32), NEW b \in Word(32)
  PROVE  XorBits(a, XorBits(a, b)) = b
<1>1. PICK x \in Word(32) : x = XorBits(a, b) /\ \A i \in 1 .. 32 : x[i] = (a[i] + b[i]) % 2
  BY XorIs
<1>2. PICK y \in Word(32) : y = XorBits(a, x) /\ \A i \in 1 .. 32 : y[i] = (a[i] + x[i]) % 2
  BY XorIs
<1>3. \A i \in 1 .. 32 : y[i] = b[i]
  <2> SUFFICES ASSUME NEW i \in 1 .. 32 PROVE y[i] = b[i]
    OBVIOUS
  <2>1. a[i] \in {0, 1} /\ b[i] \in {0, 1}
    BY DEF Word
  <2>2. QED
    BY <1>1, <1>2, <2>1
<1>4. y = b
  BY <1>3 DEF Word
<1>5. QED
  BY <1>1, <1>2, <1>4

(* A round of the block under a key, and the same round after the halves were swapped,
   which undoes it. *)
NextBits(b, k) == Half(b, 32, 2) \o XorBits(F(Half(b, 32, 2), k), Half(b, 32, 1))

LEMMA RoundBack ==
  ASSUME RoundFunction, NEW b \in Word(64), NEW k \in Word(56)
  PROVE  NextBits(b, k) \in Word(64) /\ NextBits(Swapped(NextBits(b, k)), k) = Swapped(b)
<1>1. PICK l : l = Half(b, 32, 1)
  OBVIOUS
<1>2. PICK r : r = Half(b, 32, 2)
  OBVIOUS
<1>3. l \in Word(32) /\ r \in Word(32)
  BY <1>1, <1>2, HalvesAre
<1>4. PICK f \in Word(32) : f = F(r, k)
  BY <1>3 DEF RoundFunction
<1>5. PICK x \in Word(32) : x = XorBits(f, l)
  BY <1>3, XorIs
<1>6. PICK n : n = r \o x
  OBVIOUS
<1>7. n \in Word(64) /\ Half(n, 32, 1) = r /\ Half(n, 32, 2) = x
  BY <1>3, <1>6, HalvesOfRow
<1>8. NextBits(b, k) = n
  BY <1>1, <1>2, <1>4, <1>5, <1>6 DEF NextBits
<1>9. PICK s : s = Swapped(n)
  OBVIOUS
<1>10. Half(s, 32, 1) = x /\ Half(s, 32, 2) = r
  BY <1>7, <1>9, SwappedIs
<1>11. XorBits(f, x) = l
  BY <1>3, <1>5, XorBack
<1>12. NextBits(s, k) = r \o l
  BY <1>4, <1>10, <1>11 DEF NextBits
<1>13. r \o l = Swapped(b)
  BY <1>1, <1>2 DEF Swapped
<1>14. QED
  BY <1>7, <1>8, <1>9, <1>12, <1>13

-----------------------------------------------------------------------------
(* The key with both halves turned to the left by c, to the right if c is negative. *)
Rot(k, c) ==
  [i \in 1 .. 56 |-> IF i <= 28 THEN k[((i - 1 + c) % 28) + 1] ELSE k[((i - 29 + c) % 28) + 29]]

TurnedKey(k, t) == MoveBits(Half(k, 28, 1), t) \o MoveBits(Half(k, 28, 2), t)

MovesBy(v, h, t) == \A i \in 1 .. 28 : v[i] = h[((i - 1 + t) % 28) + 1]

(* move_bits turns 28 bits. *)
LEMMA MoveIs ==
  ASSUME NEW h \in Word(28), NEW t \in Int
  PROVE  MoveBits(h, t) \in Word(28) /\ MovesBy(MoveBits(h, t), h, t)
<1>1. PICK k : k = t % 28
  OBVIOUS
<1>2. k \in 0 .. 27
  BY <1>1
<1>3. PICK a : a = SubSeq(h, k + 1, 28)
  OBVIOUS
<1>4. PICK b : b = SubSeq(h, 1, k)
  OBVIOUS
<1>5. /\ 28 \in Nat /\ k + 1 \in 1 .. 28 + 1 /\ 28 \in k + 1 - 1 .. 28
      /\ 28 - (k + 1) + 1 = 28 - k /\ k + 1 - 1 = k
      /\ 1 \in 1 .. 28 + 1 /\ k \in 1 - 1 .. 28 /\ k - 1 + 1 = k /\ 1 - 1 = 0
  BY <1>2
<1>6. a \in Word(28 - k) /\ \A i \in 1 .. 28 - k : a[i] = h[k + i]
  <2>1. /\ a \in Word(28 - (k + 1) + 1)
        /\ \A i \in 1 .. 28 - (k + 1) + 1 : a[i] = h[k + 1 - 1 + i]
    BY <1>3, <1>5, PieceIs
  <2>2. QED
    BY <1>5, <2>1
<1>7. b \in Word(k) /\ \A i \in 1 .. k : b[i] = h[i]
  <2>1. /\ b \in Word(k - 1 + 1)
        /\ \A i \in 1 .. k - 1 + 1 : b[i] = h[1 - 1 + i]
    BY <1>4, <1>5, PieceIs
  <2>2. \A i \in 1 .. k : 1 - 1 + i = i
    BY <1>2
  <2>3. QED
    BY <1>5, <2>1, <2>2
<1>8. PICK c : c = a \o b
  OBVIOUS
<1>9. PICK m \in Nat : m = 28 - k
  BY <1>2
<1>10. c \in Word(28) /\ InRow(c, a, b, m, k)
  <2>1. a \in Word(m) /\ k \in Nat /\ 28 = m + k
    BY <1>2, <1>6, <1>9
  <2>2. QED
    BY <1>7, <1>8, <2>1, RowIs
<1>11. ASSUME NEW i \in 1 .. 28 PROVE c[i] = h[((i - 1 + t) % 28) + 1]
  <2>1. PICK q \in Int : t = 28 * q + k
    BY <1>1
  <2>2. CASE i <= m
    <3>1. (i - 1 + t) % 28 = i - 1 + k
      BY <1>2, <1>9, <2>1, <2>2
    <3>2. c[i] = a[i] /\ a[i] = h[k + i] /\ i - 1 + k + 1 = k + i
      BY <1>2, <1>6, <1>9, <1>10, <2>2 DEF InRow
    <3>3. QED
      BY <3>1, <3>2
  <2>3. CASE i > m
    <3>1. (i - 1 + t) % 28 = i - 1 + k - 28
      BY <1>2, <1>9, <2>1, <2>3
    <3>2. PICK j \in 1 .. k : j = i - m
      BY <1>2, <1>9, <2>3
    <3>3. c[m + j] = b[j] /\ b[j] = h[j] /\ m + j = i /\ i - 1 + k - 28 + 1 = j
      BY <1>2, <1>7, <1>9, <1>10, <3>2 DEF InRow
    <3>4. QED
      BY <3>1, <3>3
  <2>4. QED
    BY <1>2, <1>9, <2>2, <2>3
<1>12. MoveBits(h, t) = c
  BY <1>1, <1>3, <1>4, <1>8 DEF MoveBits
<1>13. QED
  BY <1>10, <1>11, <1>12 DEF MovesBy

(* Turning the halves of a key that was turned by c. *)
LEMMA TurnOn ==
  ASSUME NEW k \in Word(56), NEW c \in Int, NEW t \in Int
  PROVE  Rot(k, c) \in Word(56) /\ TurnedKey(Rot(k, c), t) = Rot(k, c + t)
<1>1. ASSUME NEW e \in Int PROVE Rot(k, e) \in Word(56)
  <2>1. \A i \in 1 .. 28 : ((i - 1 + e) % 28) + 1 \in 1 .. 56
    OBVIOUS
  <2>2. \A i \in 29 .. 56 : ((i - 29 + e) % 28) + 29 \in 1 .. 56
    OBVIOUS
  <2>3. QED
    BY <2>1, <2>2, SMTT(30) DEF Rot, Word
<1>2. PICK a \in Word(56) : a = Rot(k, c)
  BY <1>1
<1>3. PICK x : x = Half(a, 28, 1)
  OBVIOUS
<1>4. PICK y : y = Half(a, 28, 2)
  OBVIOUS
<1>5. x = SubSeq(a, 1, 28) /\ y = SubSeq(a, 29, 56)
  BY <1>3, <1>4 DEF Half
<1>6. x \in Word(28) /\ \A i \in 1 .. 28 : x[i] = a[i]
  <2>1. 28 - 1 + 1 = 28 /\ 1 \in 1 .. 56 + 1 /\ 28 \in 1 - 1 .. 56 /\ 56 \in Nat
    OBVIOUS
  <2>2. x \in Word(28 - 1 + 1) /\ \A i \in 1 .. 28 - 1 + 1 : x[i] = a[1 - 1 + i]
    BY <1>5, <2>1, PieceIs
  <2>3. QED
    BY <2>1, <2>2
<1>7. y \in Word(28) /\ \A i \in 1 .. 28 : y[i] = a[28 + i]
  <2>1. 56 - 29 + 1 = 28 /\ 29 \in 1 .. 56 + 1 /\ 56 \in 29 - 1 .. 56 /\ 56 \in Nat /\ 29 - 1 = 28
    OBVIOUS
  <2>2. y \in Word(56 - 29 + 1) /\ \A i \in 1 .. 56 - 29 + 1 : y[i] = a[29 - 1 + i]
    BY <1>5, <2>1, PieceIs
  <2>3. QED
    BY <2>1, <2>2
<1>8. PICK u : u = MoveBits(x, t)
  OBVIOUS
<1>9. PICK v : v = MoveBits(y, t)
  OBVIOUS
<1>10. u \in Word(28) /\ MovesBy(u, x, t) /\ v \in Word(28) /\ MovesBy(v, y, t)
  BY <1>6, <1>7, <1>8, <1>9, MoveIs
<1>11. PICK z : z = u \o v
  OBVIOUS
<1>12. z \in Word(56) /\ InRow(z, u, v, 28, 28)
  <2>1. 56 = 28 + 28 /\ 28 \in Nat
    OBVIOUS
  <2>2. QED
    BY <1>10, <1>11, <2>1, RowIs
<1>13. PICK w \in Word(56) : w = Rot(k, c + t)
  BY <1>1
<1>14. ASSUME NEW i \in 1 .. 28 PROVE z[i] = w[i]
  <2>1. PICK j \in 1 .. 28 : j = ((i - 1 + t) % 28) + 1
    OBVIOUS
  <2>2. z[i] = a[j]
    BY <1>6, <1>10, <1>12, <2>1 DEF InRow, MovesBy
  <2>3. a[j] = k[((j - 1 + c) % 28) + 1]
    BY <1>2 DEF Rot
  <2>4. (j - 1 + c) % 28 = (i - 1 + (c + t)) % 28
    BY <2>1
  <2>5. w[i] = k[((i - 1 + (c + t)) % 28) + 1]
    BY <1>13 DEF Rot
  <2>6. QED
    BY <2>2, <2>3, <2>4, <2>5
<1>15. ASSUME NEW i \in 1 .. 28 PROVE z[28 + i] = w[28 + i]
  <2>1. PICK j \in 1 .. 28 : j = ((i - 1 + t) % 28) + 1
    OBVIOUS
  <2>2. z[28 + i] = a[28 + j]
    BY <1>7, <1>10, <1>12, <2>1, ZenonT(40) DEF InRow, MovesBy
  <2>3. PICK p \in 29 .. 56 : p = 28 + j /\ p \in 1 .. 56
    OBVIOUS
  <2>4. a[p] = k[((p - 29 + c) % 28) + 29]
    BY <1>2, <2>3 DEF Rot
  <2>5. PICK q \in 29 .. 56 : q = 28 + i /\ q \in 1 .. 56
    OBVIOUS
  <2>6. w[q] = k[((q - 29 + (c + t)) % 28) + 29]
    BY <1>13, <2>5 DEF Rot
  <2>7. (p - 29 + c) % 28 = (q - 29 + (c + t)) % 28
    BY <2>1, <2>3, <2>5
  <2>8. QED
    BY <2>2, <2>3, <2>4, <2>5, <2>6, <2>7
<1>16. z = w
  <2>1. \A i \in 1 .. 56 : i \in 1 .. 28 \/ (i - 28 \in 1 .. 28 /\ i = 28 + (i - 28))
    OBVIOUS
  <2>2. \A i \in 1 .. 56 : z[i] = w[i]
    BY <1>14, <1>15, <2>1
  <2>3. QED
    BY <1>12, <2>2, WordEqual
<1>17. QED
  BY <1>2, <1>3, <1>4, <1>8, <1>9, <1>11, <1>13, <1>16 DEF TurnedKey

(* Once around is not at all. *)
LEMMA OnceAround ==
  ASSUME NEW k \in Word(56), NEW c \in Int
  PROVE  Rot(k, c + 28) = Rot(k, c) /\ Rot(k, 0) = k
<1>1. \A i \in 1 .. 56 : (i - 1 + (c + 28)) % 28 = (i - 1 + c) % 28
  OBVIOUS
<1>2. \A i \in 1 .. 56 : (i - 29 + (c + 28)) % 28 = (i - 29 + c) % 28
  OBVIOUS
<1>3. Rot(k, c + 28) = Rot(k, c)
  BY <1>1, <1>2 DEF Rot
<1>4. \A i \in 1 .. 28 : ((i - 1 + 0) % 28) + 1 = i
  OBVIOUS
<1>5. \A i \in 29 .. 56 : ((i - 29 + 0) % 28) + 29 = i
  OBVIOUS
<1>6. Rot(k, 0) = k
  BY <1>4, <1>5 DEF Rot, Word
<1>7. QED
  BY <1>3, <1>6

-----------------------------------------------------------------------------
(* The turns of the key up to a round, and up to the same round from the other end: the
   two ways of going through the rounds meet the same keys. *)
Modes == {"encrypt", "decrypt"}
Other(mode) == IF mode = "encrypt" THEN "decrypt" ELSE "encrypt"

Sum(mode, n) ==
  IF n = 0 THEN 0
  ELSE IF mode = "encrypt"
       THEN << 1, 2, 4, 6, 8, 10, 12, 14, 15, 17, 19, 21, 23, 25, 27, 28 >>[n]
       ELSE << 0, -1, -3, -5, -7, -9, -11, -13, -14, -16, -18, -20, -22, -24, -26, -27 >>[n]

LEMMA SumIs ==
  ASSUME NEW mode \in Modes, NEW n \in 1 .. 16
  PROVE  /\ Sum(mode, n - 1) \in Int /\ Table_Move[mode][n] \in Int
         /\ Sum(mode, n) = Sum(mode, n - 1) + Table_Move[mode][n]
         /\ Sum(mode, n) = Sum(Other(mode), 17 - n) \/ Sum(mode, n) = Sum(Other(mode), 17 - n) + 28
              \/ Sum(mode, n) + 28 = Sum(Other(mode), 17 - n)
<1>1. CASE mode = "encrypt"
  BY <1>1, SMTT(60) DEF Sum, Table_Move, Other
<1>2. CASE mode = "decrypt"
  BY <1>2, SMTT(60) DEF Sum, Table_Move, Other
<1>3. QED
  BY <1>1, <1>2 DEF Modes

-----------------------------------------------------------------------------
(* The sixteen rounds. *)
States == [key : Word(56), bits : Word(64)]

KeyOf(key) == Permutation(key, Table_PC1)

IsRounds(g, block, key, mode) ==
  /\ g \in [0 .. 16 -> States]
  /\ g[0] = [key |-> KeyOf(key), bits |-> Permutation(block, Table_IP)]
  /\ \A n \in 1 .. 16 :
       /\ g[n].key = TurnedKey(g[n - 1].key, Table_Move[mode][n])
       /\ g[n].bits = NextBits(g[n - 1].bits, g[n].key)

LEMMA FirstState ==
  ASSUME NEW block \in Word(64), NEW key \in Word(64)
  PROVE  /\ KeyOf(key) \in Word(56) /\ Permutation(block, Table_IP) \in Word(64)
         /\ [key |-> KeyOf(key), bits |-> Permutation(block, Table_IP)] \in States
<1>1. PicksFrom(Table_PC1, 56, 64) /\ 56 \in Nat /\ 64 \in Nat
  BY TableDomains, ChoiceIs DEF PicksFrom
<1>2. KeyOf(key) \in Word(56)
  BY <1>1, PermutationIs DEF KeyOf
<1>3. Permutation(block, Table_IP) \in Word(64)
  BY PermuteBack
<1>4. QED
  BY <1>2, <1>3 DEF States

(* One round takes a state to a state. *)
LEMMA RoundIs ==
  ASSUME RoundFunction, NEW x \in States, NEW t \in Int
  PROVE  /\ Mixed(Turned(x, t)) \in States
         /\ Mixed(Turned(x, t)).key = TurnedKey(x.key, t)
         /\ Mixed(Turned(x, t)).bits = NextBits(x.bits, TurnedKey(x.key, t))
<1>1. PICK k \in Word(56) : k = x.key
  BY DEF States
<1>2. PICK b \in Word(64) : b = x.bits
  BY DEF States
<1>3. PICK m : m = TurnedKey(k, t)
  OBVIOUS
<1>4. m \in Word(56)
  <2>1. Rot(k, 0) = k /\ 0 \in Int /\ 0 + t = t
    BY OnceAround
  <2>2. m = Rot(k, t)
    BY <1>3, <2>1, TurnOn
  <2>3. QED
    BY <2>2, TurnOn
<1>5. PICK c : c = NextBits(b, m)
  OBVIOUS
<1>6. c \in Word(64)
  BY <1>4, <1>5, RoundBack
<1>7. x = [key |-> k, bits |-> b]
  BY <1>1, <1>2 DEF States
<1>8. PICK y : y = Turned(x, t)
  OBVIOUS
<1>9. y = [key |-> m, bits |-> b]
  <2>1. y = [x EXCEPT !.key = MoveBits(Half(x.key, 28, 1), t) \o MoveBits(Half(x.key, 28, 2), t)]
    BY <1>8 DEF Turned
  <2>2. m = MoveBits(Half(x.key, 28, 1), t) \o MoveBits(Half(x.key, 28, 2), t)
    BY <1>1, <1>3 DEF TurnedKey
  <2>3. y = [x EXCEPT !.key = m]
    BY <2>1, <2>2
  <2>4. QED
    BY <1>7, <2>3
<1>10. PICK z : z = Mixed(y)
  OBVIOUS
<1>11. z = [key |-> m, bits |-> c]
  <2>1. z = [y EXCEPT !.bits = Half(y.bits, 32, 2) \o XorBits(F(Half(y.bits, 32, 2), y.key), Half(y.bits, 32, 1))]
    BY <1>10 DEF Mixed
  <2>2. y.bits = b /\ y.key = m
    BY <1>9
  <2>3. c = Half(y.bits, 32, 2) \o XorBits(F(Half(y.bits, 32, 2), y.key), Half(y.bits, 32, 1))
    BY <1>5, <2>2 DEF NextBits
  <2>4. z = [y EXCEPT !.bits = c]
    BY <2>1, <2>3
  <2>5. QED
    BY <1>9, <2>4
<1>12. z \in States /\ z.key = m /\ z.bits = c
  BY <1>4, <1>6, <1>11 DEF States
<1>13. QED
  BY <1>1, <1>2, <1>3, <1>5, <1>8, <1>10, <1>12

(* The function of the rounds has values: sixteen of them. *)
RoundsFrom(g, a, mode) ==
  g = [n \in 0 .. 16 |-> IF n = 0 THEN a ELSE Mixed(Turned(g[n - 1], Table_Move[mode][n]))]

LEMMA RoundsAre ==
  ASSUME RoundFunction, NEW block \in Word(64), NEW key \in Word(64), NEW mode \in Modes
  PROVE  IsRounds(Rounds(block, key, mode), block, key, mode)
<1>1. PICK a \in States : a = [key |-> KeyOf(key), bits |-> Permutation(block, Table_IP)]
  BY FirstState
<1>2. PICK G : G = [n \in 1 .. 16 |-> [x \in States |-> Mixed(Turned(x, Table_Move[mode][n]))]]
  OBVIOUS
<1>3. ASSUME NEW n \in 1 .. 16 PROVE Table_Move[mode][n] \in Int
  BY SumIs
<1>4. G \in [1 .. 16 -> [States -> States]]
  BY <1>2, <1>3, RoundIs
<1>5. PICK g \in [0 .. 16 -> States] : Steps(g, 16, a, G)
  BY <1>4, StepsExist
<1>6. \A n \in 0 .. 16 : n # 0 => n \in 1 .. 16 /\ g[n - 1] \in States
  BY <1>5
<1>7. RoundsFrom(g, a, mode)
  BY <1>2, <1>5, <1>6 DEF Steps, RoundsFrom
<1>8. RoundsFrom(Rounds(block, key, mode), a, mode)
  BY <1>1, <1>7 DEF Rounds, RoundsFrom, KeyOf
<1>9. PICK h : h = Rounds(block, key, mode)
  OBVIOUS
<1>10. RoundsFrom(h, a, mode)
  BY <1>8, <1>9
<1>11. h = g
  <2>1. \A n \in 0 .. 16 : h[n] = IF n = 0 THEN a ELSE Mixed(Turned(h[n - 1], Table_Move[mode][n]))
    BY <1>10 DEF RoundsFrom
  <2>2. \A n \in 0 .. 16 : g[n] = IF n = 0 THEN a ELSE Mixed(Turned(g[n - 1], Table_Move[mode][n]))
    BY <1>7 DEF RoundsFrom
  <2>3. PICK T : T = {n \in 0 .. 16 : h[n] # g[n]}
    OBVIOUS
  <2>4. CASE T # {}
    <3>0. T \subseteq Nat
      BY <2>3
    <3>1. PICK n \in T : \A m \in T : n <= m
      BY <2>4, <3>0, Least
    <3>2. n \in 0 .. 16 /\ h[n] # g[n]
      BY <2>3
    <3>3. n # 0
      BY <2>1, <2>2, <3>2
    <3>4. n - 1 \in 0 .. 16 /\ n - 1 \notin T
      BY <3>1, <3>2, <3>3
    <3>5. h[n - 1] = g[n - 1]
      BY <2>3, <3>4
    <3>6. QED
      BY <2>1, <2>2, <3>2, <3>3, <3>5
  <2>5. CASE T = {}
    <3>1. \A n \in 0 .. 16 : h[n] = g[n]
      BY <2>3, <2>5
    <3>2. h = [n \in 0 .. 16 |-> h[n]]
      BY <1>10 DEF RoundsFrom
    <3>3. QED
      BY <3>1, <3>2
  <2>6. QED
    BY <2>4, <2>5
<1>12. ASSUME NEW n \in 1 .. 16
       PROVE  /\ g[n].key = TurnedKey(g[n - 1].key, Table_Move[mode][n])
              /\ g[n].bits = NextBits(g[n - 1].bits, g[n].key)
  <2>1. n \in 0 .. 16 /\ n # 0 /\ g[n - 1] \in States
    BY <1>6
  <2>2. PICK x \in States : x = g[n - 1]
    BY <2>1
  <2>3. PICK t \in Int : t = Table_Move[mode][n]
    BY <1>3
  <2>4. g[n] = Mixed(Turned(x, t))
    BY <1>7, <2>1, <2>2, <2>3 DEF RoundsFrom
  <2>5. /\ g[n].key = TurnedKey(x.key, t)
        /\ g[n].bits = NextBits(x.bits, TurnedKey(x.key, t))
    BY <2>4, RoundIs
  <2>6. QED
    BY <2>2, <2>3, <2>5
<1>13. g[0] = a
  BY <1>7 DEF RoundsFrom
<1>14. QED
  BY <1>1, <1>5, <1>9, <1>11, <1>12, <1>13 DEF IsRounds

(* The key of each round. *)
LEMMA RoundKeys ==
  ASSUME NEW g, NEW block \in Word(64), NEW key \in Word(64), NEW mode \in Modes,
         IsRounds(g, block, key, mode), NEW n \in 0 .. 16
  PROVE  g[n].key = Rot(KeyOf(key), Sum(mode, n))
<1>1. PICK k \in Word(56) : k = KeyOf(key)
  BY FirstState
<1>2. PICK T : T = {m \in 0 .. 16 : g[m].key # Rot(k, Sum(mode, m))}
  OBVIOUS
<1>3. CASE T # {}
  <2>1. PICK m \in T : \A l \in T : m <= l
    BY <1>2, <1>3, Least, SMTT(30)
  <2>2. m \in 0 .. 16 /\ g[m].key # Rot(k, Sum(mode, m))
    BY <1>2
  <2>3. m # 0
    <3>1. g[0].key = k /\ Sum(mode, 0) = 0
      BY <1>1 DEF IsRounds, Sum
    <3>2. Rot(k, 0) = k
      <4>1. 0 \in Int
        OBVIOUS
      <4>2. QED
        BY <4>1, OnceAround
    <3>3. QED
      BY <2>2, <3>1, <3>2
  <2>4. m \in 1 .. 16 /\ m - 1 \in 0 .. 16 /\ m - 1 \notin T
    BY <2>1, <2>2, <2>3
  <2>5. g[m - 1].key = Rot(k, Sum(mode, m - 1))
    BY <1>2, <2>4
  <2>6. PICK c \in Int : c = Sum(mode, m - 1)
    BY <2>4, SumIs
  <2>7. PICK t \in Int : t = Table_Move[mode][m]
    BY <2>4, SumIs
  <2>8. Sum(mode, m) = c + t
    BY <2>4, <2>6, <2>7, SumIs
  <2>9. g[m].key = TurnedKey(Rot(k, c), t)
    BY <2>4, <2>5, <2>6, <2>7 DEF IsRounds
  <2>10. TurnedKey(Rot(k, c), t) = Rot(k, c + t)
    BY TurnOn
  <2>11. QED
    BY <2>2, <2>8, <2>9, <2>10
<1>4. CASE T = {}
  BY <1>1, <1>2, <1>4
<1>5. QED
  BY <1>3, <1>4

(* The rounds of one mode in one order have the keys of the other in the other order. *)
LEMMA SameKeys ==
  ASSUME NEW k \in Word(56), NEW mode \in Modes, NEW n \in 1 .. 16
  PROVE  Rot(k, Sum(mode, n)) = Rot(k, Sum(Other(mode), 17 - n))
<1>1. PICK a : a = Sum(mode, n)
  OBVIOUS
<1>2. PICK b : b = Sum(Other(mode), 17 - n)
  OBVIOUS
<1>3. 17 - n \in 1 .. 16 /\ Other(mode) \in Modes
  BY DEF Modes, Other
<1>4. a \in Int
  BY <1>1, SumIs
<1>5. b \in Int
  BY <1>2, <1>3, SumIs
<1>6. a = b \/ a = b + 28 \/ a + 28 = b
  BY <1>1, <1>2, SumIs
<1>7. QED
  BY <1>1, <1>2, <1>4, <1>5, <1>6, OnceAround

LEMMA KeysMeet ==
  ASSUME NEW g, NEW h, NEW b \in Word(64), NEW c \in Word(64), NEW key \in Word(64),
         NEW mode \in Modes, IsRounds(g, b, key, mode), IsRounds(h, c, key, Other(mode)),
         NEW n \in 1 .. 16
  PROVE  h[17 - n].key = g[n].key
<1>1. PICK k \in Word(56) : k = KeyOf(key)
  BY FirstState
<1>2. PICK m \in 1 .. 16 : m = 17 - n
  OBVIOUS
<1>3. PICK o \in Modes : o = Other(mode)
  BY DEF Modes, Other
<1>4. n \in 0 .. 16 /\ m \in 0 .. 16 /\ IsRounds(h, c, key, o)
  BY <1>3
<1>5. g[n].key = Rot(KeyOf(key), Sum(mode, n))
  BY <1>4, RoundKeys
<1>6. h[m].key = Rot(KeyOf(key), Sum(o, m))
  BY <1>4, RoundKeys
<1>7. Rot(k, Sum(mode, n)) = Rot(k, Sum(o, m))
  BY <1>2, <1>3, SameKeys
<1>8. QED
  BY <1>1, <1>2, <1>5, <1>6, <1>7

(* One pass of des() over a block is undone by a pass in the other mode, for every key, every
   block and every round function. *)
THEOREM DesBack ==
  ASSUME RoundFunction, NEW block \in Word(64), NEW key \in Word(64), NEW mode \in Modes
  PROVE  /\ DesBlock(block, key, mode) \in Word(64)
         /\ DesBlock(DesBlock(block, key, mode), key, Other(mode)) = block
<1>0. Other(mode) \in Modes
  BY DEF Modes, Other
<1>1. PICK g : g = Rounds(block, key, mode)
  OBVIOUS
<1>2. IsRounds(g, block, key, mode)
  BY <1>1, RoundsAre
<1>3. PICK e \in Word(64) : e = g[16].bits
  BY <1>2 DEF IsRounds, States
<1>4. PICK s \in Word(64) : s = Swapped(e)
  BY SwappedIs
<1>5. PICK d \in Word(64) : d = Permutation(s, Table_InverseIP) /\ Permutation(d, Table_IP) = s
  BY PermuteBack
<1>6. DesBlock(block, key, mode) = d
  BY <1>1, <1>3, <1>4, <1>5 DEF DesBlock
<1>7. PICK h : h = Rounds(d, key, Other(mode))
  OBVIOUS
<1>8. IsRounds(h, d, key, Other(mode))
  BY <1>0, <1>7, RoundsAre
<1>81. \A n \in 1 .. 16 : h[17 - n].key = g[n].key
  <2>1. ASSUME NEW n \in 1 .. 16 PROVE h[17 - n].key = g[n].key
    BY <1>2, <1>8, KeysMeet, ZenonT(60)
  <2>2. QED
    BY <2>1
<1>9. \A n \in 0 .. 16 : h[n].bits = Swapped(g[16 - n].bits)
  <2>1. PICK T : T = {n \in 0 .. 16 : h[n].bits # Swapped(g[16 - n].bits)}
    OBVIOUS
  <2>2. CASE T # {}
    <3>0. T \subseteq Nat
      BY <2>1
    <3>1. PICK n \in T : \A m \in T : n <= m
      BY <2>2, <3>0, Least
    <3>2. n \in 0 .. 16 /\ h[n].bits # Swapped(g[16 - n].bits)
      BY <2>1
    <3>3. n # 0
      <4>1. h[0].bits = s /\ 16 - 0 = 16
        BY <1>5, <1>8 DEF IsRounds
      <4>2. QED
        BY <1>3, <1>4, <3>2, <4>1
    <3>4. n \in 1 .. 16 /\ n - 1 \in 0 .. 16 /\ n - 1 \notin T /\ 17 - n \in 1 .. 16 /\ 16 - n \in 0 .. 16
          /\ 16 - (n - 1) = 17 - n /\ 17 - n - 1 = 16 - n /\ 17 - (17 - n) = n
      BY <3>1, <3>2, <3>3
    <3>5. PICK m \in 1 .. 16 : m = 17 - n /\ m - 1 = 16 - n /\ m \in 0 .. 16 /\ n = 17 - m
      BY <3>4
    <3>6. h[n - 1].bits = Swapped(g[m].bits)
      BY <2>1, <3>4, <3>5
    <3>7. PICK b \in Word(64) : b = g[m - 1].bits
      BY <1>2, <3>4, <3>5 DEF IsRounds, States
    <3>8. PICK k \in Word(56) : k = g[m].key
      BY <1>2, <3>5 DEF IsRounds, States
    <3>9. g[m].bits = NextBits(b, k)
      BY <1>2, <3>5, <3>7, <3>8 DEF IsRounds
    <3>10. h[n].key = k
      <4>1. h[17 - m].key = g[m].key
        BY <1>81
      <4>2. QED
        BY <3>5, <3>8, <4>1
    <3>11. h[n].bits = NextBits(Swapped(NextBits(b, k)), k)
      BY <1>8, <3>4, <3>6, <3>9, <3>10 DEF IsRounds
    <3>12. h[n].bits = Swapped(b)
      BY <3>11, RoundBack
    <3>13. QED
      BY <3>2, <3>5, <3>7, <3>12
  <2>3. CASE T = {}
    BY <2>1, <2>3
  <2>4. QED
    BY <2>2, <2>3
<1>10. PICK p \in Word(64) : p = Permutation(block, Table_IP) /\ Permutation(p, Table_InverseIP) = block
  BY PermuteBack
<1>11. h[16].bits = Swapped(p)
  <2>1. 16 \in 0 .. 16 /\ 16 - 16 = 0
    OBVIOUS
  <2>2. g[0].bits = p
    BY <1>2, <1>10 DEF IsRounds
  <2>3. QED
    BY <1>9, <2>1, <2>2
<1>12. Swapped(h[16].bits) = p
  BY <1>11, SwappedIs
<1>13. DesBlock(d, key, Other(mode)) = block
  BY <1>7, <1>10, <1>12 DEF DesBlock
<1>14. QED
  BY <1>5, <1>6, <1>13

-----------------------------------------------------------------------------
(* Bytes and their bits. *)
Byte == 0 .. 255

Sum8(b, o) ==
  b[o + 1] * 128 + b[o + 2] * 64 + b[o + 3] * 32 + b[o + 4] * 16
    + b[o + 5] * 8 + b[o + 6] * 4 + b[o + 7] * 2 + b[o + 8] * 1

LEMMA ByteOfBits ==
  ASSUME NEW v \in Byte
  PROVE  v = ((v \div 128) % 2) * 128 + ((v \div 64) % 2) * 64 + ((v \div 32) % 2) * 32
             + ((v \div 16) % 2) * 16 + ((v \div 8) % 2) * 8 + ((v \div 4) % 2) * 4
             + ((v \div 2) % 2) * 2 + ((v \div 1) % 2) * 1
  BY DEF Byte

LEMMA BitsOfByte ==
  ASSUME NEW a \in {0, 1}, NEW b \in {0, 1}, NEW c \in {0, 1}, NEW d \in {0, 1},
         NEW e \in {0, 1}, NEW f \in {0, 1}, NEW g \in {0, 1}, NEW h \in {0, 1},
         NEW v, v = a * 128 + b * 64 + c * 32 + d * 16 + e * 8 + f * 4 + g * 2 + h * 1
  PROVE  /\ v \in Byte
         /\ (v \div 128) % 2 = a /\ (v \div 64) % 2 = b /\ (v \div 32) % 2 = c
         /\ (v \div 16) % 2 = d /\ (v \div 8) % 2 = e /\ (v \div 4) % 2 = f
         /\ (v \div 2) % 2 = g /\ (v \div 1) % 2 = h
  BY DEF Byte

Text(n) == [1 .. n -> Byte]

(* Bit k of byte i. *)
BitAt(b, y, i, k, w) == b[8 * i - 8 + k] = (y[i] \div w) % 2

BitsOf(b, y, n) ==
  \A i \in 1 .. n :
    /\ BitAt(b, y, i, 1, 128) /\ BitAt(b, y, i, 2, 64) /\ BitAt(b, y, i, 3, 32)
    /\ BitAt(b, y, i, 4, 16) /\ BitAt(b, y, i, 5, 8) /\ BitAt(b, y, i, 6, 4)
    /\ BitAt(b, y, i, 7, 2) /\ BitAt(b, y, i, 8, 1)

LEMMA WeightIs ==
  /\ Weight[1] = 128 /\ Weight[2] = 64 /\ Weight[3] = 32 /\ Weight[4] = 16
  /\ Weight[5] = 8 /\ Weight[6] = 4 /\ Weight[7] = 2 /\ Weight[8] = 1
  /\ \A k \in 1 .. 8 : Weight[k] \in Nat \ {0}
<1>1. /\ Weight[1] = 128 /\ Weight[2] = 64 /\ Weight[3] = 32 /\ Weight[4] = 16
      /\ Weight[5] = 8 /\ Weight[6] = 4 /\ Weight[7] = 2 /\ Weight[8] = 1
  BY DEF Weight
<1>2. \A k \in 1 .. 8 : Weight[k] \in Nat \ {0}
  BY <1>1
<1>3. QED
  BY <1>1, <1>2

LEMMA BitsAre ==
  ASSUME NEW n \in Nat, NEW y \in Text(n)
  PROVE  Bits(y) \in Word(8 * n) /\ BitsOf(Bits(y), y, n)
<1>1. Len(y) = n
  BY WordIs DEF Text
<1>2. PICK f : f = [i \in 1 .. 8 * Len(y) |-> (y[((i - 1) \div 8) + 1] \div Weight[((i - 1) % 8) + 1]) % 2]
  OBVIOUS
<1>3. ASSUME NEW i \in 1 .. 8 * n
      PROVE  (y[((i - 1) \div 8) + 1] \div Weight[((i - 1) % 8) + 1]) % 2 \in {0, 1}
  <2>1. PICK p \in 1 .. n : p = ((i - 1) \div 8) + 1
    OBVIOUS
  <2>2. PICK k \in 1 .. 8 : k = ((i - 1) % 8) + 1
    OBVIOUS
  <2>3. PICK v \in Nat : v = y[p]
    BY DEF Text, Byte
  <2>4. PICK w \in Nat \ {0} : w = Weight[k]
    BY WeightIs
  <2>5. PICK q \in Nat : q = v \div w
    OBVIOUS
  <2>6. q % 2 \in {0, 1}
    OBVIOUS
  <2>7. QED
    BY <2>1, <2>2, <2>3, <2>4, <2>5, <2>6
<1>4. f \in Word(8 * n)
  BY <1>1, <1>2, <1>3 DEF Word
<1>5. Bits(y) = f
  <2>1. 8 * n \in Nat
    OBVIOUS
  <2>2. Tuple(f) = f
    BY <1>4, <2>1, WordIs DEF Word
  <2>3. QED
    BY <1>2, <2>2 DEF Bits
<1>6. ASSUME NEW i \in 1 .. n, NEW k \in 1 .. 8 PROVE f[8 * i - 8 + k] = (y[i] \div Weight[k]) % 2
  <2>1. PICK j \in 1 .. 8 * n : j = 8 * i - 8 + k
    OBVIOUS
  <2>2. ((j - 1) \div 8) + 1 = i /\ ((j - 1) % 8) + 1 = k
    BY <2>1
  <2>3. f[j] = (y[((j - 1) \div 8) + 1] \div Weight[((j - 1) % 8) + 1]) % 2
    BY <1>1, <1>2
  <2>4. QED
    BY <2>1, <2>2, <2>3
<1>7. BitsOf(f, y, n)
  <2> SUFFICES ASSUME NEW i \in 1 .. n
               PROVE  /\ BitAt(f, y, i, 1, 128) /\ BitAt(f, y, i, 2, 64) /\ BitAt(f, y, i, 3, 32)
                      /\ BitAt(f, y, i, 4, 16) /\ BitAt(f, y, i, 5, 8) /\ BitAt(f, y, i, 6, 4)
                      /\ BitAt(f, y, i, 7, 2) /\ BitAt(f, y, i, 8, 1)
    BY DEF BitsOf
  <2>1. \A k \in 1 .. 8 : BitAt(f, y, i, k, Weight[k])
    BY <1>6 DEF BitAt
  <2>2. QED
    BY <2>1, WeightIs
<1>8. QED
  BY <1>4, <1>5, <1>7

LEMMA BytesAre ==
  ASSUME NEW n \in Nat, NEW b \in Word(8 * n)
  PROVE  Bytes(b) \in Text(n) /\ \A i \in 1 .. n : Bytes(b)[i] = Sum8(b, 8 * i - 8)
<1>1. Len(b) = 8 * n /\ (8 * n) \div 8 = n
  <2>1. 8 * n \in Nat /\ (8 * n) \div 8 = n
    OBVIOUS
  <2>2. QED
    BY <2>1, WordIs DEF Word
<1>2. PICK f : f = [i \in 1 .. n |-> Sum8(b, 8 * i - 8)]
  OBVIOUS
<1>3. ASSUME NEW i \in 1 .. n PROVE Sum8(b, 8 * i - 8) \in Byte
  <2>1. \A k \in 1 .. 8 : 8 * i - 8 + k \in 1 .. 8 * n
    OBVIOUS
  <2>2. PICK o \in Int : o = 8 * i - 8
    OBVIOUS
  <2>3. /\ b[o + 1] \in {0, 1} /\ b[o + 2] \in {0, 1} /\ b[o + 3] \in {0, 1} /\ b[o + 4] \in {0, 1}
        /\ b[o + 5] \in {0, 1} /\ b[o + 6] \in {0, 1} /\ b[o + 7] \in {0, 1} /\ b[o + 8] \in {0, 1}
    BY <2>1, <2>2 DEF Word
  <2>4. QED
    BY <2>2, <2>3, BitsOfByte DEF Sum8
<1>4. f \in Text(n) /\ \A i \in 1 .. n : f[i] = Sum8(b, 8 * i - 8)
  BY <1>2, <1>3 DEF Text
<1>5. Bytes(b) = f
  <2>1. Tuple(f) = f
    BY <1>4, WordIs DEF Text
  <2>2. PICK g : g = [i \in 1 .. Len(b) \div 8 |->
          b[8 * i - 8 + 1] * Weight[1] + b[8 * i - 8 + 2] * Weight[2] + b[8 * i - 8 + 3] * Weight[3]
            + b[8 * i - 8 + 4] * Weight[4] + b[8 * i - 8 + 5] * Weight[5] + b[8 * i - 8 + 6] * Weight[6]
            + b[8 * i - 8 + 7] * Weight[7] + b[8 * i - 8 + 8] * Weight[8]]
    OBVIOUS
  <2>3. Bytes(b) = Tuple(g)
    BY <2>2 DEF Bytes
  <2>4. g = f
    BY <1>1, <1>2, <2>2, WeightIs DEF Sum8
  <2>5. QED
    BY <2>1, <2>3, <2>4
<1>6. QED
  BY <1>4, <1>5

(* Bytes are their bits. *)
LEMMA BytesBack ==
  ASSUME NEW n \in Nat, NEW y \in Text(n)
  PROVE  Bytes(Bits(y)) = y
<1>1. PICK b \in Word(8 * n) : b = Bits(y) /\ BitsOf(b, y, n)
  BY BitsAre
<1>2. PICK z \in Text(n) : z = Bytes(b) /\ \A i \in 1 .. n : z[i] = Sum8(b, 8 * i - 8)
  BY BytesAre
<1>3. ASSUME NEW i \in 1 .. n PROVE z[i] = y[i]
  <2>1. PICK v \in Byte : v = y[i]
    BY DEF Text
  <2>2. PICK o \in Int : o = 8 * i - 8
    OBVIOUS
  <2>3. /\ b[o + 1] = (v \div 128) % 2 /\ b[o + 2] = (v \div 64) % 2
        /\ b[o + 3] = (v \div 32) % 2 /\ b[o + 4] = (v \div 16) % 2
        /\ b[o + 5] = (v \div 8) % 2 /\ b[o + 6] = (v \div 4) % 2
        /\ b[o + 7] = (v \div 2) % 2 /\ b[o + 8] = (v \div 1) % 2
    BY <1>1, <2>1, <2>2 DEF BitsOf, BitAt
  <2>4. Sum8(b, o) = v
    BY <2>3, ByteOfBits DEF Sum8
  <2>5. QED
    BY <1>2, <2>1, <2>2, <2>4
<1>4. y = z
  BY <1>3 DEF Text
<1>5. QED
  BY <1>1, <1>2, <1>4

(* Bits are those of their bytes. *)
LEMMA BitsBack ==
  ASSUME NEW n \in Nat, NEW b \in Word(8 * n)
  PROVE  Bits(Bytes(b)) = b
<1>1. PICK y \in Text(n) : y = Bytes(b) /\ \A i \in 1 .. n : y[i] = Sum8(b, 8 * i - 8)
  BY BytesAre
<1>2. PICK c \in Word(8 * n) : c = Bits(y) /\ BitsOf(c, y, n)
  BY BitsAre
<1>3. ASSUME NEW i \in 1 .. n, NEW k \in 1 .. 8 PROVE c[8 * i - 8 + k] = b[8 * i - 8 + k]
  <2>1. \A m \in 1 .. 8 : 8 * i - 8 + m \in 1 .. 8 * n
    OBVIOUS
  <2>2. PICK o \in Int : o = 8 * i - 8
    OBVIOUS
  <2>3. /\ b[o + 1] \in {0, 1} /\ b[o + 2] \in {0, 1} /\ b[o + 3] \in {0, 1} /\ b[o + 4] \in {0, 1}
        /\ b[o + 5] \in {0, 1} /\ b[o + 6] \in {0, 1} /\ b[o + 7] \in {0, 1} /\ b[o + 8] \in {0, 1}
    BY <2>1, <2>2 DEF Word
  <2>4. PICK v \in Byte : v = y[i]
    BY DEF Text
  <2>5. v = Sum8(b, o)
    BY <1>1, <2>2, <2>4
  <2>6. /\ (v \div 128) % 2 = b[o + 1] /\ (v \div 64) % 2 = b[o + 2] /\ (v \div 32) % 2 = b[o + 3]
        /\ (v \div 16) % 2 = b[o + 4] /\ (v \div 8) % 2 = b[o + 5] /\ (v \div 4) % 2 = b[o + 6]
        /\ (v \div 2) % 2 = b[o + 7] /\ (v \div 1) % 2 = b[o + 8]
    <3>1. PICK b1 \in {0, 1}, b2 \in {0, 1}, b3 \in {0, 1}, b4 \in {0, 1} :
            b1 = b[o + 1] /\ b2 = b[o + 2] /\ b3 = b[o + 3] /\ b4 = b[o + 4]
      BY <2>3
    <3>2. PICK b5 \in {0, 1}, b6 \in {0, 1}, b7 \in {0, 1}, b8 \in {0, 1} :
            b5 = b[o + 5] /\ b6 = b[o + 6] /\ b7 = b[o + 7] /\ b8 = b[o + 8]
      BY <2>3
    <3>3. v = b1 * 128 + b2 * 64 + b3 * 32 + b4 * 16 + b5 * 8 + b6 * 4 + b7 * 2 + b8 * 1
      BY <2>5, <3>1, <3>2 DEF Sum8
    <3>4. /\ (v \div 128) % 2 = b1 /\ (v \div 64) % 2 = b2 /\ (v \div 32) % 2 = b3
          /\ (v \div 16) % 2 = b4 /\ (v \div 8) % 2 = b5 /\ (v \div 4) % 2 = b6
          /\ (v \div 2) % 2 = b7 /\ (v \div 1) % 2 = b8
      BY <3>3, BitsOfByte, SMTT(30)
    <3>5. QED
      BY <3>1, <3>2, <3>4
  <2>7. /\ c[o + 1] = (v \div 128) % 2 /\ c[o + 2] = (v \div 64) % 2
        /\ c[o + 3] = (v \div 32) % 2 /\ c[o + 4] = (v \div 16) % 2
        /\ c[o + 5] = (v \div 8) % 2 /\ c[o + 6] = (v \div 4) % 2
        /\ c[o + 7] = (v \div 2) % 2 /\ c[o + 8] = (v \div 1) % 2
    BY <1>2, <2>2, <2>4 DEF BitsOf, BitAt
  <2>8. k = 1 \/ k = 2 \/ k = 3 \/ k = 4 \/ k = 5 \/ k = 6 \/ k = 7 \/ k = 8
    OBVIOUS
  <2>9. QED
    BY <2>2, <2>6, <2>7, <2>8
<1>4. ASSUME NEW j \in 1 .. 8 * n PROVE c[j] = b[j]
  <2>1. PICK i \in 1 .. n : i = ((j - 1) \div 8) + 1
    OBVIOUS
  <2>2. PICK k \in 1 .. 8 : k = ((j - 1) % 8) + 1
    OBVIOUS
  <2>3. j = 8 * i - 8 + k
    BY <2>1, <2>2
  <2>4. QED
    BY <1>3, <2>3
<1>5. c = b
  BY <1>4 DEF Word
<1>6. QED
  BY <1>1, <1>2, <1>5

-----------------------------------------------------------------------------
(* Sequences in a row.  off says where each ends. *)
Ends(s, off, n) == off[0] = 0 /\ \A j \in 1 .. n : off[j] = off[j - 1] + Len(s[j])

FlatFrom(f, s) ==
  f = [i \in 1 .. Len(s) |-> IF i = 1 THEN s[i] ELSE f[i - 1] \o s[i]]

Holding(r, s, off, i) ==
  /\ Len(r) = off[i]
  /\ \A j \in 1 .. i, k \in Nat \ {0} :
       k <= Len(s[j]) => off[j - 1] + k \in 1 .. off[i] /\ r[off[j - 1] + k] = s[j][k]

LEMMA RowGrows ==
  ASSUME NEW S, NEW n \in Nat, NEW s \in [1 .. n -> Seq(S)], NEW off \in [0 .. n -> Nat],
         Ends(s, off, n), NEW i \in 1 .. n, NEW r \in Seq(S), Holding(r, s, off, i - 1)
  PROVE  r \o s[i] \in Seq(S) /\ Holding(r \o s[i], s, off, i)
<1>1. PICK b \in Seq(S) : b = s[i]
  OBVIOUS
<1>2. PICK l \in Nat, m \in Nat, e \in Nat : l = Len(r) /\ m = Len(b) /\ e = off[i]
  OBVIOUS
<1>3. PICK t : t = r \o b
  OBVIOUS
<1>4. /\ t \in Seq(S) /\ Len(t) = l + m
      /\ \A j \in 1 .. l + m : t[j] = IF j <= l THEN r[j] ELSE b[j - l]
  BY <1>2, <1>3, ConcatProperties
<1>5. l = off[i - 1]
  BY <1>2 DEF Holding
<1>6. e = l + m
  BY <1>1, <1>2, <1>5 DEF Ends
<1>7. ASSUME NEW j \in 1 .. i, NEW k \in Nat \ {0}, k <= Len(s[j])
      PROVE  off[j - 1] + k \in 1 .. e /\ t[off[j - 1] + k] = s[j][k]
  <2>1. CASE j = i
    <3>1. l + k \in 1 .. l + m /\ ~(l + k <= l) /\ (l + k) - l = k
      BY <1>1, <1>2, <1>7, <2>1
    <3>2. t[l + k] = b[k]
      BY <1>4, <3>1
    <3>3. QED
      BY <1>1, <1>5, <1>6, <2>1, <3>1, <3>2
  <2>2. CASE j # i
    <3>1. j \in 1 .. i - 1
      BY <2>2
    <3>2. PICK o \in Nat : o = off[j - 1]
      BY <3>1
    <3>3. o + k \in 1 .. off[i - 1] /\ r[o + k] = s[j][k]
      BY <1>7, <3>1, <3>2 DEF Holding
    <3>4. o + k \in 1 .. l
      BY <1>5, <3>3
    <3>5. o + k \in 1 .. l + m /\ o + k <= l
      BY <3>4
    <3>6. t[o + k] = r[o + k]
      BY <1>4, <3>5
    <3>7. QED
      BY <1>6, <3>2, <3>3, <3>5, <3>6
  <2>3. QED
    BY <2>1, <2>2
<1>8. Holding(t, s, off, i)
  BY <1>2, <1>4, <1>6, <1>7 DEF Holding
<1>9. QED
  BY <1>1, <1>3, <1>4, <1>8

LEMMA FlattenIs ==
  ASSUME NEW S, NEW n \in Nat, NEW s \in [1 .. n -> Seq(S)], NEW off \in [0 .. n -> Nat],
         Ends(s, off, n)
  PROVE  FlattenSeq(s) \in Seq(S) /\ Holding(FlattenSeq(s), s, off, n)
<1>1. Len(s) = n /\ n \in Nat
  BY WordIs
<1>2. CASE n = 0
  <2>1. FlattenSeq(s) = s
    BY <1>1, <1>2 DEF FlattenSeq
  <2>2. s \in [1 .. 0 -> S] /\ 0 \in Nat
    BY <1>2
  <2>3. s \in Seq(S)
    BY <2>2, WordIs
  <2>4. off[n] = 0
    BY <1>2 DEF Ends
  <2>5. QED
    BY <1>1, <1>2, <2>1, <2>3, <2>4 DEF Holding
<1>3. CASE n # 0
  <2>1. PICK G : G = [i \in 1 .. n |-> [x \in Seq(S) |-> x \o s[i]]]
    OBVIOUS
  <2>2. <<>> \in Seq(S) /\ G \in [1 .. n -> [Seq(S) -> Seq(S)]]
    BY <2>1, ConcatProperties
  <2>3. PICK h \in [0 .. n -> Seq(S)] : Steps(h, n, <<>>, G)
    BY <2>2, StepsExist
  <2>4. h[0] = <<>>
    BY <2>3 DEF Steps
  <2>5. ASSUME NEW i \in 1 .. n PROVE h[i] = h[i - 1] \o s[i] /\ h[i - 1] \in Seq(S)
    <3>1. i \in 0 .. n /\ i - 1 \in 0 .. n /\ i # 0
      OBVIOUS
    <3>2. h[i] = G[i][h[i - 1]]
      BY <2>3, <3>1 DEF Steps
    <3>3. PICK r \in Seq(S) : r = h[i - 1]
      BY <2>3, <3>1
    <3>4. G[i][r] = r \o s[i]
      BY <2>1
    <3>5. QED
      BY <3>2, <3>3, <3>4
  <2>6. \A i \in 0 .. n : Holding(h[i], s, off, i)
    <3>1. PICK T : T = {i \in 0 .. n : ~Holding(h[i], s, off, i)}
      OBVIOUS
    <3>2. CASE T # {}
      <4>1. T \subseteq Nat
        BY <3>1
      <4>2. PICK i \in T : \A j \in T : i <= j
        BY <3>2, <4>1, Least
      <4>3. i \in 0 .. n /\ ~Holding(h[i], s, off, i)
        BY <3>1
      <4>4. i # 0
        <5>1. Holding(h[0], s, off, 0)
          BY <2>4 DEF Holding, Ends
        <5>2. QED
          BY <4>3, <5>1
      <4>5. i \in 1 .. n /\ i - 1 \in 0 .. n /\ i - 1 \notin T
        BY <4>2, <4>3, <4>4
      <4>6. Holding(h[i - 1], s, off, i - 1)
        BY <3>1, <4>5
      <4>7. h[i] = h[i - 1] \o s[i] /\ h[i - 1] \in Seq(S)
        BY <2>5, <4>5
      <4>8. Holding(h[i], s, off, i)
        <5>1. PICK r \in Seq(S) : r = h[i - 1]
          BY <4>7
        <5>2. Holding(r \o s[i], s, off, i)
          BY <4>5, <4>6, <5>1, RowGrows
        <5>3. QED
          BY <4>7, <5>1, <5>2
      <4>9. QED
        BY <4>3, <4>8
    <3>3. QED
      BY <3>1, <3>2
  <2>7. PICK f : f = [i \in 1 .. n |-> h[i]]
    OBVIOUS
  <2>8. FlatFrom(f, s)
    <3>1. ASSUME NEW i \in 1 .. n PROVE h[i] = IF i = 1 THEN s[i] ELSE f[i - 1] \o s[i]
      <4>1. CASE i = 1
        <5>1. h[i] = <<>> \o s[i] /\ s[i] \in Seq(S)
          <6>1. h[i] = h[i - 1] \o s[i]
            BY <2>5
          <6>2. i - 1 = 0
            BY <4>1
          <6>3. s[i] \in Seq(S)
            OBVIOUS
          <6>4. QED
            BY <2>4, <6>1, <6>2, <6>3
        <5>2. <<>> \o s[i] = s[i]
          BY <5>1
        <5>3. QED
          BY <4>1, <5>1, <5>2
      <4>2. CASE i # 1
        <5>1. i - 1 \in 1 .. n
          BY <4>2
        <5>2. QED
          BY <2>5, <2>7, <4>2, <5>1
      <4>3. QED
        BY <4>1, <4>2
    <3>2. QED
      BY <1>1, <2>7, <3>1 DEF FlatFrom
  <2>9. PICK g : g = CHOOSE x : FlatFrom(x, s)
    OBVIOUS
  <2>10. FlatFrom(g, s)
    BY <2>8, <2>9
  <2>11. FlattenSeq(s) = g[n]
    BY <1>1, <1>3, <2>9 DEF FlattenSeq, FlatFrom
  <2>12. \A i \in 1 .. n : g[i] = IF i = 1 THEN s[i] ELSE g[i - 1] \o s[i]
    BY <1>1, <2>10 DEF FlatFrom
  <2>13. \A i \in 1 .. n : f[i] = IF i = 1 THEN s[i] ELSE f[i - 1] \o s[i]
    BY <1>1, <2>8 DEF FlatFrom
  <2>14. PICK T : T = {i \in 1 .. n : g[i] # f[i]}
    OBVIOUS
  <2>15. CASE T # {}
    <3>1. T \subseteq Nat
      BY <2>14
    <3>2. PICK i \in T : \A j \in T : i <= j
      BY <2>15, <3>1, Least
    <3>3. i \in 1 .. n /\ g[i] # f[i]
      BY <2>14
    <3>4. i # 1
      BY <2>12, <2>13, <3>3
    <3>5. i - 1 \in 1 .. n /\ i - 1 \notin T
      BY <3>2, <3>3, <3>4
    <3>6. g[i - 1] = f[i - 1]
      BY <2>14, <3>5
    <3>7. QED
      BY <2>12, <2>13, <3>3, <3>4, <3>6
  <2>16. CASE T = {}
    <3>1. n \in 1 .. n
      BY <1>3
    <3>2. g[n] = h[n]
      BY <2>7, <2>14, <2>16, <3>1
    <3>3. QED
      BY <2>6, <2>11, <3>1, <3>2
  <2>17. QED
    BY <2>15, <2>16
<1>4. QED
  BY <1>2, <1>3

(* Blocks of eight bytes. *)
Blocks(n) == [1 .. n -> Text(8)]

(* A block of a text, and of a row of blocks. *)
LEMMA BlockIs ==
  ASSUME NEW n \in Nat, NEW y \in Text(8 * n), NEW i \in 1 .. n
  PROVE  Block(y, i) \in Text(8) /\ \A k \in 1 .. 8 : Block(y, i)[k] = y[8 * i - 8 + k]
<1>1. PICK p \in 1 .. 8 * n, q \in 1 .. 8 * n : p = 8 * i - 7 /\ q = 8 * i
  OBVIOUS
<1>2. \A j \in p .. q : y[j] \in Byte
  BY <1>1 DEF Text
<1>3. PICK x : x = SubSeq(y, p, q)
  OBVIOUS
<1>4. /\ x \in Seq(Byte) /\ Len(x) = IF p <= q THEN q - p + 1 ELSE 0
      /\ \A k \in 1 .. q - p + 1 : x[k] = y[p + k - 1]
  BY <1>2, <1>3, SubSeqProperties
<1>5. Len(x) = 8 /\ q - p + 1 = 8
  BY <1>1, <1>4
<1>6. x \in Text(8)
  BY <1>4, <1>5, LenProperties DEF Text
<1>7. \A k \in 1 .. 8 : x[k] = y[8 * i - 8 + k]
  <2>1. ASSUME NEW k \in 1 .. 8 PROVE p + k - 1 = 8 * i - 8 + k
    BY <1>1
  <2>2. QED
    BY <1>4, <1>5, <2>1
<1>8. x = Block(y, i)
  BY <1>1, <1>3 DEF Block
<1>9. QED
  BY <1>6, <1>7, <1>8

LEMMA BlocksBack ==
  ASSUME NEW n \in Nat, NEW s \in Blocks(n)
  PROVE  /\ FlattenSeq(s) \in Text(8 * n)
         /\ \A i \in 1 .. n : Block(FlattenSeq(s), i) = s[i]
<1>1. ASSUME NEW i \in 1 .. n PROVE s[i] \in Text(8) /\ s[i] \in Seq(Byte) /\ Len(s[i]) = 8
  <2>1. s[i] \in Text(8) /\ 8 \in Nat
    BY DEF Blocks
  <2>2. QED
    BY <2>1, WordIs DEF Text
<1>2. s \in [1 .. n -> Seq(Byte)]
  BY <1>1 DEF Blocks
<1>3. PICK off : off = [i \in 0 .. n |-> 8 * i]
  OBVIOUS
<1>4. off \in [0 .. n -> Nat] /\ Ends(s, off, n)
  <2>1. off \in [0 .. n -> Nat] /\ off[0] = 0
    BY <1>3
  <2>2. ASSUME NEW j \in 1 .. n PROVE off[j] = off[j - 1] + Len(s[j])
    <3>1. off[j] = 8 * j /\ off[j - 1] = 8 * (j - 1)
      BY <1>3
    <3>2. Len(s[j]) = 8
      BY <1>1
    <3>3. 8 * j = 8 * (j - 1) + 8
      OBVIOUS
    <3>4. QED
      BY <3>1, <3>2, <3>3
  <2>3. QED
    BY <2>1, <2>2 DEF Ends
<1>5. PICK r \in Seq(Byte) : r = FlattenSeq(s) /\ Holding(r, s, off, n)
  BY <1>2, <1>4, FlattenIs
<1>6. Len(r) = 8 * n
  BY <1>3, <1>5 DEF Holding
<1>7. r \in Text(8 * n)
  BY <1>5, <1>6, LenProperties DEF Text
<1>8. ASSUME NEW i \in 1 .. n PROVE Block(r, i) = s[i]
  <2>1. PICK b \in Text(8) : b = s[i] /\ Len(b) = 8
    BY <1>1
  <2>2. PICK c \in Text(8) : c = Block(r, i) /\ \A k \in 1 .. 8 : c[k] = r[8 * i - 8 + k]
    BY <1>7, BlockIs
  <2>3. ASSUME NEW k \in 1 .. 8 PROVE c[k] = b[k]
    <3>1. off[i - 1] = 8 * i - 8
      BY <1>3
    <3>2. k \in Nat \ {0} /\ k <= Len(s[i])
      BY <2>1
    <3>3. r[off[i - 1] + k] = s[i][k]
      BY <1>5, <3>2 DEF Holding
    <3>4. QED
      BY <2>1, <2>2, <3>1, <3>3
  <2>4. b = c
    BY <2>3 DEF Text
  <2>5. QED
    BY <2>1, <2>2, <2>4
<1>9. QED
  BY <1>5, <1>7, <1>8

-----------------------------------------------------------------------------
(* Triple DES. *)

LEMMA KeyPartIs ==
  ASSUME NEW key \in Seq(Byte), CheckKey(key), NEW n \in 1 .. 3
  PROVE  KeyPart(key, n) \in Word(64)
<1>0. PICK m \in {16, 24} : m = Len(key)
  BY DEF CheckKey
<1>1. PICK p, q : /\ p = IF n = 3 /\ Len(key) = 16 THEN 1 ELSE 8 * n - 7
                  /\ q = IF n = 3 /\ Len(key) = 16 THEN 8 ELSE 8 * n
  OBVIOUS
<1>2. p \in 1 .. m /\ q \in 1 .. m /\ q - p + 1 = 8
  <2>1. CASE n = 3 /\ m = 16
    <3>1. p = 1 /\ q = 8
      BY <1>0, <1>1, <2>1
    <3>2. QED
      BY <2>1, <3>1
  <2>2. CASE ~(n = 3 /\ m = 16)
    <3>1. p = 8 * n - 7 /\ q = 8 * n
      BY <1>0, <1>1, <2>2
    <3>2. 8 * n <= m
      BY <2>2
    <3>3. QED
      BY <3>1, <3>2
  <2>3. QED
    BY <2>1, <2>2
<1>3. \A j \in p .. q : key[j] \in Byte
  BY <1>0, <1>2
<1>4. PICK x : x = SubSeq(key, p, q)
  OBVIOUS
<1>5. x \in Seq(Byte) /\ Len(x) = IF p <= q THEN q - p + 1 ELSE 0
  BY <1>2, <1>3, <1>4, SubSeqProperties
<1>6. Len(x) = 8
  BY <1>2, <1>5
<1>7. x \in Text(8)
  BY <1>5, <1>6, LenProperties DEF Text
<1>8. Bits(x) \in Word(64)
  <2>1. 8 \in Nat /\ 8 * 8 = 64
    OBVIOUS
  <2>2. QED
    BY <1>7, <2>1, BitsAre
<1>9. QED
  BY <1>1, <1>4, <1>8 DEF KeyPart

(* Three times, and three times back. *)
There(b, x, y, z) == DesBlock(DesBlock(DesBlock(b, x, "encrypt"), y, "decrypt"), z, "encrypt")
AndBack(b, x, y, z) == DesBlock(DesBlock(DesBlock(b, z, "decrypt"), y, "encrypt"), x, "decrypt")

LEMMA TripleBack ==
  ASSUME RoundFunction, NEW b \in Word(64),
         NEW x \in Word(64), NEW y \in Word(64), NEW z \in Word(64)
  PROVE  There(b, x, y, z) \in Word(64) /\ AndBack(There(b, x, y, z), x, y, z) = b
<1>1. /\ "encrypt" \in Modes /\ "decrypt" \in Modes
      /\ Other("encrypt") = "decrypt" /\ Other("decrypt") = "encrypt"
  BY DEF Modes, Other
<1>2. PICK c \in Word(64) : c = DesBlock(b, x, "encrypt") /\ DesBlock(c, x, "decrypt") = b
  BY <1>1, DesBack
<1>3. PICK d \in Word(64) : d = DesBlock(c, y, "decrypt") /\ DesBlock(d, y, "encrypt") = c
  BY <1>1, DesBack
<1>4. PICK e \in Word(64) : e = DesBlock(d, z, "encrypt") /\ DesBlock(e, z, "decrypt") = d
  BY <1>1, DesBack
<1>5. QED
  BY <1>2, <1>3, <1>4 DEF There, AndBack

(* What the receiver deciphers are the blocks that were enciphered, whatever the key, the
   text and the tables of the round function: the three passes of des.cpp over a block are
   undone by its three passes in the other direction, with a key of two parts as with one of
   three. *)
THEOREM DecipherUndoes ==
  ASSUME RoundFunction, NEW key \in Seq(Byte), CheckKey(key),
         NEW n \in Nat, NEW bytes \in Text(8 * n)
  PROVE  /\ FlattenSeq(Enciphered(key, bytes)) \in Text(8 * n)
         /\ Deciphered(key, FlattenSeq(Enciphered(key, bytes))) = [i \in 1 .. n |-> Block(bytes, i)]
<1>1. PICK x \in Word(64), y \in Word(64), z \in Word(64) :
        x = KeyPart(key, 1) /\ y = KeyPart(key, 2) /\ z = KeyPart(key, 3)
  BY KeyPartIs
<1>2. 8 * n \in Nat /\ (8 * n) \div 8 = n /\ 8 * 8 = 64 /\ 8 * 1 = 8 /\ 8 \in Nat
  OBVIOUS
<1>3. Len(bytes) = 8 * n
  BY <1>2, WordIs DEF Text
<1>4. ASSUME NEW w \in Text(8)
      PROVE  /\ Bytes(There(Bits(w), x, y, z)) \in Text(8)
             /\ Bytes(AndBack(Bits(Bytes(There(Bits(w), x, y, z))), x, y, z)) = w
  <2>1. PICK b \in Word(64) : b = Bits(w) /\ Bytes(b) = w
    BY <1>2, BitsAre, BytesBack
  <2>2. PICK c \in Word(64) : c = There(b, x, y, z) /\ AndBack(c, x, y, z) = b
    BY TripleBack
  <2>3. c \in Word(8 * 8)
    BY <1>2
  <2>4. Bytes(c) \in Text(8) /\ Bits(Bytes(c)) = c
    BY <1>2, <2>3, BytesAre, BitsBack
  <2>5. QED
    BY <2>1, <2>2, <2>4
<1>5. PICK s : s = [i \in 1 .. n |-> Bytes(There(Bits(Block(bytes, i)), x, y, z))]
  OBVIOUS
<1>6. s \in Blocks(n)
  BY <1>4, <1>5, BlockIs DEF Blocks
<1>7. Enciphered(key, bytes) = s
  <2>1. Enciphered(key, bytes) = Tuple(s)
    BY <1>1, <1>2, <1>3, <1>5 DEF Enciphered, There
  <2>2. Tuple(s) = s
    BY <1>6, WordIs DEF Blocks
  <2>3. QED
    BY <2>1, <2>2
<1>8. PICK r \in Text(8 * n) : r = FlattenSeq(s) /\ \A i \in 1 .. n : Block(r, i) = s[i]
  BY <1>6, BlocksBack
<1>9. Len(r) = 8 * n
  BY <1>2, WordIs DEF Text
<1>10. PICK t : t = [i \in 1 .. n |-> Bytes(AndBack(Bits(Block(r, i)), x, y, z))]
  OBVIOUS
<1>11. Deciphered(key, r) = Tuple(t)
  BY <1>1, <1>2, <1>9, <1>10 DEF Deciphered, AndBack
<1>12. t = [i \in 1 .. n |-> Block(bytes, i)]
  <2>1. ASSUME NEW i \in 1 .. n
        PROVE  Bytes(AndBack(Bits(Block(r, i)), x, y, z)) = Block(bytes, i)
    <3>1. PICK w \in Text(8) : w = Block(bytes, i)
      BY BlockIs
    <3>2. Block(r, i) = Bytes(There(Bits(w), x, y, z))
      BY <1>5, <1>8, <3>1
    <3>3. QED
      BY <1>4, <3>1, <3>2
  <2>2. QED
    BY <1>10, <2>1
<1>13. Tuple(t) = t
  <2>1. t \in [1 .. n -> Text(8)]
    BY <1>12, BlockIs
  <2>2. QED
    BY <2>1, WordIs
<1>14. QED
  BY <1>7, <1>8, <1>11, <1>12, <1>13

-----------------------------------------------------------------------------
(* base64: what base64Encode writes. *)
Symbol == 0 .. 63
Coding == 0 .. 66

(* Where a group and its line end are over. *)
Line(j) == 4 * j + 2 * (j \div 19)

LEMMA LineIs ==
  ASSUME NEW j \in Nat
  PROVE  /\ Line(j) \in Nat /\ Line(0) = 0
         /\ j # 0 => j - 1 \in Nat /\ Line(j - 1) \in Nat
                     /\ Line(j) = Line(j - 1) + IF j % 19 = 0 THEN 6 ELSE 4
<1>1. PICK q \in Nat : q = j \div 19
  OBVIOUS
<1>2. PICK r \in 0 .. 18 : r = j % 19 /\ j = 19 * q + r
  BY <1>1
<1>3. Line(j) = 4 * j + 2 * q
  BY <1>1 DEF Line
<1>4. Line(0) = 0
  BY DEF Line
<1>5. CASE j # 0 /\ r = 0
  <2>1. (j - 1) \div 19 = q - 1
    BY <1>2, <1>5
  <2>2. QED
    BY <1>2, <1>3, <1>4, <1>5, <2>1 DEF Line
<1>6. CASE j # 0 /\ r # 0
  <2>1. (j - 1) \div 19 = q
    BY <1>2, <1>6
  <2>2. QED
    BY <1>2, <1>3, <1>4, <1>6, <2>1 DEF Line
<1>7. CASE j = 0
  BY <1>4, <1>7
<1>8. QED
  BY <1>5, <1>6, <1>7

LEMMA SymbolsBack ==
  ASSUME NEW a \in Byte, NEW b \in Byte, NEW c \in Byte
  PROVE  /\ a \div 4 \in Symbol /\ (a % 4) * 16 + (b \div 16) \in Symbol
         /\ (b % 16) * 4 + (c \div 64) \in Symbol /\ c % 64 \in Symbol
         /\ (a \div 4) * 4 + (((a % 4) * 16 + (b \div 16)) \div 16) = a
         /\ (((a % 4) * 16 + (b \div 16)) % 16) * 16 + (((b % 16) * 4 + (c \div 64)) \div 4) = b
         /\ (((b % 16) * 4 + (c \div 64)) % 4) * 64 + (c % 64) = c
  BY DEF Byte, Symbol

(* Four symbols behind o carry the bytes a, b and c. *)
Carries(e, o, a, b, c) ==
  /\ e[o + 1] \in Symbol /\ e[o + 2] \in Symbol /\ e[o + 3] \in Symbol /\ e[o + 4] \in Symbol
  /\ Decoded(e[o + 1], e[o + 2], e[o + 3], e[o + 4]) = <<a, b, c>>

CarriesTwo(e, o, a, b) ==
  /\ e[o + 1] \in Symbol /\ e[o + 2] \in Symbol /\ e[o + 3] \in Symbol /\ e[o + 4] = Pad
  /\ e[o + 1] * 4 + (e[o + 2] \div 16) = a
  /\ (e[o + 2] % 16) * 16 + (e[o + 3] \div 4) = b

CarriesOne(e, o, a) ==
  /\ e[o + 1] \in Symbol /\ e[o + 2] \in Symbol /\ e[o + 3] = Pad /\ e[o + 4] = Pad
  /\ e[o + 1] * 4 + (e[o + 2] \div 16) = a

GroupOf(y, i) ==
  Symbols(y[3 * i - 2], y[3 * i - 1], y[3 * i]) \o IF i % 19 = 0 THEN <<CR, LF>> ELSE <<>>

RestOf(rest) ==
  CASE Len(rest) = 0 -> <<>>
    [] Len(rest) = 1 -> << rest[1] \div 4, (rest[1] % 4) * 16, Pad, Pad >>
    [] Len(rest) = 2 -> << rest[1] \div 4, (rest[1] % 4) * 16 + (rest[2] \div 16),
                           (rest[2] % 16) * 4, Pad >>

LEMMA GroupIs ==
  ASSUME NEW m \in Nat, NEW y \in Text(m), NEW i \in 1 .. m \div 3
  PROVE  /\ GroupOf(y, i) \in Seq(Coding)
         /\ Len(GroupOf(y, i)) = IF i % 19 = 0 THEN 6 ELSE 4
         /\ Carries(GroupOf(y, i), 0, y[3 * i - 2], y[3 * i - 1], y[3 * i])
         /\ i % 19 = 0 => GroupOf(y, i)[5] = CR /\ GroupOf(y, i)[6] = LF
<1>1. 3 * i - 2 \in 1 .. m /\ 3 * i - 1 \in 1 .. m /\ 3 * i \in 1 .. m
  OBVIOUS
<1>2. PICK a \in Byte, b \in Byte, c \in Byte : a = y[3 * i - 2] /\ b = y[3 * i - 1] /\ c = y[3 * i]
  BY <1>1 DEF Text
<1>3. PICK p, q, r, s : /\ p = a \div 4 /\ q = (a % 4) * 16 + (b \div 16)
                        /\ r = (b % 16) * 4 + (c \div 64) /\ s = c % 64
  OBVIOUS
<1>4. /\ p \in Symbol /\ q \in Symbol /\ r \in Symbol /\ s \in Symbol
      /\ p * 4 + (q \div 16) = a /\ (q % 16) * 16 + (r \div 4) = b /\ (r % 4) * 64 + s = c
  BY <1>3, SymbolsBack
<1>5. Symbols(a, b, c) = <<p, q, r, s>>
  BY <1>3 DEF Symbols
<1>6. PICK t : t = IF i % 19 = 0 THEN <<CR, LF>> ELSE <<>>
  OBVIOUS
<1>7. PICK u : u = <<p, q, r, s>>
  OBVIOUS
<1>8. u \in Seq(Coding) /\ Len(u) = 4 /\ u[1] = p /\ u[2] = q /\ u[3] = r /\ u[4] = s
  BY <1>4, <1>7 DEF Symbol, Coding
<1>9. t \in Seq(Coding) /\ Len(t) = IF i % 19 = 0 THEN 2 ELSE 0
  <2>1. <<CR, LF>> \in Seq(Coding) /\ Len(<<CR, LF>>) = 2
    BY DEF CR, LF, Coding
  <2>2. <<>> \in Seq(Coding) /\ Len(<<>>) = 0
    OBVIOUS
  <2>3. QED
    BY <1>6, <2>1, <2>2
<1>10. i % 19 = 0 => t[1] = CR /\ t[2] = LF
  BY <1>6
<1>11. PICK v : v = u \o t
  OBVIOUS
<1>12. /\ v \in Seq(Coding) /\ Len(v) = 4 + Len(t)
       /\ \A k \in 1 .. 4 + Len(t) : v[k] = IF k <= 4 THEN u[k] ELSE t[k - 4]
  <2>1. /\ v \in Seq(Coding) /\ Len(v) = Len(u) + Len(t)
        /\ \A k \in 1 .. Len(u) + Len(t) : v[k] = IF k <= Len(u) THEN u[k] ELSE t[k - Len(u)]
    BY <1>8, <1>9, <1>11, ConcatProperties
  <2>2. QED
    BY <1>8, <2>1
<1>13. GroupOf(y, i) = v
  BY <1>2, <1>5, <1>6, <1>7, <1>11 DEF GroupOf
<1>14. Len(t) \in Nat /\ v[1] = p /\ v[2] = q /\ v[3] = r /\ v[4] = s
  <2>1. PICK l \in Nat : l = Len(t)
    BY <1>9
  <2>2. 1 \in 1 .. 4 + l /\ 2 \in 1 .. 4 + l /\ 3 \in 1 .. 4 + l /\ 4 \in 1 .. 4 + l
    OBVIOUS
  <2>3. v[1] = u[1] /\ v[2] = u[2] /\ v[3] = u[3] /\ v[4] = u[4]
    BY <1>12, <2>1, <2>2
  <2>4. QED
    BY <1>8, <2>1, <2>3
<1>15. i % 19 = 0 => v[5] = CR /\ v[6] = LF
  BY <1>9, <1>10, <1>12
<1>16. Carries(v, 0, a, b, c)
  <2>1. Decoded(p, q, r, s) = <<a, b, c>>
    BY <1>4 DEF Decoded
  <2>2. v[0 + 1] = p /\ v[0 + 2] = q /\ v[0 + 3] = r /\ v[0 + 4] = s
    BY <1>14
  <2>3. QED
    BY <1>4, <2>1, <2>2 DEF Carries
<1>17. Len(v) = IF i % 19 = 0 THEN 6 ELSE 4
  BY <1>9, <1>12
<1>18. QED
  BY <1>2, <1>12, <1>13, <1>15, <1>16, <1>17

(* The text of y in base64: groups, some with a line end, and what is left of y. *)
Encodes(e, y, m) ==
  /\ e \in Seq(Coding)
  /\ Len(e) = Line(m \div 3) + IF m % 3 = 0 THEN 0 ELSE 4
  /\ \A i \in 1 .. m \div 3 :
       /\ Carries(e, Line(i - 1), y[3 * i - 2], y[3 * i - 1], y[3 * i])
       /\ i % 19 = 0 => e[Line(i - 1) + 5] = CR /\ e[Line(i - 1) + 6] = LF
  /\ m % 3 = 1 => CarriesOne(e, Line(m \div 3), y[m])
  /\ m % 3 = 2 => CarriesTwo(e, Line(m \div 3), y[m - 1], y[m])

LEMMA RestIs ==
  ASSUME NEW m \in Nat, NEW y \in Text(m), NEW t, t = RestOf(SubSeq(y, 3 * (m \div 3) + 1, m))
  PROVE  /\ t \in Seq(Coding) /\ Len(t) = IF m % 3 = 0 THEN 0 ELSE 4
         /\ m % 3 = 1 => CarriesOne(t, 0, y[m])
         /\ m % 3 = 2 => CarriesTwo(t, 0, y[m - 1], y[m])
<1>1. PICK p \in 1 .. m + 1 : p = 3 * (m \div 3) + 1 /\ m - p + 1 = m % 3
  OBVIOUS
<1>2. PICK r : r = SubSeq(y, p, m)
  OBVIOUS
<1>3. \A j \in p .. m : y[j] \in Byte
  BY DEF Text
<1>4. /\ r \in Seq(Byte) /\ Len(r) = IF p <= m THEN m - p + 1 ELSE 0
      /\ \A k \in 1 .. m - p + 1 : r[k] = y[p + k - 1]
  BY <1>1, <1>2, <1>3, SubSeqProperties
<1>5. Len(r) = m % 3 /\ m % 3 \in 0 .. 2
  BY <1>1, <1>4
<1>6. t = RestOf(r)
  BY <1>1, <1>2
<1>7. CASE m % 3 = 0
  <2>1. t = <<>>
    BY <1>5, <1>6, <1>7 DEF RestOf
  <2>2. t \in Seq(Coding) /\ Len(t) = 0
    <3>1. <<>> \in Seq(Coding) /\ Len(<<>>) = 0
      OBVIOUS
    <3>2. QED
      BY <2>1, <3>1
  <2>3. QED
    BY <1>7, <2>2
<1>8. CASE m % 3 = 1
  <2>1. p = m /\ 1 \in 1 .. m - p + 1 /\ p + 1 - 1 = m
    BY <1>1, <1>8
  <2>2. PICK a \in Byte : a = y[m] /\ a = r[1]
    BY <1>3, <1>4, <2>1
  <2>3. t = << a \div 4, (a % 4) * 16, Pad, Pad >>
    <3>1. Len(r) = 1
      BY <1>5, <1>8
    <3>2. RestOf(r) = << r[1] \div 4, (r[1] % 4) * 16, Pad, Pad >>
      BY <3>1 DEF RestOf
    <3>3. QED
      BY <1>6, <2>2, <3>2
  <2>4. a \div 4 \in Symbol /\ (a % 4) * 16 \in Symbol /\ (a \div 4) * 4 + (((a % 4) * 16) \div 16) = a
    BY DEF Byte, Symbol
  <2>5. t[0 + 1] = a \div 4 /\ t[0 + 2] = (a % 4) * 16 /\ t[0 + 3] = Pad /\ t[0 + 4] = Pad
    BY <2>3
  <2>6. CarriesOne(t, 0, a)
    BY <2>4, <2>5 DEF CarriesOne
  <2>7. t \in Seq(Coding) /\ Len(t) = 4
    <3>1. PICK u \in Symbol, v \in Symbol : u = a \div 4 /\ v = (a % 4) * 16
      BY <2>4
    <3>2. u \in Coding /\ v \in Coding /\ Pad \in Coding
      BY DEF Symbol, Coding, Pad
    <3>3. <<u, v, Pad, Pad>> \in Seq(Coding) /\ Len(<<u, v, Pad, Pad>>) = 4
      BY <3>2
    <3>4. QED
      BY <2>3, <3>1, <3>3
  <2>8. m % 3 # 0 /\ m % 3 # 2
    BY <1>8
  <2>9. QED
    BY <1>8, <2>2, <2>6, <2>7, <2>8
<1>9. CASE m % 3 = 2
  <2>1. p = m - 1 /\ 1 \in 1 .. m - p + 1 /\ 2 \in 1 .. m - p + 1 /\ p + 1 - 1 = m - 1 /\ p + 2 - 1 = m
    BY <1>1, <1>9
  <2>0. r[1] = y[m - 1] /\ r[2] = y[m] /\ m - 1 \in p .. m /\ m \in p .. m
    BY <1>4, <2>1
  <2>2. PICK a \in Byte : a = y[m - 1] /\ a = r[1]
    BY <1>3, <2>0
  <2>3. PICK b \in Byte : b = y[m] /\ b = r[2]
    BY <1>3, <2>0
  <2>4. PICK q : q = (a % 4) * 16 + (b \div 16)
    OBVIOUS
  <2>5. t = << a \div 4, q, (b % 16) * 4, Pad >>
    <3>1. Len(r) = 2
      BY <1>5, <1>9
    <3>2. RestOf(r) = << r[1] \div 4, (r[1] % 4) * 16 + (r[2] \div 16), (r[2] % 16) * 4, Pad >>
      BY <3>1 DEF RestOf
    <3>3. QED
      BY <1>6, <2>2, <2>3, <2>4, <3>2
  <2>6. /\ a \div 4 \in Symbol /\ q \in Symbol /\ (b % 16) * 4 \in Symbol
        /\ (a \div 4) * 4 + (q \div 16) = a /\ (q % 16) * 16 + (((b % 16) * 4) \div 4) = b
    BY <2>4 DEF Byte, Symbol
  <2>7. t[0 + 1] = a \div 4 /\ t[0 + 2] = q /\ t[0 + 3] = (b % 16) * 4 /\ t[0 + 4] = Pad
    BY <2>5
  <2>8. CarriesTwo(t, 0, a, b)
    BY <2>6, <2>7 DEF CarriesTwo
  <2>9. t \in Seq(Coding) /\ Len(t) = 4
    <3>1. PICK u \in Symbol, v \in Symbol : u = a \div 4 /\ v = (b % 16) * 4
      BY <2>6
    <3>2. u \in Coding /\ q \in Coding /\ v \in Coding /\ Pad \in Coding
      <4>1. q \in Symbol
        BY <2>6
      <4>2. Symbol \subseteq Coding /\ Pad \in Coding
        BY DEF Symbol, Coding, Pad
      <4>3. QED
        BY <4>1, <4>2
    <3>3. <<u, q, v, Pad>> \in Seq(Coding) /\ Len(<<u, q, v, Pad>>) = 4
      BY <3>2
    <3>4. QED
      BY <2>5, <3>1, <3>3
  <2>10. m % 3 # 0 /\ m % 3 # 1
    BY <1>9
  <2>11. QED
    BY <1>9, <2>2, <2>3, <2>8, <2>9, <2>10
<1>10. QED
  BY <1>5, <1>7, <1>8, <1>9

LEMMA EncodeIs ==
  ASSUME NEW m \in Nat, NEW y \in Text(m)
  PROVE  Encodes(Base64Encode(y), y, m)
<1>1. Len(y) = m
  BY WordIs DEF Text
<1>2. PICK g \in Nat : g = m \div 3
  OBVIOUS
<1>3. PICK s : s = [i \in 1 .. g |-> GroupOf(y, i)]
  OBVIOUS
<1>4. PICK off : off = [i \in 0 .. g |-> Line(i)]
  OBVIOUS
<1>5. ASSUME NEW i \in 1 .. g
      PROVE  /\ s[i] \in Seq(Coding) /\ Len(s[i]) = IF i % 19 = 0 THEN 6 ELSE 4
             /\ Carries(s[i], 0, y[3 * i - 2], y[3 * i - 1], y[3 * i])
             /\ i % 19 = 0 => s[i][5] = CR /\ s[i][6] = LF
  BY <1>2, <1>3, GroupIs
<1>6. s \in [1 .. g -> Seq(Coding)]
  <2>1. \A i \in 1 .. g : GroupOf(y, i) \in Seq(Coding)
    BY <1>3, <1>5
  <2>2. QED
    BY <1>3, <2>1
<1>7. off \in [0 .. g -> Nat]
  BY <1>4, LineIs
<1>8. Ends(s, off, g)
  <2>1. off[0] = 0
    BY <1>4, LineIs
  <2>2. ASSUME NEW j \in 1 .. g PROVE off[j] = off[j - 1] + Len(s[j])
    <3>1. off[j] = Line(j) /\ off[j - 1] = Line(j - 1) /\ j \in Nat /\ j # 0
      BY <1>4
    <3>2. Line(j) = Line(j - 1) + IF j % 19 = 0 THEN 6 ELSE 4
      BY <3>1, LineIs
    <3>3. QED
      BY <1>5, <3>1, <3>2
  <2>3. QED
    BY <2>1, <2>2 DEF Ends
<1>9. PICK f \in Seq(Coding) : f = FlattenSeq(s) /\ Holding(f, s, off, g)
  BY <1>6, <1>7, <1>8, FlattenIs
<1>10. PICK l \in Nat : l = Line(g) /\ Len(f) = l
  BY <1>4, <1>9, LineIs DEF Holding
<1>11. PICK t : t = RestOf(SubSeq(y, 3 * (m \div 3) + 1, m))
  OBVIOUS
<1>12. /\ t \in Seq(Coding) /\ Len(t) = IF m % 3 = 0 THEN 0 ELSE 4
       /\ m % 3 = 1 => CarriesOne(t, 0, y[m])
       /\ m % 3 = 2 => CarriesTwo(t, 0, y[m - 1], y[m])
  BY <1>11, RestIs
<1>13. PICK e : e = f \o t
  OBVIOUS
<1>14. Base64Encode(y) = e
  BY <1>1, <1>2, <1>3, <1>9, <1>11, <1>13 DEF Base64Encode, GroupOf, RestOf
<1>15. /\ e \in Seq(Coding) /\ Len(e) = l + Len(t)
       /\ \A k \in 1 .. l + Len(t) : e[k] = IF k <= l THEN f[k] ELSE t[k - l]
  <2>1. /\ e \in Seq(Coding) /\ Len(e) = Len(f) + Len(t)
        /\ \A k \in 1 .. Len(f) + Len(t) : e[k] = IF k <= Len(f) THEN f[k] ELSE t[k - Len(f)]
    BY <1>9, <1>12, <1>13, ConcatProperties
  <2>2. QED
    BY <1>10, <2>1
<1>16. Len(e) = Line(m \div 3) + IF m % 3 = 0 THEN 0 ELSE 4
  BY <1>2, <1>10, <1>12, <1>15
<1>17. ASSUME NEW i \in 1 .. m \div 3
       PROVE  /\ Carries(e, Line(i - 1), y[3 * i - 2], y[3 * i - 1], y[3 * i])
              /\ i % 19 = 0 => e[Line(i - 1) + 5] = CR /\ e[Line(i - 1) + 6] = LF
  <2>1. i \in 1 .. g /\ i \in Nat /\ i # 0
    BY <1>2
  <2>2. PICK o \in Nat : o = Line(i - 1)
    BY <2>1, LineIs
  <2>3. off[i - 1] = o
    BY <1>4, <2>1, <2>2
  <2>4. ASSUME NEW k \in Nat \ {0}, k <= Len(s[i]) PROVE e[o + k] = s[i][k]
    <3>1. o + k \in 1 .. l /\ f[o + k] = s[i][k]
      BY <1>4, <1>9, <1>10, <2>1, <2>3, <2>4 DEF Holding
    <3>2. o + k \in 1 .. l + Len(t) /\ o + k <= l
      BY <1>12, <3>1
    <3>3. QED
      BY <1>15, <3>1, <3>2
  <2>5. PICK x \in Seq(Coding) : x = s[i] /\ Len(x) = IF i % 19 = 0 THEN 6 ELSE 4
    BY <1>5, <2>1
  <2>6. e[o + 1] = x[0 + 1] /\ e[o + 2] = x[0 + 2] /\ e[o + 3] = x[0 + 3] /\ e[o + 4] = x[0 + 4]
    BY <2>4, <2>5
  <2>7. Carries(x, 0, y[3 * i - 2], y[3 * i - 1], y[3 * i])
    BY <1>5, <2>1, <2>5
  <2>8. Carries(e, o, y[3 * i - 2], y[3 * i - 1], y[3 * i])
    BY <2>6, <2>7 DEF Carries
  <2>9. ASSUME i % 19 = 0 PROVE e[o + 5] = CR /\ e[o + 6] = LF
    <3>1. s[i][5] = CR /\ s[i][6] = LF /\ Len(s[i]) = 6
      BY <1>5, <2>1, <2>9
    <3>2. 5 \in Nat \ {0} /\ 6 \in Nat \ {0} /\ 5 <= Len(s[i]) /\ 6 <= Len(s[i])
      BY <3>1
    <3>3. e[o + 5] = s[i][5] /\ e[o + 6] = s[i][6]
      BY <2>4, <3>2
    <3>4. QED
      BY <3>1, <3>3
  <2>10. QED
    BY <2>2, <2>8, <2>9
<1>18. ASSUME m % 3 # 0
       PROVE  /\ e[l + 1] = t[0 + 1] /\ e[l + 2] = t[0 + 2] /\ e[l + 3] = t[0 + 3] /\ e[l + 4] = t[0 + 4]
  <2>1. Len(t) = 4
    BY <1>12, <1>18
  <2>2. \A k \in 1 .. 4 : l + k \in 1 .. l + 4 /\ ~(l + k <= l) /\ (l + k) - l = k
    OBVIOUS
  <2>3. \A k \in 1 .. 4 : e[l + k] = t[k]
    BY <1>15, <2>1, <2>2
  <2>4. QED
    BY <2>3
<1>19. m % 3 = 1 => CarriesOne(e, l, y[m])
  BY <1>12, <1>18 DEF CarriesOne
<1>20. m % 3 = 2 => CarriesTwo(e, l, y[m - 1], y[m])
  BY <1>12, <1>18 DEF CarriesTwo
<1>21. Encodes(e, y, m)
  BY <1>2, <1>10, <1>15, <1>16, <1>17, <1>19, <1>20 DEF Encodes
<1>22. QED
  BY <1>14, <1>21

-----------------------------------------------------------------------------
(* base64: what a turn of base64Decode takes. *)
Places == [p : Nat \ {0}, i : Nat, out : Seq(Byte)]

Here(o, d) == [p |-> o + 1, i |-> o, out |-> d]

LEMMA ValueIs ==
  ASSUME NEW e \in Seq(Coding), NEW p \in Nat \ {0}
  PROVE  Value(e, p) \in Symbol
<1>1. CASE p <= Len(e) /\ e[p] < 64
  <2>1. PICK c \in Coding : c = e[p]
    BY <1>1
  <2>2. c < 64
    BY <1>1, <2>1
  <2>3. c \in Symbol
    BY <2>2 DEF Coding, Symbol
  <2>4. QED
    BY <1>1, <2>1, <2>3 DEF Value
<1>2. CASE ~(p <= Len(e) /\ e[p] < 64)
  BY <1>2 DEF Value, Symbol
<1>3. QED
  BY <1>1, <1>2

LEMMA DecodedIs ==
  ASSUME NEW a \in Symbol, NEW b \in Symbol, NEW c \in Symbol, NEW d \in Symbol
  PROVE  /\ Decoded(a, b, c, d) \in Seq(Byte) /\ Len(Decoded(a, b, c, d)) = 3
         /\ Decoded(a, b, c, d)[1] = a * 4 + (b \div 16)
         /\ Decoded(a, b, c, d)[2] = (b % 16) * 16 + (c \div 4)
         /\ Decoded(a, b, c, d)[3] = (c % 4) * 64 + d
<1>1. PICK x, y, z : x = a * 4 + (b \div 16) /\ y = (b % 16) * 16 + (c \div 4) /\ z = (c % 4) * 64 + d
  OBVIOUS
<1>2. x \in Byte
  BY <1>1 DEF Symbol, Byte
<1>3. y \in Byte
  BY <1>1 DEF Symbol, Byte
<1>4. z \in Byte
  BY <1>1 DEF Symbol, Byte
<1>5. /\ <<x, y, z>> \in Seq(Byte) /\ Len(<<x, y, z>>) = 3
      /\ <<x, y, z>>[1] = x /\ <<x, y, z>>[2] = y /\ <<x, y, z>>[3] = z
  BY <1>2, <1>3, <1>4
<1>6. Decoded(a, b, c, d) = <<x, y, z>>
  BY <1>1 DEF Decoded
<1>7. QED
  BY <1>1, <1>5, <1>6

LEMMA FirstOf ==
  ASSUME NEW S, NEW s \in Seq(S), NEW n \in 0 .. Len(s)
  PROVE  SubSeq(s, 1, n) \in Seq(S) /\ Len(SubSeq(s, 1, n)) = n
         /\ \A i \in 1 .. n : SubSeq(s, 1, n)[i] = s[i]
<1>1. \A j \in 1 .. n : s[j] \in S
  OBVIOUS
<1>2. PICK x : x = SubSeq(s, 1, n)
  OBVIOUS
<1>3. /\ x \in Seq(S) /\ Len(x) = IF 1 <= n THEN n - 1 + 1 ELSE 0
      /\ \A i \in 1 .. n - 1 + 1 : x[i] = s[1 + i - 1]
  BY <1>1, <1>2, SubSeqProperties
<1>4. n - 1 + 1 = n /\ \A i \in 1 .. n : 1 + i - 1 = i
  OBVIOUS
<1>5. QED
  BY <1>2, <1>3, <1>4

(* How many bytes a group has. *)
Taken(e, p) == IF Char(e, p + 2) = Pad THEN 1 ELSE IF Char(e, p + 3) = Pad THEN 2 ELSE 3

GroupAt(e, p) == Decoded(Value(e, p), Value(e, p + 1), Value(e, p + 2), Value(e, p + 3))

LEMMA TurnIs ==
  ASSUME NEW e \in Seq(Coding), NEW x \in Places
  PROVE  DecodeTurn(e, x) \in Places
<1>1. PICK p \in Nat \ {0} : p = x.p
  BY DEF Places
<1>2. PICK i \in Nat : i = x.i
  BY DEF Places
<1>3. PICK d \in Seq(Byte) : d = x.out
  BY DEF Places
<1>4. x = [p |-> p, i |-> i, out |-> d]
  BY <1>1, <1>2, <1>3 DEF Places
<1>5. CASE i >= Len(e)
  BY <1>2, <1>5 DEF DecodeTurn
<1>6. CASE ~(i >= Len(e)) /\ Char(e, p) \in {CR, LF}
  <2>1. DecodeTurn(e, x) = [x EXCEPT !.p = p + 1, !.i = @ + 1]
    BY <1>1, <1>2, <1>6 DEF DecodeTurn
  <2>2. DecodeTurn(e, x) = [p |-> p + 1, i |-> i + 1, out |-> d]
    BY <1>4, <2>1
  <2>3. QED
    BY <2>2 DEF Places
<1>7. CASE ~(i >= Len(e)) /\ Char(e, p) \notin {CR, LF}
  <2>1. PICK n \in 1 .. 3 : n = Taken(e, p)
    BY DEF Taken
  <2>2. p + 1 \in Nat \ {0} /\ p + 2 \in Nat \ {0} /\ p + 3 \in Nat \ {0} /\ p + n + 1 \in Nat \ {0} /\ i + 4 \in Nat
    OBVIOUS
  <2>3. PICK g \in Seq(Byte) : g = GroupAt(e, p) /\ Len(g) = 3
    <3>1. PICK a \in Symbol, b \in Symbol : a = Value(e, p) /\ b = Value(e, p + 1)
      BY <2>2, ValueIs
    <3>2. PICK c \in Symbol, f \in Symbol : c = Value(e, p + 2) /\ f = Value(e, p + 3)
      BY <2>2, ValueIs
    <3>3. GroupAt(e, p) = Decoded(a, b, c, f)
      BY <3>1, <3>2 DEF GroupAt
    <3>4. QED
      BY <3>3, DecodedIs
  <2>4. PICK h \in Seq(Byte) : h = d \o SubSeq(g, 1, n)
    <3>1. n \in 0 .. Len(g)
      BY <2>3
    <3>2. SubSeq(g, 1, n) \in Seq(Byte)
      BY <3>1, FirstOf
    <3>3. QED
      BY <3>2, ConcatProperties
  <2>5. DecodeTurn(e, x) = [p |-> p + n + 1, i |-> i + 4, out |-> h]
    BY <1>1, <1>2, <1>3, <1>7, <2>1, <2>3, <2>4 DEF DecodeTurn, Taken, GroupAt
  <2>6. QED
    BY <2>2, <2>5 DEF Places
<1>8. QED
  BY <1>5, <1>6, <1>7

LEMMA HereIs ==
  ASSUME NEW o \in Nat, NEW d \in Seq(Byte)
  PROVE  /\ Here(o, d) \in Places
         /\ Here(o, d).p = o + 1 /\ Here(o, d).i = o /\ Here(o, d).out = d
  BY DEF Here, Places

(* A line end is passed over. *)
LEMMA TurnLine ==
  ASSUME NEW e \in Seq(Coding), NEW o \in Nat, NEW d \in Seq(Byte),
         o + 1 <= Len(e), e[o + 1] \in {CR, LF}
  PROVE  DecodeTurn(e, Here(o, d)) = Here(o + 1, d)
<1>1. PICK x : x = Here(o, d) /\ x.p = o + 1 /\ x.i = o
  BY HereIs
<1>2. ~(o >= Len(e))
  OBVIOUS
<1>3. Char(e, o + 1) \in {CR, LF}
  BY DEF Char
<1>4. DecodeTurn(e, x) = [x EXCEPT !.p = o + 1 + 1, !.i = @ + 1]
  BY <1>1, <1>2, <1>3 DEF DecodeTurn
<1>5. DecodeTurn(e, x) = [p |-> o + 1 + 1, i |-> o + 1, out |-> d]
  BY <1>1, <1>4 DEF Here
<1>6. QED
  BY <1>1, <1>5 DEF Here

(* Four symbols are taken, the bytes they carry kept. *)
LEMMA TurnGroup ==
  ASSUME NEW e \in Seq(Coding), NEW o \in Nat, NEW d \in Seq(Byte), o + 4 <= Len(e),
         e[o + 1] \in Symbol, e[o + 2] \in Symbol,
         NEW n \in 1 .. 3, n = Taken(e, o + 1)
  PROVE  DecodeTurn(e, Here(o, d)) =
           [p |-> o + n + 2, i |-> o + 4, out |-> d \o SubSeq(GroupAt(e, o + 1), 1, n)]
<1>0. PICK x : x = Here(o, d)
  OBVIOUS
<1>1. x = Here(o, d) /\ x.p = o + 1 /\ x.i = o /\ x.out = d
  BY <1>0, HereIs
<1>2. ~(o >= Len(e)) /\ o + 1 <= Len(e)
  OBVIOUS
<1>3. Char(e, o + 1) \notin {CR, LF}
  <2>1. PICK c \in Symbol : c = e[o + 1]
    OBVIOUS
  <2>2. Char(e, o + 1) = c
    BY <1>2, <2>1 DEF Char
  <2>3. c # 65 /\ c # 66
    BY SMTT(30) DEF Symbol
  <2>4. QED
    BY <2>2, <2>3 DEF CR, LF
<1>4. DecodeTurn(e, x) = [p |-> o + 1 + n + 1, i |-> o + 4, out |-> d \o SubSeq(GroupAt(e, o + 1), 1, n)]
  BY <1>1, <1>2, <1>3 DEF DecodeTurn, Taken, GroupAt
<1>5. o + 1 + n + 1 = o + n + 2
  OBVIOUS
<1>6. QED
  BY <1>1, <1>4, <1>5

LEMMA ValueOfSymbol ==
  ASSUME NEW e \in Seq(Coding), NEW p \in 1 .. Len(e), e[p] \in Symbol
  PROVE  Value(e, p) = e[p] /\ Char(e, p) = e[p] /\ Char(e, p) # Pad
<1>0. PICK c \in Symbol : c = e[p]
  OBVIOUS
<1>1. c < 64 /\ c # 64
  BY DEF Symbol
<1>2. QED
  BY <1>0, <1>1 DEF Value, Char, Pad

LEMMA TurnThree ==
  ASSUME NEW e \in Seq(Coding), NEW o \in Nat, NEW d \in Seq(Byte), o + 4 <= Len(e),
         NEW a \in Byte, NEW b \in Byte, NEW c \in Byte, Carries(e, o, a, b, c)
  PROVE  DecodeTurn(e, Here(o, d)) = Here(o + 4, d \o <<a, b, c>>)
<1>1. /\ o + 1 \in 1 .. Len(e) /\ o + 2 \in 1 .. Len(e) /\ o + 3 \in 1 .. Len(e) /\ o + 4 \in 1 .. Len(e)
      /\ o + 1 + 1 = o + 2 /\ o + 1 + 2 = o + 3 /\ o + 1 + 3 = o + 4
  OBVIOUS
<1>2. e[o + 1] \in Symbol /\ e[o + 2] \in Symbol /\ e[o + 3] \in Symbol /\ e[o + 4] \in Symbol
  BY DEF Carries
<1>3. Taken(e, o + 1) = 3
  BY <1>1, <1>2, ValueOfSymbol DEF Taken
<1>4. GroupAt(e, o + 1) = <<a, b, c>>
  <2>1. GroupAt(e, o + 1) = Decoded(e[o + 1], e[o + 2], e[o + 3], e[o + 4])
    BY <1>1, <1>2, ValueOfSymbol DEF GroupAt
  <2>2. QED
    BY <2>1 DEF Carries
<1>5. SubSeq(<<a, b, c>>, 1, 3) = <<a, b, c>>
  <2>1. <<a, b, c>> \in Seq(Byte) /\ Len(<<a, b, c>>) = 3
    OBVIOUS
  <2>2. QED
    BY <2>1, SubSeqFull
<1>6. DecodeTurn(e, Here(o, d)) = [p |-> o + 3 + 2, i |-> o + 4, out |-> d \o SubSeq(<<a, b, c>>, 1, 3)]
  <2>1. PICK n \in 1 .. 3 : n = 3 /\ n = Taken(e, o + 1)
    BY <1>3
  <2>2. DecodeTurn(e, Here(o, d)) = [p |-> o + n + 2, i |-> o + 4, out |-> d \o SubSeq(GroupAt(e, o + 1), 1, n)]
    BY <1>2, <2>1, TurnGroup
  <2>3. QED
    BY <1>4, <2>1, <2>2
<1>7. o + 3 + 2 = o + 4 + 1
  OBVIOUS
<1>8. QED
  BY <1>5, <1>6, <1>7 DEF Here

(* The last group, of two bytes or of one, ends the text. *)
LEMMA TurnTwo ==
  ASSUME NEW e \in Seq(Coding), NEW o \in Nat, NEW d \in Seq(Byte), o + 4 <= Len(e),
         NEW a \in Byte, NEW b \in Byte, CarriesTwo(e, o, a, b)
  PROVE  DecodeTurn(e, Here(o, d)) = [p |-> o + 4, i |-> o + 4, out |-> d \o <<a, b>>]
<1>1. /\ o + 1 \in 1 .. Len(e) /\ o + 2 \in 1 .. Len(e) /\ o + 3 \in 1 .. Len(e) /\ o + 4 \in 1 .. Len(e)
      /\ o + 1 + 1 = o + 2 /\ o + 1 + 2 = o + 3 /\ o + 1 + 3 = o + 4 /\ o + 4 \in Nat \ {0}
  OBVIOUS
<1>2. e[o + 1] \in Symbol /\ e[o + 2] \in Symbol /\ e[o + 3] \in Symbol /\ e[o + 4] = Pad
  BY DEF CarriesTwo
<1>3. Taken(e, o + 1) = 2
  <2>1. Char(e, o + 3) # Pad
    BY <1>1, <1>2, ValueOfSymbol
  <2>2. Char(e, o + 4) = Pad
    BY <1>1, <1>2 DEF Char
  <2>3. QED
    BY <1>1, <2>1, <2>2 DEF Taken
<1>4. PICK v \in Symbol : v = Value(e, o + 4)
  BY <1>1, ValueIs
<1>5. GroupAt(e, o + 1) = Decoded(e[o + 1], e[o + 2], e[o + 3], v)
  BY <1>1, <1>2, <1>4, ValueOfSymbol DEF GroupAt
<1>6. PICK g \in Seq(Byte) : g = GroupAt(e, o + 1) /\ Len(g) = 3 /\ g[1] = a /\ g[2] = b
  <2>1. PICK x \in Symbol, y \in Symbol, z \in Symbol : x = e[o + 1] /\ y = e[o + 2] /\ z = e[o + 3]
    BY <1>2
  <2>2. GroupAt(e, o + 1) = Decoded(x, y, z, v)
    BY <1>5, <2>1
  <2>3. x * 4 + (y \div 16) = a /\ (y % 16) * 16 + (z \div 4) = b
    BY <2>1 DEF CarriesTwo
  <2>4. PICK r \in Byte : r = (z % 4) * 64 + v
    BY DEF Symbol, Byte
  <2>5. GroupAt(e, o + 1) = <<a, b, r>>
    BY <2>2, <2>3, <2>4 DEF Decoded
  <2>6. <<a, b, r>> \in Seq(Byte) /\ Len(<<a, b, r>>) = 3 /\ <<a, b, r>>[1] = a /\ <<a, b, r>>[2] = b
    OBVIOUS
  <2>7. QED
    BY <2>5, <2>6
<1>7. SubSeq(g, 1, 2) = <<a, b>>
  <2>1. 2 \in 0 .. Len(g) /\ 1 \in 1 .. 2 /\ 2 \in 1 .. 2
    BY <1>6
  <2>0. PICK h : h = SubSeq(g, 1, 2)
    OBVIOUS
  <2>2. h \in Seq(Byte) /\ Len(h) = 2 /\ \A i \in 1 .. 2 : h[i] = g[i]
    BY <2>0, <2>1, FirstOf
  <2>3. h[1] = a /\ h[2] = b
    BY <1>6, <2>2
  <2>4. <<a, b>> \in Seq(Byte) /\ Len(<<a, b>>) = 2 /\ \A i \in 1 .. 2 : <<a, b>>[i] = h[i]
    BY <2>3
  <2>5. h = <<a, b>>
    BY <2>2, <2>4, SeqEqual
  <2>6. QED
    BY <2>0, <2>5
<1>8. DecodeTurn(e, Here(o, d)) = [p |-> o + 2 + 2, i |-> o + 4, out |-> d \o SubSeq(g, 1, 2)]
  <2>1. PICK n \in 1 .. 3 : n = 2 /\ n = Taken(e, o + 1)
    BY <1>3
  <2>2. DecodeTurn(e, Here(o, d)) = [p |-> o + n + 2, i |-> o + 4, out |-> d \o SubSeq(GroupAt(e, o + 1), 1, n)]
    BY <1>2, <2>1, TurnGroup
  <2>3. QED
    BY <1>6, <2>1, <2>2
<1>9. o + 2 + 2 = o + 4
  OBVIOUS
<1>10. QED
  BY <1>7, <1>8, <1>9

LEMMA TurnOne ==
  ASSUME NEW e \in Seq(Coding), NEW o \in Nat, NEW d \in Seq(Byte), o + 4 <= Len(e),
         NEW a \in Byte, CarriesOne(e, o, a)
  PROVE  DecodeTurn(e, Here(o, d)) = [p |-> o + 3, i |-> o + 4, out |-> d \o <<a>>]
<1>1. /\ o + 1 \in 1 .. Len(e) /\ o + 2 \in 1 .. Len(e) /\ o + 3 \in 1 .. Len(e)
      /\ o + 1 + 1 = o + 2 /\ o + 1 + 2 = o + 3 /\ o + 1 + 3 = o + 4
      /\ o + 3 \in Nat \ {0} /\ o + 4 \in Nat \ {0}
  OBVIOUS
<1>2. e[o + 1] \in Symbol /\ e[o + 2] \in Symbol /\ e[o + 3] = Pad
  BY DEF CarriesOne
<1>3. Taken(e, o + 1) = 1
  <2>1. Char(e, o + 3) = Pad
    BY <1>1, <1>2 DEF Char
  <2>2. QED
    BY <1>1, <2>1 DEF Taken
<1>4. PICK v \in Symbol : v = Value(e, o + 4)
  BY <1>1, ValueIs
<1>5. PICK w \in Symbol : w = Value(e, o + 3)
  BY <1>1, ValueIs
<1>6. GroupAt(e, o + 1) = Decoded(e[o + 1], e[o + 2], w, v)
  BY <1>1, <1>2, <1>4, <1>5, ValueOfSymbol DEF GroupAt
<1>7. PICK g \in Seq(Byte) : g = GroupAt(e, o + 1) /\ Len(g) = 3 /\ g[1] = a
  <2>1. PICK x \in Symbol, y \in Symbol : x = e[o + 1] /\ y = e[o + 2]
    BY <1>2
  <2>2. GroupAt(e, o + 1) = Decoded(x, y, w, v)
    BY <1>6, <2>1
  <2>3. x * 4 + (y \div 16) = a
    BY <2>1 DEF CarriesOne
  <2>4. PICK r \in Byte : r = (w % 4) * 64 + v
    BY DEF Symbol, Byte
  <2>5. PICK q \in Byte : q = (y % 16) * 16 + (w \div 4)
    BY DEF Symbol, Byte
  <2>6. GroupAt(e, o + 1) = <<a, q, r>>
    BY <2>2, <2>3, <2>4, <2>5 DEF Decoded
  <2>7. <<a, q, r>> \in Seq(Byte) /\ Len(<<a, q, r>>) = 3 /\ <<a, q, r>>[1] = a
    OBVIOUS
  <2>8. QED
    BY <2>6, <2>7
<1>8. SubSeq(g, 1, 1) = <<a>>
  <2>1. 1 \in 0 .. Len(g) /\ 1 \in 1 .. 1
    BY <1>7
  <2>0. PICK h : h = SubSeq(g, 1, 1)
    OBVIOUS
  <2>2. h \in Seq(Byte) /\ Len(h) = 1 /\ \A i \in 1 .. 1 : h[i] = g[i]
    BY <2>0, <2>1, FirstOf
  <2>3. h[1] = a
    BY <1>7, <2>2
  <2>4. <<a>> \in Seq(Byte) /\ Len(<<a>>) = 1 /\ \A i \in 1 .. 1 : <<a>>[i] = h[i]
    BY <2>3
  <2>5. h = <<a>>
    BY <2>2, <2>4, SeqEqual
  <2>6. QED
    BY <2>0, <2>5
<1>9. DecodeTurn(e, Here(o, d)) = [p |-> o + 1 + 2, i |-> o + 4, out |-> d \o SubSeq(g, 1, 1)]
  <2>1. PICK n \in 1 .. 3 : n = 1 /\ n = Taken(e, o + 1)
    BY <1>3
  <2>2. DecodeTurn(e, Here(o, d)) = [p |-> o + n + 2, i |-> o + 4, out |-> d \o SubSeq(GroupAt(e, o + 1), 1, n)]
    BY <1>2, <2>1, TurnGroup
  <2>3. QED
    BY <1>7, <2>1, <2>2
<1>10. o + 1 + 2 = o + 3
  OBVIOUS
<1>11. QED
  BY <1>8, <1>9, <1>10

(* What comes next in a sequence, behind its first n elements. *)
LEMMA PrefixGrows ==
  ASSUME NEW S, NEW s \in Seq(S), NEW r \in Seq(S), NEW n \in Nat, n + Len(r) <= Len(s),
         \A i \in 1 .. Len(r) : s[n + i] = r[i]
  PROVE  SubSeq(s, 1, n) \o r = SubSeq(s, 1, n + Len(r))
<1>1. PICK l \in Nat : l = Len(r)
  OBVIOUS
<1>2. n \in 0 .. Len(s) /\ n + l \in 0 .. Len(s)
  BY <1>1
<1>3. PICK x : x = SubSeq(s, 1, n)
  OBVIOUS
<1>4. PICK y : y = SubSeq(s, 1, n + l)
  OBVIOUS
<1>5. x \in Seq(S) /\ Len(x) = n /\ \A i \in 1 .. n : x[i] = s[i]
  BY <1>2, <1>3, FirstOf
<1>6. y \in Seq(S) /\ Len(y) = n + l /\ \A i \in 1 .. n + l : y[i] = s[i]
  BY <1>2, <1>4, FirstOf
<1>7. PICK z : z = x \o r
  OBVIOUS
<1>8. /\ z \in Seq(S) /\ Len(z) = n + l
      /\ \A i \in 1 .. n + l : z[i] = IF i <= n THEN x[i] ELSE r[i - n]
  <2>1. /\ z \in Seq(S) /\ Len(z) = Len(x) + Len(r)
        /\ \A i \in 1 .. Len(x) + Len(r) : z[i] = IF i <= Len(x) THEN x[i] ELSE r[i - Len(x)]
    BY <1>5, <1>7, ConcatProperties
  <2>2. QED
    BY <1>1, <1>5, <2>1
<1>9. ASSUME NEW i \in 1 .. n + l PROVE z[i] = y[i]
  <2>1. CASE i <= n
    BY <1>5, <1>6, <1>8, <2>1, SMTT(30)
  <2>2. CASE ~(i <= n)
    <3>1. PICK k \in 1 .. l : k = i - n /\ n + k = i
      BY <2>2
    <3>2. s[n + k] = r[k]
      BY <1>1
    <3>3. QED
      BY <1>6, <1>8, <2>2, <3>1, <3>2
  <2>3. QED
    BY <2>1, <2>2
<1>10. z = y
  BY <1>6, <1>8, <1>9, SeqEqual
<1>11. QED
  BY <1>1, <1>3, <1>4, <1>7, <1>10

(* base64: the turns of base64Decode. *)
IsTurns(t, e) ==
  /\ t \in [0 .. Len(e) -> Places]
  /\ t[0] = Here(0, <<>>)
  /\ \A k \in 1 .. Len(e) : t[k] = DecodeTurn(e, t[k - 1])

TurnsFrom(t, e) ==
  t = [k \in 0 .. Len(e) |->
         IF k = 0 THEN [p |-> 1, i |-> 0, out |-> <<>>] ELSE DecodeTurn(e, t[k - 1])]

LEMMA TurnsAre ==
  ASSUME NEW e \in Seq(Coding)
  PROVE  \E t : IsTurns(t, e) /\ Base64Decode(e) = t[Len(e)].out
<1>1. PICK l \in Nat : l = Len(e)
  OBVIOUS
<1>2. PICK a \in Places : a = [p |-> 1, i |-> 0, out |-> <<>>] /\ a = Here(0, <<>>)
  <2>1. <<>> \in Seq(Byte) /\ 0 \in Nat /\ 0 + 1 = 1
    OBVIOUS
  <2>2. Here(0, <<>>) \in Places
    BY <2>1, HereIs
  <2>3. QED
    BY <2>1, <2>2 DEF Here
<1>3. PICK G : G = [k \in 1 .. l |-> [x \in Places |-> DecodeTurn(e, x)]]
  OBVIOUS
<1>4. G \in [1 .. l -> [Places -> Places]]
  BY <1>3, TurnIs
<1>5. PICK g \in [0 .. l -> Places] : Steps(g, l, a, G)
  BY <1>2, <1>4, StepsExist
<1>6. TurnsFrom(g, e)
  <2>1. ASSUME NEW k \in 0 .. l
        PROVE  (IF k = 0 THEN a ELSE G[k][g[k - 1]]) = IF k = 0 THEN a ELSE DecodeTurn(e, g[k - 1])
    <3>1. CASE k = 0
      BY <3>1
    <3>2. CASE k # 0
      <4>1. k \in 1 .. l /\ k - 1 \in 0 .. l
        BY <3>2
      <4>2. PICK x \in Places : x = g[k - 1]
        BY <1>5, <4>1
      <4>3. G[k][x] = DecodeTurn(e, x)
        BY <1>3, <4>1
      <4>4. QED
        BY <3>2, <4>2, <4>3
    <3>3. QED
      BY <3>1, <3>2
  <2>2. g = [k \in 0 .. l |-> IF k = 0 THEN a ELSE DecodeTurn(e, g[k - 1])]
    BY <1>5, <2>1 DEF Steps
  <2>3. QED
    BY <1>1, <1>2, <2>2 DEF TurnsFrom
<1>7. PICK t : t = CHOOSE x : TurnsFrom(x, e)
  OBVIOUS
<1>8. TurnsFrom(t, e)
  BY <1>6, <1>7
<1>9. Base64Decode(e) = t[Len(e)].out
  BY <1>7 DEF Base64Decode, TurnsFrom
<1>10. t[0] = a /\ \A k \in 1 .. l : t[k] = DecodeTurn(e, t[k - 1])
  BY <1>1, <1>2, <1>8 DEF TurnsFrom
<1>11. \A k \in 0 .. l : t[k] \in Places
  <2>1. PICK T : T = {k \in 0 .. l : t[k] \notin Places}
    OBVIOUS
  <2>2. CASE T # {}
    <3>1. T \subseteq Nat
      BY <2>1
    <3>2. PICK k \in T : \A m \in T : k <= m
      BY <2>2, <3>1, Least
    <3>3. k \in 0 .. l /\ t[k] \notin Places /\ k # 0
      BY <1>10, <2>1
    <3>4. k \in 1 .. l /\ k - 1 \in 0 .. l /\ k - 1 \notin T
      BY <3>2, <3>3
    <3>5. t[k - 1] \in Places
      BY <2>1, <3>4
    <3>6. QED
      BY <1>10, <3>3, <3>4, <3>5, TurnIs
  <2>3. QED
    BY <2>1, <2>2
<1>12. t \in [0 .. l -> Places]
  <2>1. t = [k \in 0 .. l |-> t[k]]
    BY <1>1, <1>8 DEF TurnsFrom
  <2>2. QED
    BY <1>11, <2>1
<1>13. IsTurns(t, e)
  BY <1>1, <1>2, <1>10, <1>12 DEF IsTurns
<1>14. QED
  BY <1>9, <1>13

(* Behind the end nothing moves. *)
LEMMA Idle ==
  ASSUME NEW e \in Seq(Coding), NEW t, IsTurns(t, e), NEW k \in 0 .. Len(e), t[k].i >= Len(e)
  PROVE  t[Len(e)] = t[k]
<1>1. PICK l \in Nat : l = Len(e)
  OBVIOUS
<1>2. PICK T : T = {m \in k .. l : t[m] # t[k]}
  OBVIOUS
<1>3. CASE T # {}
  <2>1. T \subseteq Nat
    BY <1>2
  <2>2. PICK m \in T : \A j \in T : m <= j
    BY <1>3, <2>1, Least
  <2>3. m \in k .. l /\ t[m] # t[k] /\ m # k
    BY <1>2
  <2>4. m \in 1 .. l /\ m - 1 \in k .. l /\ m - 1 \notin T
    BY <2>2, <2>3
  <2>5. t[m - 1] = t[k]
    BY <1>2, <2>4
  <2>6. t[m] = DecodeTurn(e, t[m - 1])
    BY <1>1, <2>4 DEF IsTurns
  <2>7. DecodeTurn(e, t[k]) = t[k]
    BY DEF DecodeTurn
  <2>8. QED
    BY <2>3, <2>5, <2>6, <2>7
<1>4. CASE T = {}
  BY <1>1, <1>2, <1>4
<1>5. QED
  BY <1>3, <1>4

LEMMA LineGrows ==
  ASSUME NEW g \in Nat, NEW j \in 0 .. g
  PROVE  Line(j) <= Line(g)
<1>1. PICK p \in Nat, q \in Nat : p = j \div 19 /\ q = g \div 19
  OBVIOUS
<1>2. p <= q
  BY <1>1
<1>3. QED
  BY <1>1, <1>2 DEF Line

(* Some turn is at the end of each group, with what the groups up to there carry. *)
Past(t, e, y, j) ==
  \E k \in 0 .. Len(e) : k <= Line(j) /\ t[k] = Here(Line(j), SubSeq(y, 1, 3 * j))

LEMMA GroupDecoded ==
  ASSUME NEW m \in Nat, NEW y \in Text(m), NEW e, Encodes(e, y, m), NEW t, IsTurns(t, e),
         NEW j \in 1 .. m \div 3, Past(t, e, y, j - 1)
  PROVE  Past(t, e, y, j)
<1>1. e \in Seq(Coding) /\ y \in Seq(Byte) /\ Len(y) = m
  BY WordIs DEF Encodes, Text
<1>2. PICK l \in Nat : l = Len(e)
  BY <1>1
<1>3. PICK g \in Nat : g = m \div 3 /\ j \in 1 .. g /\ 3 * g <= m
  OBVIOUS
<1>4. PICK o \in Nat, n \in Nat : o = Line(j - 1) /\ n = Line(j) /\ n = o + IF j % 19 = 0 THEN 6 ELSE 4
  <2>1. j \in Nat /\ j # 0
    OBVIOUS
  <2>2. QED
    BY <2>1, LineIs
<1>5. n <= l
  <2>1. n <= Line(g)
    <3>1. j \in 0 .. g
      BY <1>3
    <3>2. Line(j) <= Line(g)
      BY <3>1, LineGrows
    <3>3. QED
      BY <1>4, <3>2
  <2>2. l = Line(g) + IF m % 3 = 0 THEN 0 ELSE 4
    BY <1>2, <1>3 DEF Encodes
  <2>3. Line(g) \in Nat
    BY LineIs
  <2>4. QED
    BY <2>1, <2>2, <2>3
<1>6. PICK i \in Nat : i = 3 * (j - 1) /\ 3 * j = i + 3 /\ i + 3 <= m
  BY <1>3
<1>7. PICK d \in Seq(Byte) : d = SubSeq(y, 1, i)
  <2>1. i \in 0 .. Len(y)
    BY <1>1, <1>6
  <2>2. QED
    BY <1>1, <2>1, FirstOf
<1>8. PICK k \in 0 .. l : k <= o /\ t[k] = Here(o, d)
  BY <1>2, <1>4, <1>6, <1>7 DEF Past
<1>9. /\ 3 * j - 2 = i + 1 /\ 3 * j - 1 = i + 2 /\ 3 * j = i + 3
      /\ i + 1 \in 1 .. m /\ i + 2 \in 1 .. m /\ i + 3 \in 1 .. m
  BY <1>6
<1>10. PICK a \in Byte, b \in Byte, c \in Byte : a = y[i + 1] /\ b = y[i + 2] /\ c = y[i + 3]
  BY <1>9 DEF Text
<1>11. Carries(e, o, a, b, c) /\ (j % 19 = 0 => e[o + 5] = CR /\ e[o + 6] = LF)
  BY <1>4, <1>9, <1>10 DEF Encodes
<1>12. PICK h \in Seq(Byte) : h = d \o <<a, b, c>> /\ h = SubSeq(y, 1, 3 * j)
  <2>1. PICK r : r = <<a, b, c>>
    OBVIOUS
  <2>2. r \in Seq(Byte) /\ Len(r) = 3 /\ r[1] = a /\ r[2] = b /\ r[3] = c
    BY <2>1
  <2>3. \A x \in 1 .. Len(r) : y[i + x] = r[x]
    <3>1. 1 .. Len(r) = {1, 2, 3}
      BY <2>2
    <3>2. QED
      BY <1>10, <2>2, <3>1
  <2>4. i + Len(r) <= Len(y) /\ i + Len(r) = 3 * j
    BY <1>1, <1>6, <2>2
  <2>5. d \o r = SubSeq(y, 1, i + Len(r))
    BY <1>1, <1>7, <2>2, <2>3, <2>4, PrefixGrows
  <2>6. d \o r \in Seq(Byte)
    BY <2>2, ConcatProperties
  <2>7. QED
    BY <2>1, <2>4, <2>5, <2>6
<1>13. k + 1 \in 1 .. l /\ k + 1 - 1 = k /\ o + 4 <= l /\ k + 1 <= o + 1 /\ o + 4 \in Nat
  BY <1>4, <1>5, <1>8
<1>14. t[k + 1] = Here(o + 4, h)
  <2>1. t[k + 1] = DecodeTurn(e, t[k])
    BY <1>2, <1>13 DEF IsTurns
  <2>2. DecodeTurn(e, Here(o, d)) = Here(o + 4, d \o <<a, b, c>>)
    BY <1>1, <1>2, <1>11, <1>13, TurnThree
  <2>3. QED
    BY <1>8, <1>12, <2>1, <2>2
<1>15. CASE j % 19 # 0
  <2>1. n = o + 4 /\ k + 1 \in 0 .. l /\ k + 1 <= n
    BY <1>4, <1>13, <1>15
  <2>2. QED
    BY <1>2, <1>4, <1>12, <1>14, <2>1 DEF Past
<1>16. CASE j % 19 = 0
  <2>1. /\ n = o + 6 /\ o + 6 <= l /\ k + 2 \in 1 .. l /\ k + 3 \in 1 .. l /\ k + 3 <= n
        /\ k + 2 - 1 = k + 1 /\ k + 3 - 1 = k + 2 /\ o + 5 \in Nat
        /\ o + 4 + 1 = o + 5 /\ o + 5 + 1 = o + 6 /\ o + 5 <= l
    <3>1. n = o + 6
      BY <1>4, <1>16
    <3>2. o + 6 <= l
      BY <1>5, <3>1
    <3>3. k + 2 \in 1 .. l /\ k + 3 \in 1 .. l /\ k + 3 <= n
      BY <1>8, <3>1, <3>2
    <3>4. QED
      BY <3>1, <3>2, <3>3
  <2>2. t[k + 2] = Here(o + 5, h)
    <3>1. t[k + 2] = DecodeTurn(e, t[k + 1])
      BY <1>2, <2>1 DEF IsTurns
    <3>2. PICK q \in Nat : q = o + 4
      BY <1>13
    <3>3. q + 1 <= Len(e) /\ e[q + 1] \in {CR, LF}
      BY <1>2, <1>11, <1>16, <2>1, <3>2
    <3>4. DecodeTurn(e, Here(q, h)) = Here(q + 1, h)
      BY <1>1, <3>3, TurnLine
    <3>5. QED
      BY <1>14, <2>1, <3>1, <3>2, <3>4
  <2>3. t[k + 3] = Here(o + 6, h)
    <3>1. t[k + 3] = DecodeTurn(e, t[k + 2])
      BY <1>2, <2>1 DEF IsTurns
    <3>2. PICK q \in Nat : q = o + 5
      BY <2>1
    <3>3. q + 1 <= Len(e) /\ e[q + 1] \in {CR, LF}
      BY <1>2, <1>11, <1>16, <2>1, <3>2
    <3>4. DecodeTurn(e, Here(q, h)) = Here(q + 1, h)
      BY <1>1, <3>3, TurnLine
    <3>5. QED
      BY <2>1, <2>2, <3>1, <3>2, <3>4
  <2>4. k + 3 \in 0 .. l
    BY <2>1
  <2>5. QED
    BY <1>2, <1>4, <1>12, <2>1, <2>3, <2>4 DEF Past
<1>17. QED
  BY <1>15, <1>16

LEMMA GroupsDecoded ==
  ASSUME NEW m \in Nat, NEW y \in Text(m), NEW e, Encodes(e, y, m), NEW t, IsTurns(t, e),
         NEW j \in 0 .. m \div 3
  PROVE  Past(t, e, y, j)
<1>1. PICK T : T = {i \in 0 .. m \div 3 : ~Past(t, e, y, i)}
  OBVIOUS
<1>2. CASE T # {}
  <2>1. T \subseteq Nat
    BY <1>1
  <2>2. PICK i \in T : \A x \in T : i <= x
    BY <1>2, <2>1, Least
  <2>3. i \in 0 .. m \div 3 /\ ~Past(t, e, y, i)
    BY <1>1
  <2>4. i # 0
    <3>1. Past(t, e, y, 0)
      <4>1. Line(0) = 0 /\ 3 * 0 = 0 /\ 0 \in Nat
        BY LineIs
      <4>2. SubSeq(y, 1, 3 * 0) = <<>> /\ 0 <= Line(0)
        <5>1. SubSeq(y, 1, 0) = <<>>
          BY SubSeqEmpty
        <5>2. QED
          BY <4>1, <5>1
      <4>3. t[0] = Here(Line(0), SubSeq(y, 1, 3 * 0))
        BY <4>1, <4>2 DEF IsTurns
      <4>4. 0 \in 0 .. Len(e)
        BY DEF Encodes
      <4>5. QED
        BY <4>2, <4>3, <4>4 DEF Past
    <3>2. QED
      BY <2>3, <3>1
  <2>5. i \in 1 .. m \div 3 /\ i - 1 \in 0 .. m \div 3 /\ i - 1 \notin T
    BY <2>2, <2>3, <2>4
  <2>6. Past(t, e, y, i - 1)
    BY <1>1, <2>5
  <2>7. QED
    BY <2>3, <2>5, <2>6, GroupDecoded
<1>3. QED
  BY <1>1, <1>2

(* What base64Encode of des.cpp writes its base64Decode reads, whatever the bytes and however
   many: groups, line ends after every nineteenth, and a last group of one or two bytes, which
   the loop counts otherwise than it reads it. *)
THEOREM Base64Back ==
  ASSUME NEW m \in Nat, NEW y \in Text(m)
  PROVE  Base64Decode(Base64Encode(y)) = y
<1>1. y \in Seq(Byte) /\ Len(y) = m
  BY WordIs DEF Text
<1>2. PICK e : e = Base64Encode(y)
  OBVIOUS
<1>3. Encodes(e, y, m) /\ e \in Seq(Coding)
  BY <1>2, EncodeIs DEF Encodes
<1>4. PICK t : IsTurns(t, e) /\ Base64Decode(e) = t[Len(e)].out
  BY <1>3, TurnsAre
<1>5. PICK g \in Nat : g = m \div 3 /\ g \in 0 .. m \div 3
  OBVIOUS
<1>6. PICK o \in Nat : o = Line(g)
  BY LineIs
<1>7. PICK l \in Nat : l = Len(e) /\ l = o + IF m % 3 = 0 THEN 0 ELSE 4
  BY <1>3, <1>5, <1>6 DEF Encodes
<1>8. PICK k \in 0 .. l : k <= o /\ t[k] = Here(o, SubSeq(y, 1, 3 * g))
  BY <1>3, <1>4, <1>5, <1>6, <1>7, GroupsDecoded DEF Past
<1>9. PICK d \in Seq(Byte) : d = SubSeq(y, 1, 3 * g) /\ t[k] = Here(o, d)
  <2>1. 3 * g \in 0 .. Len(y)
    BY <1>1, <1>5
  <2>2. QED
    BY <1>1, <1>8, <2>1, FirstOf
<1>10. SubSeq(y, 1, m) = y
  BY <1>1, SubSeqFull
<1>11. CASE m % 3 = 0
  <2>1. 3 * g = m /\ l = o
    BY <1>5, <1>7, <1>11
  <2>2. t[k].i = o /\ t[k].out = d
    <3>1. Here(o, d).i = o /\ Here(o, d).out = d
      BY HereIs
    <3>2. QED
      BY <1>9, <3>1
  <2>3. t[Len(e)] = t[k]
    <3>1. k \in 0 .. Len(e) /\ t[k].i >= Len(e)
      BY <1>7, <2>1, <2>2
    <3>2. QED
      BY <1>3, <1>4, <3>1, Idle
  <2>4. QED
    BY <1>2, <1>4, <1>9, <1>10, <2>1, <2>2, <2>3
<1>12. ASSUME NEW r \in Seq(Byte), NEW p, 3 * g + Len(r) = m, l = o + 4,
              \A i \in 1 .. Len(r) : y[3 * g + i] = r[i],
              DecodeTurn(e, Here(o, d)) = [p |-> p, i |-> o + 4, out |-> d \o r]
       PROVE  Base64Decode(e) = y
  <2>1. d \o r = y
    <3>1. 3 * g \in Nat /\ 3 * g + Len(r) <= Len(y)
      BY <1>1, <1>12
    <3>2. SubSeq(y, 1, 3 * g) \o r = SubSeq(y, 1, 3 * g + Len(r))
      BY <1>1, <1>12, <3>1, PrefixGrows
    <3>3. QED
      BY <1>9, <1>10, <1>12, <3>2
  <2>2. k + 1 \in 1 .. l /\ k + 1 \in 0 .. l /\ k + 1 - 1 = k
    BY <1>8, <1>12
  <2>3. t[k + 1] = [p |-> p, i |-> o + 4, out |-> y]
    <3>1. t[k + 1] = DecodeTurn(e, t[k])
      BY <1>4, <1>7, <2>2 DEF IsTurns
    <3>2. QED
      BY <1>9, <1>12, <2>1, <3>1
  <2>4. t[k + 1].i = l /\ t[k + 1].out = y
    BY <1>12, <2>3
  <2>5. t[Len(e)] = t[k + 1]
    <3>1. k + 1 \in 0 .. Len(e) /\ t[k + 1].i >= Len(e)
      BY <1>7, <2>2, <2>4
    <3>2. QED
      BY <1>3, <1>4, <3>1, Idle
  <2>6. QED
    BY <1>4, <2>4, <2>5
<1>13. CASE m % 3 = 1
  <2>1. l = o + 4 /\ 3 * g + 1 = m /\ m \in 1 .. m
    BY <1>5, <1>7, <1>13
  <2>2. PICK a \in Byte : a = y[m]
    BY <2>1 DEF Text
  <2>3. CarriesOne(e, o, a)
    BY <1>3, <1>5, <1>6, <1>13, <2>2 DEF Encodes
  <2>4. DecodeTurn(e, Here(o, d)) = [p |-> o + 3, i |-> o + 4, out |-> d \o <<a>>]
    <3>1. o + 4 <= Len(e)
      BY <1>7, <2>1
    <3>2. QED
      BY <1>3, <2>3, <3>1, TurnOne
  <2>5. <<a>> \in Seq(Byte) /\ Len(<<a>>) = 1 /\ \A i \in 1 .. Len(<<a>>) : y[3 * g + i] = <<a>>[i]
    BY <2>1, <2>2
  <2>6. QED
    BY <1>2, <1>12, <2>1, <2>4, <2>5
<1>14. CASE m % 3 = 2
  <2>1. l = o + 4 /\ 3 * g + 2 = m /\ m \in 1 .. m /\ m - 1 \in 1 .. m /\ 3 * g + 1 = m - 1
    BY <1>5, <1>7, <1>14
  <2>2. PICK a \in Byte, b \in Byte : a = y[m - 1] /\ b = y[m]
    BY <2>1 DEF Text
  <2>3. CarriesTwo(e, o, a, b)
    BY <1>3, <1>5, <1>6, <1>14, <2>2 DEF Encodes
  <2>4. DecodeTurn(e, Here(o, d)) = [p |-> o + 4, i |-> o + 4, out |-> d \o <<a, b>>]
    <3>1. o + 4 <= Len(e)
      BY <1>7, <2>1
    <3>2. QED
      BY <1>3, <2>3, <3>1, TurnTwo
  <2>5. PICK r : r = <<a, b>>
    OBVIOUS
  <2>6. r \in Seq(Byte) /\ Len(r) = 2 /\ r[1] = a /\ r[2] = b
    BY <2>5
  <2>7. \A i \in 1 .. Len(r) : y[3 * g + i] = r[i]
    <3>1. 1 .. Len(r) = {1, 2}
      BY <2>6
    <3>2. QED
      BY <2>1, <2>2, <2>6, <3>1
  <2>8. QED
    BY <1>2, <1>12, <2>1, <2>4, <2>5, <2>6, <2>7
<1>15. QED
  BY <1>2, <1>11, <1>13, <1>14

-----------------------------------------------------------------------------
(* Padding, and what is joined behind it. *)
Letter == 1 .. 255

LEMMA NoNul ==
  ASSUME NEW b \in Seq(Letter)
  PROVE  CString(b) = b
<1>1. \A i \in DOMAIN b : b[i] \in Letter
  OBVIOUS
<1>2. {i \in DOMAIN b : b[i] = 0} = {}
  <2>1. \A x \in Letter : x # 0
    BY DEF Letter
  <2>2. \A i \in DOMAIN b : b[i] # 0
    BY <1>1, <2>1
  <2>3. QED
    BY <2>2
<1>3. QED
  BY <1>2 DEF CString

(* The text is filled up to whole blocks, with the number of bytes that lack. *)
Fills(y, cmd, n, w) ==
  /\ y \in [1 .. 8 * n -> Letter]
  /\ 8 * n = Len(cmd) + w
  /\ \A i \in 1 .. Len(cmd) : y[i] = cmd[i]
  /\ \A i \in Len(cmd) + 1 .. 8 * n : y[i] = w

LEMMA PaddedIs ==
  ASSUME NEW cmd \in Seq(Letter), cmd # <<>>
  PROVE  \E n \in Nat \ {0}, w \in 0 .. 7 : Fills(Padded(cmd), cmd, n, w)
<1>1. PICK l \in Nat \ {0} : l = Len(cmd)
  OBVIOUS
<1>2. PICK w \in 0 .. 7 : w = (8 - (l % 8)) % 8
  OBVIOUS
<1>3. PICK n \in Nat \ {0} : 8 * n = l + w
  <2>1. PICK q \in Nat : q = l \div 8
    OBVIOUS
  <2>2. PICK r \in 0 .. 7 : r = l % 8 /\ l = 8 * q + r
    BY <2>1
  <2>3. CASE r = 0
    <3>1. w = 0 /\ q # 0
      BY <1>2, <2>2, <2>3
    <3>2. QED
      BY <2>2, <2>3, <3>1
  <2>4. CASE r # 0
    <3>1. w = 8 - r
      BY <1>2, <2>2, <2>4
    <3>2. q + 1 \in Nat \ {0} /\ 8 * (q + 1) = l + w
      BY <2>2, <3>1
    <3>3. QED
      BY <3>2
  <2>5. QED
    BY <2>3, <2>4
<1>4. PICK f : f = [i \in 1 .. w |-> w]
  OBVIOUS
<1>5. f \in [1 .. w -> Letter]
  BY <1>4 DEF Letter
<1>6. f \in Seq(Letter) /\ Len(f) = w
  <2>1. w \in Nat
    OBVIOUS
  <2>2. QED
    BY <1>5, <2>1, WordIs
<1>7. PICK y : y = cmd \o f
  OBVIOUS
<1>8. /\ y \in Seq(Letter) /\ Len(y) = l + w
      /\ \A i \in 1 .. l + w : y[i] = IF i <= l THEN cmd[i] ELSE f[i - l]
  <2>1. /\ y \in Seq(Letter) /\ Len(y) = Len(cmd) + Len(f)
        /\ \A i \in 1 .. Len(cmd) + Len(f) : y[i] = IF i <= Len(cmd) THEN cmd[i] ELSE f[i - Len(cmd)]
    BY <1>6, <1>7, ConcatProperties
  <2>2. QED
    BY <1>1, <1>6, <2>1
<1>9. y \in [1 .. 8 * n -> Letter]
  BY <1>3, <1>8, LenProperties
<1>10. \A i \in 1 .. l : y[i] = cmd[i]
  BY <1>8
<1>11. ASSUME NEW i \in l + 1 .. 8 * n PROVE y[i] = w
  <2>1. PICK k \in 1 .. w : k = i - l
    BY <1>3
  <2>2. i \in 1 .. l + w /\ ~(i <= l)
    BY <1>3
  <2>3. f[k] = w
    BY <1>4
  <2>4. QED
    BY <1>8, <2>1, <2>2, <2>3
<1>12. Padded(cmd) = y
  BY <1>1, <1>2, <1>4, <1>7 DEF Padded
<1>13. QED
  BY <1>1, <1>3, <1>9, <1>10, <1>11, <1>12, SMTT(30) DEF Fills

(* What is left of the last block: its first byte, or up to the last that is no padding. *)
LEMMA StrippedIs ==
  ASSUME NEW b
  PROVE  \E q \in 1 .. 8 : /\ Stripped(b) = SubSeq(b, 1, q)
                           /\ q = 1 \/ ~IsPadding(b[q])
                           /\ \A j \in q + 1 .. 8 : IsPadding(b[j])
<1>1. PICK kept : kept = {j \in 2 .. 8 : ~IsPadding(b[j])}
  OBVIOUS
<1>2. Stripped(b) = SubSeq(b, 1, IF kept = {} THEN 1 ELSE Max(kept))
  BY <1>1 DEF Stripped
<1>3. CASE kept = {}
  <2>1. \A j \in 1 + 1 .. 8 : IsPadding(b[j])
    <3>1. 1 + 1 = 2
      OBVIOUS
    <3>2. QED
      BY <1>1, <1>3, <3>1
  <2>2. 1 \in 1 .. 8
    OBVIOUS
  <2>3. QED
    BY <1>2, <1>3, <2>1, <2>2
<1>4. CASE kept # {}
  <2>1. PICK T : T = {m \in 0 .. 8 : 8 - m \in kept}
    OBVIOUS
  <2>2. T \subseteq Nat /\ T # {}
    <3>1. PICK j \in kept : j \in 2 .. 8
      BY <1>1, <1>4
    <3>2. PICK m \in 0 .. 8 : m = 8 - j /\ 8 - m = j
      BY <3>1
    <3>3. 8 - m \in kept
      BY <3>1, <3>2
    <3>4. m \in T
      BY <2>1, <3>3
    <3>5. T \subseteq Nat
      BY <2>1
    <3>6. QED
      BY <3>4, <3>5
  <2>3. PICK m \in T : \A x \in T : m <= x
    BY <2>2, Least
  <2>4. PICK q : q = 8 - m /\ q \in kept
    BY <2>1
  <2>5. ASSUME NEW j \in kept PROVE q >= j
    <3>1. j \in 2 .. 8 /\ m \in 0 .. 8
      BY <1>1, <2>1
    <3>2. PICK x \in 0 .. 8 : x = 8 - j /\ 8 - x = j
      BY <3>1
    <3>3. m <= x
      BY <2>1, <2>3, <3>2
    <3>4. QED
      BY <2>4, <3>1, <3>2, <3>3
  <2>6. PICK z : z = Max(kept)
    OBVIOUS
  <2>7. z \in kept /\ \A j \in kept : z >= j
    BY <2>4, <2>5, <2>6 DEF Max
  <2>8. z \in 2 .. 8 /\ ~IsPadding(b[z])
    BY <1>1, <2>7
  <2>9. ASSUME NEW j \in z + 1 .. 8 PROVE IsPadding(b[j])
    <3>1. j \in 2 .. 8 /\ ~(z >= j)
      BY <2>8
    <3>2. QED
      BY <1>1, <2>7, <3>1
  <2>10. z \in 1 .. 8
    BY <2>8
  <2>11. QED
    BY <1>2, <1>4, <2>6, <2>8, <2>9, <2>10
<1>5. QED
  BY <1>3, <1>4

LEMMA FrontIs ==
  ASSUME NEW n \in Nat, NEW y \in [1 .. 8 * n -> Letter], NEW i \in 1 .. n, NEW r \in 1 .. 8
  PROVE  /\ SubSeq(Block(y, i), 1, r) \in Seq(Letter) /\ Len(SubSeq(Block(y, i), 1, r)) = r
         /\ \A k \in 1 .. r : SubSeq(Block(y, i), 1, r)[k] = y[8 * i - 8 + k]
<1>1. y \in Text(8 * n)
  BY DEF Text, Letter, Byte
<1>2. PICK b : b = Block(y, i)
  OBVIOUS
<1>3. b \in Text(8) /\ \A k \in 1 .. 8 : b[k] = y[8 * i - 8 + k]
  BY <1>1, <1>2, BlockIs
<1>4. \A k \in 1 .. 8 : b[k] \in Letter
  <2>1. \A k \in 1 .. 8 : 8 * i - 8 + k \in 1 .. 8 * n
    OBVIOUS
  <2>2. QED
    BY <1>3, <2>1
<1>5. b \in [1 .. 8 -> Letter]
  BY <1>3, <1>4 DEF Text
<1>6. b \in Seq(Letter) /\ Len(b) = 8
  <2>1. 8 \in Nat
    OBVIOUS
  <2>2. QED
    BY <1>5, <2>1, WordIs
<1>7. r \in 0 .. Len(b)
  BY <1>6
<1>8. PICK x : x = SubSeq(b, 1, r)
  OBVIOUS
<1>9. x \in Seq(Letter) /\ Len(x) = r /\ \A k \in 1 .. r : x[k] = b[k]
  BY <1>6, <1>7, <1>8, FirstOf
<1>10. \A k \in 1 .. r : k \in 1 .. 8
  OBVIOUS
<1>11. QED
  BY <1>2, <1>3, <1>8, <1>9, <1>10

(* Of each block all eight bytes, of the last one q. *)
Width(i, n, q) == IF i = n THEN q ELSE 8

LEMMA FrontsJoined ==
  ASSUME NEW n \in Nat \ {0}, NEW y \in [1 .. 8 * n -> Letter], NEW q \in 1 .. 8,
         NEW s, s = [i \in 1 .. n |-> SubSeq(Block(y, i), 1, Width(i, n, q))]
  PROVE  FlattenSeq(s) = SubSeq(y, 1, 8 * n - 8 + q)
<1>1. PICK m \in Nat : m = 8 * n - 8 + q /\ m <= 8 * n
  OBVIOUS
<1>2. ASSUME NEW i \in 1 .. n
      PROVE  /\ s[i] \in Seq(Letter) /\ Len(s[i]) = Width(i, n, q)
             /\ \A k \in 1 .. Width(i, n, q) : s[i][k] = y[8 * i - 8 + k]
  <2>1. PICK r \in 1 .. 8 : r = Width(i, n, q)
    BY DEF Width
  <2>2. s[i] = SubSeq(Block(y, i), 1, r)
    BY <2>1
  <2>3. n \in Nat
    OBVIOUS
  <2>4. PICK x : x = SubSeq(Block(y, i), 1, r)
    OBVIOUS
  <2>5. x \in Seq(Letter) /\ Len(x) = r /\ \A k \in 1 .. r : x[k] = y[8 * i - 8 + k]
    <3>1. /\ SubSeq(Block(y, i), 1, r) \in Seq(Letter) /\ Len(SubSeq(Block(y, i), 1, r)) = r
          /\ \A k \in 1 .. r : SubSeq(Block(y, i), 1, r)[k] = y[8 * i - 8 + k]
      BY <2>3, FrontIs
    <3>2. QED
      BY <2>4, <3>1
  <2>6. QED
    BY <2>1, <2>2, <2>4, <2>5
<1>3. s \in [1 .. n -> Seq(Letter)]
  BY <1>2
<1>4. PICK off : off = [i \in 0 .. n |-> IF i = n THEN m ELSE 8 * i]
  OBVIOUS
<1>5. off \in [0 .. n -> Nat] /\ off[n] = m /\ \A i \in 0 .. n - 1 : off[i] = 8 * i
  BY <1>4
<1>6. Ends(s, off, n)
  <2>1. off[0] = 0
    <3>1. 0 \in 0 .. n - 1
      OBVIOUS
    <3>2. QED
      BY <1>5, <3>1
  <2>2. ASSUME NEW j \in 1 .. n PROVE off[j] = off[j - 1] + Len(s[j])
    <3>1. j - 1 \in 0 .. n - 1
      OBVIOUS
    <3>2. off[j - 1] = 8 * (j - 1)
      BY <1>5, <3>1
    <3>3. CASE j = n
      BY <1>1, <1>2, <1>5, <3>2, <3>3 DEF Width
    <3>4. CASE j # n
      <4>1. j \in 0 .. n - 1
        BY <3>4
      <4>2. Len(s[j]) = 8 /\ off[j] = 8 * j
        BY <1>2, <1>5, <3>4, <4>1 DEF Width
      <4>3. 8 * j = 8 * (j - 1) + 8
        OBVIOUS
      <4>4. QED
        BY <3>2, <4>2, <4>3
    <3>5. QED
      BY <3>3, <3>4
  <2>3. QED
    BY <2>1, <2>2 DEF Ends
<1>7. PICK f \in Seq(Letter) : f = FlattenSeq(s) /\ Holding(f, s, off, n)
  <2>1. n \in Nat
    OBVIOUS
  <2>2. QED
    BY <1>3, <1>5, <1>6, <2>1, FlattenIs
<1>8. Len(f) = m
  BY <1>5, <1>7 DEF Holding
<1>9. y \in Seq(Letter) /\ Len(y) = 8 * n
  <2>1. 8 * n \in Nat
    OBVIOUS
  <2>2. QED
    BY <2>1, WordIs
<1>10. PICK x : x = SubSeq(y, 1, m)
  OBVIOUS
<1>11. x \in Seq(Letter) /\ Len(x) = m /\ \A i \in 1 .. m : x[i] = y[i]
  <2>1. m \in 0 .. Len(y)
    BY <1>1, <1>9
  <2>2. QED
    BY <1>9, <1>10, <2>1, FirstOf
<1>12. ASSUME NEW j \in 1 .. m PROVE f[j] = x[j]
  <2>1. PICK i \in 1 .. n : i = ((j - 1) \div 8) + 1
    BY <1>1
  <2>2. PICK k \in 1 .. 8 : k = ((j - 1) % 8) + 1
    OBVIOUS
  <2>3. j = 8 * i - 8 + k /\ j = 8 * (i - 1) + k
    <3>0. PICK z \in Nat : z = j - 1
      BY <1>1
    <3>1. PICK d \in Nat : d = z \div 8
      OBVIOUS
    <3>2. PICK r \in 0 .. 7 : r = z % 8
      OBVIOUS
    <3>3. z = 8 * d + r
      BY <3>1, <3>2
    <3>4. i = d + 1 /\ k = r + 1
      BY <2>1, <2>2, <3>0, <3>1, <3>2
    <3>5. QED
      BY <3>0, <3>3, <3>4
  <2>4. k \in 1 .. Width(i, n, q)
    <3>1. CASE i = n
      BY <1>1, <2>3, <3>1 DEF Width
    <3>2. CASE i # n
      BY <3>2 DEF Width
    <3>3. QED
      BY <3>1, <3>2
  <2>5. off[i - 1] = 8 * (i - 1)
    <3>1. i - 1 \in 0 .. n - 1
      OBVIOUS
    <3>2. QED
      BY <1>5, <3>1
  <2>6. k \in Nat \ {0} /\ k <= Len(s[i])
    <3>1. Len(s[i]) = Width(i, n, q) /\ Width(i, n, q) \in Nat
      BY <1>2 DEF Width
    <3>2. QED
      BY <2>4, <3>1
  <2>7. f[off[i - 1] + k] = s[i][k]
    BY <1>7, <2>6 DEF Holding
  <2>8. s[i][k] = y[8 * i - 8 + k]
    BY <1>2, <2>4
  <2>9. QED
    BY <1>11, <2>3, <2>5, <2>7, <2>8
<1>13. f = x
  BY <1>8, <1>11, <1>12, SeqEqual
<1>14. QED
  BY <1>1, <1>7, <1>10, <1>13

(* What the receivers put together from the blocks of a filled text. *)
LEMMA TextArrives ==
  ASSUME NEW cmd \in Seq(Letter), cmd # <<>>, NEW n \in Nat \ {0}, NEW w \in 0 .. 7,
         NEW y, Fills(y, cmd, n, w),
         NEW blocks, blocks = [i \in 1 .. n |-> Block(y, i)]
  PROVE  Arrives(cmd, Joined(blocks)) /\ IsPrefix(cmd, OsiJoined(blocks))
<1>1. PICK l \in Nat \ {0} : l = Len(cmd)
  OBVIOUS
<1>2. /\ y \in [1 .. 8 * n -> Letter] /\ 8 * n = l + w
      /\ \A i \in 1 .. l : y[i] = cmd[i]
      /\ \A i \in l + 1 .. 8 * n : y[i] = w
  BY <1>1 DEF Fills
<1>3. y \in Seq(Letter) /\ Len(y) = 8 * n
  <2>1. 8 * n \in Nat
    OBVIOUS
  <2>2. QED
    BY <1>2, <2>1, WordIs
<1>4. DOMAIN blocks = 1 .. n /\ Len(blocks) = n /\ n \in 1 .. n /\ n \in Nat
  <2>1. n \in Nat /\ blocks \in [1 .. n -> {Block(y, i) : i \in 1 .. n}]
    OBVIOUS
  <2>2. Len(blocks) = n
    BY <2>1, WordIs
  <2>3. QED
    BY <2>1, <2>2
<1>5. ASSUME NEW i \in 1 .. n, NEW r \in 1 .. 8
      PROVE  CString(SubSeq(Block(y, i), 1, r)) = SubSeq(Block(y, i), 1, r)
  <2>1. SubSeq(Block(y, i), 1, r) \in Seq(Letter)
    BY <1>2, <1>4, FrontIs
  <2>2. QED
    BY <2>1, NoNul
<1>6. ASSUME NEW i \in 1 .. n PROVE SubSeq(Block(y, i), 1, 8) = Block(y, i)
  <2>1. y \in Text(8 * n)
    BY <1>2 DEF Text, Letter, Byte
  <2>2. Block(y, i) \in Text(8) /\ 8 \in Nat
    BY <1>4, <2>1, BlockIs
  <2>3. PICK b \in Text(8) : b = Block(y, i)
    BY <2>2
  <2>4. b \in Seq(Byte) /\ Len(b) = 8
    BY <2>2, WordIs DEF Text
  <2>5. SubSeq(b, 1, 8) = b
    BY <2>4, SubSeqFull
  <2>6. QED
    BY <2>3, <2>5
<1>7. ASSUME NEW q \in 1 .. 8, NEW s,
             s = [i \in 1 .. n |-> SubSeq(Block(y, i), 1, Width(i, n, q))]
      PROVE  FlattenSeq(s) = SubSeq(y, 1, 8 * n - 8 + q)
  <2>1. y \in [1 .. 8 * n -> Letter]
    BY <1>2
  <2>2. s = [i \in 1 .. n |-> SubSeq(Block(y, i), 1, Width(i, n, q))]
    BY <1>7
  <2>3. QED
    BY <2>1, <2>2, FrontsJoined
<1>8. IsPrefix(cmd, OsiJoined(blocks))
  <2>1. PICK s : s = [i \in 1 .. n |-> SubSeq(Block(y, i), 1, Width(i, n, 8))]
    OBVIOUS
  <2>2. \A i \in 1 .. n : CString(blocks[i]) = SubSeq(Block(y, i), 1, Width(i, n, 8))
    <3>1. ASSUME NEW i \in 1 .. n PROVE CString(blocks[i]) = SubSeq(Block(y, i), 1, Width(i, n, 8))
      <4>1. Width(i, n, 8) = 8 /\ 8 \in 1 .. 8
        BY DEF Width
      <4>2. CString(SubSeq(Block(y, i), 1, 8)) = SubSeq(Block(y, i), 1, 8)
        BY <1>5, <4>1
      <4>3. QED
        BY <1>6, <4>1, <4>2
    <3>2. QED
      BY <3>1
  <2>3. OsiJoined(blocks) = FlattenSeq(s)
    BY <1>4, <2>1, <2>2 DEF OsiJoined
  <2>4. FlattenSeq(s) = SubSeq(y, 1, 8 * n - 8 + 8)
    <3>1. 8 \in 1 .. 8
      OBVIOUS
    <3>2. QED
      BY <1>7, <2>1, <3>1
  <2>5. 8 * n - 8 + 8 = Len(y)
    BY <1>3
  <2>6. OsiJoined(blocks) = y
    BY <1>3, <2>3, <2>4, <2>5, SubSeqFull
  <2>7. PICK a : a = SubSeq(cmd, 1, l)
    OBVIOUS
  <2>8. PICK b : b = SubSeq(y, 1, l)
    OBVIOUS
  <2>9. a \in Seq(Letter) /\ Len(a) = l /\ \A i \in 1 .. l : a[i] = cmd[i]
    <3>1. l \in 0 .. Len(cmd)
      BY <1>1
    <3>2. QED
      BY <2>7, <3>1, FirstOf
  <2>10. b \in Seq(Letter) /\ Len(b) = l /\ \A i \in 1 .. l : b[i] = y[i]
    <3>1. l \in 0 .. Len(y)
      BY <1>2, <1>3
    <3>2. QED
      BY <1>3, <2>8, <3>1, FirstOf
  <2>11. a = b
    BY <1>2, <2>9, <2>10, SeqEqual
  <2>12. l <= Len(y)
    BY <1>2, <1>3
  <2>13. QED
    BY <1>1, <2>6, <2>7, <2>8, <2>11, <2>12 DEF IsPrefix
<1>9. Arrives(cmd, Joined(blocks))
  <2>1. PICK c : c = Block(y, n)
    OBVIOUS
  <2>2. PICK q \in 1 .. 8 : /\ Stripped(c) = SubSeq(c, 1, q)
                            /\ q = 1 \/ ~IsPadding(c[q])
                            /\ \A j \in q + 1 .. 8 : IsPadding(c[j])
    BY StrippedIs
  <2>3. \A j \in 1 .. 8 : c[j] = y[8 * n - 8 + j]
    <3>1. y \in Text(8 * n)
      BY <1>2 DEF Text, Letter, Byte
    <3>2. QED
      BY <1>4, <2>1, <3>1, BlockIs, ZenonT(40)
  <2>4. PICK m \in Nat : m = 8 * n - 8 + q /\ m <= 8 * n
    OBVIOUS
  <2>5. PICK got : got = Joined(blocks)
    OBVIOUS
  <2>6. got = SubSeq(y, 1, m)
    <3>1. PICK s : s = [i \in 1 .. n |-> SubSeq(Block(y, i), 1, Width(i, n, q))]
      OBVIOUS
    <3>2. ASSUME NEW i \in 1 .. n
          PROVE  CString(IF i = n THEN Stripped(blocks[i]) ELSE blocks[i])
                   = SubSeq(Block(y, i), 1, Width(i, n, q))
      <4>1. CASE i = n
        BY <1>5, <2>1, <2>2, <4>1 DEF Width
      <4>2. CASE i # n
        <5>1. CString(SubSeq(Block(y, i), 1, 8)) = SubSeq(Block(y, i), 1, 8)
          <6>1. 8 \in 1 .. 8
            OBVIOUS
          <6>2. QED
            BY <1>5, <6>1
        <5>2. QED
          BY <1>6, <4>2, <5>1 DEF Width
      <4>3. QED
        BY <4>1, <4>2
    <3>3. got = FlattenSeq(s)
      BY <1>4, <2>5, <3>1, <3>2 DEF Joined
    <3>4. QED
      BY <1>7, <2>4, <3>1, <3>3
  <2>7. got \in Seq(Letter) /\ Len(got) = m /\ \A i \in 1 .. m : got[i] = y[i]
    <3>1. m \in 0 .. Len(y)
      BY <1>3, <2>4
    <3>2. QED
      BY <1>3, <2>6, <3>1, FirstOf
  <2>8. m <= l
    <3> SUFFICES ASSUME ~(m <= l) PROVE FALSE
      BY <1>1, <2>4
    <3>1. m \in l + 1 .. 8 * n
      BY <1>1, <2>4
    <3>2. y[m] = w
      BY <1>2, <3>1
    <3>3. c[q] = w
      BY <2>3, <2>4, <3>2
    <3>4. IsPadding(c[q])
      BY <3>3 DEF IsPadding
    <3>5. q = 1
      BY <2>2, <3>4
    <3>6. QED
      BY <1>2, <2>4, <3>1, <3>5
  <2>9. ASSUME NEW i \in m + 1 .. l PROVE IsPadding(cmd[i])
    <3>1. PICK j \in q + 1 .. 8 : j = i - (8 * n - 8) /\ 8 * n - 8 + j = i
      BY <1>2, <2>4
    <3>2. c[j] = y[i] /\ IsPadding(c[j])
      <4>1. j \in 1 .. 8
        OBVIOUS
      <4>2. c[j] = y[8 * n - 8 + j]
        BY <2>3, <4>1
      <4>3. QED
        BY <2>2, <3>1, <4>2
    <3>3. y[i] = cmd[i]
      BY <1>2, <2>4
    <3>4. QED
      BY <3>2, <3>3
  <2>10. IsPrefix(got, cmd)
    <3>1. PICK a : a = SubSeq(cmd, 1, m)
      OBVIOUS
    <3>2. a \in Seq(Letter) /\ Len(a) = m /\ \A i \in 1 .. m : a[i] = cmd[i]
      <4>1. m \in 0 .. Len(cmd)
        BY <1>1, <2>8
      <4>2. QED
        BY <3>1, <4>1, FirstOf
    <3>3. \A i \in 1 .. m : a[i] = got[i]
      <4>1. ASSUME NEW i \in 1 .. m PROVE a[i] = got[i]
        <5>1. i \in 1 .. l
          BY <2>8
        <5>2. QED
          BY <1>2, <2>7, <3>2, <5>1
      <4>2. QED
        BY <4>1
    <3>4. a = got
      BY <2>7, <3>2, <3>3, SeqEqual
    <3>5. SubSeq(got, 1, m) = got
      BY <2>7, SubSeqFull
    <3>6. QED
      BY <1>1, <2>7, <2>8, <3>1, <3>4, <3>5 DEF IsPrefix
  <2>11. IsPadding(Last(cmd)) \/ got = cmd
    <3>1. CASE m = l
      <4>1. \A i \in 1 .. Len(got) : got[i] = cmd[i]
        BY <1>2, <2>7, <3>1
      <4>2. QED
        BY <1>1, <2>7, <3>1, <4>1, SeqEqual
    <3>2. CASE m # l
      <4>1. l \in m + 1 .. l
        BY <2>8, <3>2
      <4>2. QED
        BY <1>1, <2>9, <4>1 DEF Last
    <3>3. QED
      BY <3>1, <3>2
  <2>12. QED
    BY <1>1, <2>5, <2>7, <2>9, <2>10, <2>11 DEF Arrives
<1>10. QED
  BY <1>8, <1>9

-----------------------------------------------------------------------------
(* The frame around a cipher text. *)
LEMMA XorByteIs ==
  ASSUME NEW a \in Byte, NEW b \in Byte
  PROVE  XorBytes(a, b) \in Byte /\ XorBytes(a, a) = 0
<1>1. ASSUME NEW c \in Byte
      PROVE  \E x \in Word(8) : /\ x = XorBits(Bits(<<a>>), Bits(<<c>>)) /\ Bytes(x)[1] \in Byte
                                /\ c = a => Bytes(x)[1] = 0
  <2>0. 1 \in Nat /\ 8 * 1 = 8 /\ 8 \in Nat /\ 1 \in 1 .. 1 /\ 8 * 1 - 8 = 0
    OBVIOUS
  <2>1. <<a>> \in Text(1) /\ <<c>> \in Text(1)
    BY DEF Text
  <2>2. Bits(<<a>>) \in Word(8) /\ Bits(<<c>>) \in Word(8)
    <3>1. Bits(<<a>>) \in Word(8 * 1) /\ Bits(<<c>>) \in Word(8 * 1)
      BY <2>0, <2>1, BitsAre
    <3>2. QED
      BY <2>0, <3>1
  <2>3. PICK u \in Word(8) : u = Bits(<<a>>)
    BY <2>2
  <2>4. PICK v \in Word(8) : v = Bits(<<c>>)
    BY <2>2
  <2>5. PICK x : x = [i \in 1 .. 8 |-> (u[i] + v[i]) % 2]
    OBVIOUS
  <2>6. \A i \in 1 .. 8 : u[i] \in {0, 1} /\ v[i] \in {0, 1}
    BY DEF Word
  <2>7. \A i \in 1 .. 8 : x[i] = (u[i] + v[i]) % 2 /\ x[i] \in {0, 1}
    BY <2>5, <2>6
  <2>8. x \in Word(8)
    BY <2>5, <2>7 DEF Word
  <2>9. x = XorBits(u, v)
    <3>1. DOMAIN u = 1 .. 8
      BY DEF Word
    <3>2. Tuple(x) = x
      BY <2>0, <2>8, WordIs DEF Word
    <3>3. QED
      BY <2>5, <3>1, <3>2 DEF XorBits
  <2>10. Bytes(x) \in Text(1) /\ Bytes(x)[1] = Sum8(x, 0)
    <3>1. x \in Word(8 * 1)
      BY <2>0, <2>8
    <3>2. Bytes(x) \in Text(1) /\ \A i \in 1 .. 1 : Bytes(x)[i] = Sum8(x, 8 * i - 8)
      BY <2>0, <3>1, BytesAre
    <3>3. QED
      BY <2>0, <3>2
  <2>11. Bytes(x)[1] \in Byte
    BY <2>0, <2>10 DEF Text
  <2>12. ASSUME c = a PROVE Bytes(x)[1] = 0
    <3>1. u = v
      BY <2>3, <2>4, <2>12
    <3>2. \A i \in 1 .. 8 : x[i] = 0
      BY <2>6, <2>7, <3>1
    <3>3. Sum8(x, 0) = 0
      BY <3>2 DEF Sum8
    <3>4. QED
      BY <2>10, <3>3
  <2>13. QED
    BY <2>3, <2>4, <2>8, <2>9, <2>11, <2>12
<1>2. XorBytes(a, b) \in Byte
  BY <1>1 DEF XorBytes
<1>3. XorBytes(a, a) = 0
  BY <1>1 DEF XorBytes
<1>4. QED
  BY <1>2, <1>3

IsSums(t, bytes) ==
  /\ t \in [0 .. Len(bytes) -> Byte]
  /\ t[0] = 0
  /\ \A k \in 1 .. Len(bytes) : t[k] = XorBytes(t[k - 1], bytes[k])

SumsFrom(t, bytes) ==
  t = [n \in 0 .. Len(bytes) |-> IF n = 0 THEN 0 ELSE XorBytes(t[n - 1], bytes[n])]

LEMMA SumsAre ==
  ASSUME NEW bytes \in Seq(Byte)
  PROVE  \E t : IsSums(t, bytes) /\ CheckSum(bytes) = t[Len(bytes)]
<1>1. PICK l \in Nat : l = Len(bytes)
  OBVIOUS
<1>2. 0 \in Byte
  BY DEF Byte
<1>3. PICK G : G = [k \in 1 .. l |-> [x \in Byte |-> XorBytes(x, bytes[k])]]
  OBVIOUS
<1>4. G \in [1 .. l -> [Byte -> Byte]]
  <2>1. ASSUME NEW k \in 1 .. l, NEW x \in Byte PROVE XorBytes(x, bytes[k]) \in Byte
    <3>1. PICK b \in Byte : b = bytes[k]
      BY <1>1
    <3>2. XorBytes(x, b) \in Byte
      BY XorByteIs
    <3>3. QED
      BY <3>1, <3>2
  <2>2. QED
    BY <1>3, <2>1
<1>5. PICK g \in [0 .. l -> Byte] : Steps(g, l, 0, G)
  BY <1>2, <1>4, StepsExist
<1>6. SumsFrom(g, bytes)
  <2>1. ASSUME NEW k \in 0 .. l
        PROVE  (IF k = 0 THEN 0 ELSE G[k][g[k - 1]]) = IF k = 0 THEN 0 ELSE XorBytes(g[k - 1], bytes[k])
    <3>1. CASE k = 0
      BY <3>1
    <3>2. CASE k # 0
      <4>1. k \in 1 .. l /\ k - 1 \in 0 .. l
        BY <3>2
      <4>2. PICK x \in Byte : x = g[k - 1]
        BY <1>5, <4>1
      <4>3. G[k][x] = XorBytes(x, bytes[k])
        BY <1>3, <4>1
      <4>4. QED
        BY <3>2, <4>2, <4>3
    <3>3. QED
      BY <3>1, <3>2
  <2>2. g = [k \in 0 .. l |-> IF k = 0 THEN 0 ELSE XorBytes(g[k - 1], bytes[k])]
    BY <1>5, <2>1 DEF Steps
  <2>3. QED
    BY <1>1, <2>2 DEF SumsFrom
<1>7. PICK t : t = CHOOSE x : SumsFrom(x, bytes)
  OBVIOUS
<1>8. SumsFrom(t, bytes)
  BY <1>6, <1>7
<1>9. CheckSum(bytes) = t[Len(bytes)]
  BY <1>7 DEF CheckSum, XorAll, SumsFrom
<1>10. t[0] = 0 /\ \A k \in 1 .. l : t[k] = XorBytes(t[k - 1], bytes[k])
  BY <1>1, <1>8 DEF SumsFrom
<1>11. \A k \in 0 .. l : t[k] \in Byte
  <2>1. PICK T : T = {k \in 0 .. l : t[k] \notin Byte}
    OBVIOUS
  <2>2. CASE T # {}
    <3>1. T \subseteq Nat
      BY <2>1
    <3>2. PICK k \in T : \A m \in T : k <= m
      BY <2>2, <3>1, Least
    <3>3. k \in 0 .. l /\ t[k] \notin Byte /\ k # 0
      BY <1>2, <1>10, <2>1
    <3>4. k \in 1 .. l /\ k - 1 \in 0 .. l /\ k - 1 \notin T
      BY <3>2, <3>3
    <3>5. PICK x \in Byte : x = t[k - 1]
      BY <2>1, <3>4
    <3>6. PICK b \in Byte : b = bytes[k]
      BY <1>1, <3>4
    <3>7. XorBytes(x, b) \in Byte
      BY XorByteIs
    <3>8. QED
      BY <1>10, <3>3, <3>4, <3>5, <3>6, <3>7
  <2>3. QED
    BY <2>1, <2>2
<1>12. t \in [0 .. l -> Byte]
  <2>1. t = [k \in 0 .. l |-> t[k]]
    BY <1>1, <1>8 DEF SumsFrom
  <2>2. QED
    BY <1>11, <2>1
<1>13. IsSums(t, bytes)
  BY <1>1, <1>10, <1>12 DEF IsSums
<1>14. QED
  BY <1>9, <1>13

(* With its check byte behind it a text adds up to nothing. *)
LEMMA CheckedIs ==
  ASSUME NEW bytes \in Seq(Byte)
  PROVE  /\ CheckSum(bytes) \in Byte
         /\ CheckSum(Checked(bytes)) = 0
<1>1. PICK l \in Nat : l = Len(bytes) /\ l \in 0 .. l
  OBVIOUS
<1>2. PICK s : IsSums(s, bytes) /\ CheckSum(bytes) = s[l]
  BY <1>1, SumsAre
<1>3. PICK c \in Byte : c = CheckSum(bytes) /\ c = s[l]
  BY <1>1, <1>2 DEF IsSums
<1>4. PICK y : y = Append(bytes, c)
  OBVIOUS
<1>5. y \in Seq(Byte) /\ Len(y) = l + 1 /\ y[l + 1] = c /\ \A i \in 1 .. l : y[i] = bytes[i]
  <2>1. y \in Seq(Byte) /\ Len(y) = Len(bytes) + 1
    BY <1>4, AppendProperties
  <2>2. \A i \in 1 .. l : y[i] = bytes[i]
    BY <1>1, <1>4, AppendProperties
  <2>3. y[l + 1] = c
    BY <1>1, <1>4, AppendProperties
  <2>4. QED
    BY <1>1, <2>1, <2>2, <2>3
<1>6. PICK t : IsSums(t, y) /\ CheckSum(y) = t[l + 1]
  BY <1>5, SumsAre
<1>7. t[0] = 0 /\ \A k \in 1 .. l + 1 : t[k] = XorBytes(t[k - 1], y[k])
  BY <1>5, <1>6 DEF IsSums
<1>8. s[0] = 0 /\ \A k \in 1 .. l : s[k] = XorBytes(s[k - 1], bytes[k])
  BY <1>1, <1>2 DEF IsSums
<1>9. \A k \in 0 .. l : t[k] = s[k]
  <2>1. PICK T : T = {k \in 0 .. l : t[k] # s[k]}
    OBVIOUS
  <2>2. CASE T # {}
    <3>1. T \subseteq Nat
      BY <2>1
    <3>2. PICK k \in T : \A m \in T : k <= m
      BY <2>2, <3>1, Least
    <3>3. k \in 0 .. l /\ t[k] # s[k] /\ k # 0
      BY <1>7, <1>8, <2>1
    <3>4. k \in 1 .. l /\ k \in 1 .. l + 1 /\ k - 1 \in 0 .. l /\ k - 1 \notin T
      BY <3>2, <3>3
    <3>5. t[k - 1] = s[k - 1]
      BY <2>1, <3>4
    <3>6. QED
      BY <1>5, <1>7, <1>8, <3>3, <3>4, <3>5
  <2>3. QED
    BY <2>1, <2>2
<1>10. t[l + 1] = XorBytes(c, c)
  <2>1. l + 1 \in 1 .. l + 1 /\ l + 1 - 1 = l
    OBVIOUS
  <2>2. QED
    BY <1>1, <1>3, <1>5, <1>7, <1>9, <2>1
<1>11. QED
  BY <1>3, <1>4, <1>6, <1>10, XorByteIs DEF Checked

Framed(frame, load) ==
  /\ Len(frame) = frame[2] * 256 + frame[3] + 4
  /\ CheckSum(frame) = 0
  /\ SubSeq(frame, 4, Len(frame) - 1) = load

LEMMA FrameIs ==
  ASSUME NEW load \in Seq(Byte), NEW a \in Byte, NEW b \in Byte, Len(load) = a * 256 + b
  PROVE  Framed(Checked(<<254, a, b>> \o load), load)
<1>1. PICK l \in Nat : l = Len(load)
  OBVIOUS
<1>4. l = a * 256 + b
  BY <1>1
<1>5. PICK h : h = <<254, a, b>>
  OBVIOUS
<1>6. h \in Seq(Byte) /\ Len(h) = 3 /\ h[2] = a /\ h[3] = b
  <2>1. 254 \in Byte
    BY DEF Byte
  <2>2. QED
    BY <1>5, <2>1
<1>7. PICK y : y = h \o load
  OBVIOUS
<1>8. /\ y \in Seq(Byte) /\ Len(y) = 3 + l
      /\ \A i \in 1 .. 3 + l : y[i] = IF i <= 3 THEN h[i] ELSE load[i - 3]
  <2>0. /\ h \o load \in Seq(Byte) /\ Len(h \o load) = Len(h) + Len(load)
        /\ \A i \in 1 .. Len(h) + Len(load) :
             (h \o load)[i] = IF i <= Len(h) THEN h[i] ELSE load[i - Len(h)]
    BY <1>6, ConcatProperties, ZenonT(40)
  <2>1. /\ y \in Seq(Byte) /\ Len(y) = Len(h) + Len(load)
        /\ \A i \in 1 .. Len(h) + Len(load) : y[i] = IF i <= Len(h) THEN h[i] ELSE load[i - Len(h)]
    BY <1>7, <2>0
  <2>2. QED
    BY <1>1, <1>6, <2>1
<1>9. PICK frame : frame = Checked(y) /\ frame = Checked(<<254, a, b>> \o load)
  BY <1>5, <1>7
<1>10. PICK c \in Byte : c = CheckSum(y) /\ CheckSum(Checked(y)) = 0
  BY <1>8, CheckedIs
<1>11. frame = Append(y, c)
  BY <1>9, <1>10 DEF Checked
<1>12. frame \in Seq(Byte) /\ Len(frame) = 3 + l + 1 /\ \A i \in 1 .. 3 + l : frame[i] = y[i]
  <2>0. /\ Append(y, c) \in Seq(Byte) /\ Len(Append(y, c)) = Len(y) + 1
        /\ \A i \in 1 .. Len(y) : Append(y, c)[i] = y[i]
    BY <1>8, AppendProperties
  <2>1. frame \in Seq(Byte) /\ Len(frame) = Len(y) + 1
    BY <1>11, <2>0
  <2>2. \A i \in 1 .. Len(y) : frame[i] = y[i]
    BY <1>11, <2>0
  <2>3. QED
    BY <1>8, <2>1, <2>2
<1>13. frame[2] = a /\ frame[3] = b
  <2>1. 2 \in 1 .. 3 + l /\ 3 \in 1 .. 3 + l /\ 2 <= 3 /\ 3 <= 3
    OBVIOUS
  <2>2. QED
    BY <1>6, <1>8, <1>12, <2>1
<1>14. Len(frame) = frame[2] * 256 + frame[3] + 4
  BY <1>4, <1>12, <1>13
<1>15. PICK z : z = SubSeq(frame, 4, 3 + l)
  OBVIOUS
<1>16. z \in Seq(Byte) /\ Len(z) = l /\ \A i \in 1 .. l : z[i] = frame[4 + i - 1]
  <2>1. \A i \in 4 .. 3 + l : frame[i] \in Byte
    BY <1>12
  <2>2. 4 \in Int /\ 3 + l \in Int
    OBVIOUS
  <2>3. /\ z \in Seq(Byte) /\ Len(z) = IF 4 <= 3 + l THEN 3 + l - 4 + 1 ELSE 0
        /\ \A i \in 1 .. 3 + l - 4 + 1 : z[i] = frame[4 + i - 1]
    BY <1>15, <2>1, <2>2, SubSeqProperties
  <2>4. 3 + l - 4 + 1 = l
    OBVIOUS
  <2>5. QED
    BY <2>3, <2>4
<1>17. ASSUME NEW i \in 1 .. l PROVE z[i] = load[i]
  <2>1. PICK k \in 1 .. 3 + l : k = 4 + i - 1 /\ ~(k <= 3) /\ k - 3 = i
    OBVIOUS
  <2>2. QED
    BY <1>8, <1>12, <1>16, <2>1
<1>18. z = load
  BY <1>1, <1>16, <1>17, SeqEqual
<1>19. 3 + l = Len(frame) - 1
  BY <1>12
<1>20. CheckSum(frame) = 0
  BY <1>9, <1>10
<1>21. SubSeq(frame, 4, Len(frame) - 1) = load
  BY <1>15, <1>18, <1>19
<1>22. Framed(frame, load)
  BY <1>14, <1>20, <1>21 DEF Framed
<1>23. QED
  BY <1>9, <1>22

-----------------------------------------------------------------------------
(* All of the way. *)
LEMMA CommandArrives ==
  ASSUME RoundFunction, NEW key \in Seq(Byte), CheckKey(key),
         NEW cmd \in Seq(Letter), cmd # <<>>, Len(cmd) <= 744
  PROVE  CommandSurvives(key, cmd)
<1>1. PICK n \in Nat \ {0}, w \in 0 .. 7 : Fills(Padded(cmd), cmd, n, w)
  BY PaddedIs
<1>2. PICK y : y = Padded(cmd)
  OBVIOUS
<1>3. Fills(y, cmd, n, w) /\ y \in Text(8 * n) /\ 8 * n \in Nat /\ n \in Nat
  <2>1. Fills(y, cmd, n, w) /\ y \in [1 .. 8 * n -> Letter]
    BY <1>1, <1>2 DEF Fills
  <2>2. Letter \subseteq Byte
    BY DEF Letter, Byte
  <2>3. y \in Text(8 * n)
    BY <2>1, <2>2 DEF Text
  <2>4. QED
    BY <2>1, <2>3
<1>4. PICK x : x = FlattenSeq(Enciphered(key, y))
  OBVIOUS
<1>5. x \in Text(8 * n) /\ Deciphered(key, x) = [i \in 1 .. n |-> Block(y, i)]
  BY <1>3, <1>4, DecipherUndoes
<1>6. Len(x) = 8 * n /\ Len(x) % 8 = 0
  <2>1. Len(x) = 8 * n
    BY <1>3, <1>5, WordIs DEF Text
  <2>2. (8 * n) % 8 = 0
    OBVIOUS
  <2>3. QED
    BY <2>1, <2>2
<1>7. PICK load : load = Base64Encode(x)
  OBVIOUS
<1>8. Base64Decode(load) = x
  BY <1>3, <1>5, <1>7, Base64Back
<1>9. load \in Seq(Byte) /\ Len(load) < 256 * 256
  <2>1. load \in Seq(Coding) /\ Len(load) = Line((8 * n) \div 3) + IF (8 * n) % 3 = 0 THEN 0 ELSE 4
    BY <1>3, <1>5, <1>7, EncodeIs DEF Encodes
  <2>2. 8 * n <= 751
    <3>1. 8 * n = Len(cmd) + w /\ Len(cmd) \in Nat
      BY <1>1 DEF Fills
    <3>2. QED
      BY <3>1
  <2>3. PICK g \in Nat : g = (8 * n) \div 3 /\ g <= 250
    BY <2>2
  <2>4. Line(g) <= 1026
    <3>1. PICK q \in Nat : q = g \div 19 /\ q <= 13
      BY <2>3
    <3>2. QED
      BY <2>3, <3>1 DEF Line
  <2>5. Line(g) \in Nat
    BY LineIs
  <2>6. Coding \subseteq Byte
    BY DEF Coding, Byte
  <2>7. load \in Seq(Byte)
    BY <2>1, <2>6, SeqMonotonic
  <2>8. QED
    BY <2>1, <2>3, <2>4, <2>5, <2>7
<1>10. AlgoEncrypt(key, cmd).out = load
  BY <1>2, <1>4, <1>7 DEF AlgoEncrypt, Result, DesEncrypt
<1>11. PICK frame : frame = MakeFrame(key, cmd)
  OBVIOUS
<1>12. Framed(frame, load)
  <2>1. PICK l \in Nat : l = Len(load) /\ l < 256 * 256
    BY <1>9
  <2>2. PICK a \in Byte : a = (l \div 256) % 256
    BY DEF Byte
  <2>3. PICK b \in Byte : b = l % 256
    BY DEF Byte
  <2>4. l = a * 256 + b
    <3>1. PICK q \in Nat : q = l \div 256 /\ q < 256
      BY <2>1
    <3>2. l = q * 256 + b
      BY <2>3, <3>1
    <3>3. q % 256 = q
      BY <3>1
    <3>4. QED
      BY <2>2, <3>1, <3>2, <3>3
  <2>5. frame = Checked(<<254, a, b>> \o load)
    BY <1>10, <1>11, <2>1, <2>2, <2>3 DEF MakeFrame
  <2>6. Len(load) = a * 256 + b
    BY <2>1, <2>4
  <2>7. QED
    BY <1>9, <2>5, <2>6, FrameIs
<1>13. PICK blocks : blocks = [i \in 1 .. n |-> Block(y, i)]
  OBVIOUS
<1>14. Arrives(cmd, Joined(blocks)) /\ IsPrefix(cmd, OsiJoined(blocks))
  BY <1>3, <1>13, TextArrives
<1>15. TakeFrame(key, frame) = Joined(blocks)
  <2>1. DesDecrypt(key, load) = Joined(blocks)
    BY <1>5, <1>6, <1>8, <1>13 DEF DesDecrypt
  <2>2. QED
    BY <1>12, <2>1 DEF Framed, TakeFrame, AlgoDecrypt, Result
<1>16. OsiDesDecrypt(key, SubSeq(frame, 4, Len(frame) - 1)) = OsiJoined(blocks)
  BY <1>5, <1>6, <1>8, <1>12, <1>13 DEF Framed, OsiDesDecrypt
<1>17. QED
  BY <1>11, <1>12, <1>14, <1>15, <1>16 DEF Framed, CommandSurvives, FrameArrives

(* A command is a C string of no more than its longest. *)
TextIsCommand ==
  /\ text = [kind |-> text.kind, chars |-> text.chars]
  /\ text.kind = "command" => text.chars \in Seq(Letter) /\ Len(text.chars) <= Longest["command"]

LEMMA CommandInvariance == TextSpec => []TextIsCommand
<1>1. TextInit => TextIsCommand
  <2> SUFFICES ASSUME TextInit PROVE TextIsCommand
    OBVIOUS
  <2>1. PICK kind : text = [kind |-> kind, chars |-> <<>>]
    BY DEF TextInit
  <2>2. <<>> \in Seq(Letter) /\ Len(<<>>) = 0
    OBVIOUS
  <2>3. 0 <= Longest["command"]
    BY CommandsAssumption
  <2>4. QED
    BY <2>1, <2>2, <2>3 DEF TextIsCommand
<1>2. TextIsCommand /\ [TextGrows]_text => TextIsCommand'
  <2> SUFFICES ASSUME TextIsCommand, [TextGrows]_text PROVE TextIsCommand'
    OBVIOUS
  <2>1. CASE TextGrows
    <3>1. PICK kind, chars : kind = text.kind /\ chars = text.chars /\ text = [kind |-> kind, chars |-> chars]
      BY DEF TextIsCommand
    <3>2. Len(chars) < Longest[kind]
      BY <2>1, <3>1 DEF TextGrows
    <3>3. PICK c \in Letters(kind, Len(chars) + 1) : text' = [text EXCEPT !.chars = Append(@, c)]
      BY <2>1, <3>1 DEF TextGrows
    <3>4. text' = [kind |-> kind, chars |-> Append(chars, c)]
      BY <3>1, <3>3
    <3>5. ASSUME kind = "command"
          PROVE  Append(chars, c) \in Seq(Letter) /\ Len(Append(chars, c)) <= Longest["command"]
      <4>1. chars \in Seq(Letter)
        BY <3>1, <3>5 DEF TextIsCommand
      <4>0. PICK m \in 0 .. 743 : m = Longest["command"]
        BY CommandsAssumption
      <4>2. PICK l \in Nat : l = Len(chars) /\ m = Longest["command"] /\ l < m
        BY <3>2, <3>5, <4>0, <4>1
      <4>3. l + 1 \in 1 .. Longest["command"] /\ l + 1 <= m
        BY <4>2
      <4>4. c \in Letter
        BY <3>3, <3>5, <4>2, <4>3, CommandsAssumption DEF Letter
      <4>5. Append(chars, c) \in Seq(Letter) /\ Len(Append(chars, c)) = l + 1
        BY <4>1, <4>2, <4>4, AppendProperties
      <4>6. QED
        BY <4>2, <4>3, <4>5
    <3>6. QED
      BY <3>4, <3>5 DEF TextIsCommand
  <2>2. CASE UNCHANGED text
    BY <2>2 DEF TextIsCommand
  <2>3. QED
    BY <2>1, <2>2
<1>3. QED
  BY <1>1, <1>2, PTL DEF TextSpec

(* A command that main.cpp encrypts and puts into a frame is taken out of it by every receiver
   as it was sent, whatever the command, its last character and the key: the length field is
   that of the frame, the check byte makes the sum zero, base64 is undone, the three passes of
   DES are undone, and only what looks like padding is cut off. *)
THEOREM CommandsArrive ==
  ASSUME RoundFunction
  PROVE  TextSpec => []CommandsSurvive
<1>1. TextIsCommand => CommandsSurvive
  <2> SUFFICES ASSUME TextIsCommand, text.kind = "command", NEW key \in Keys, NEW c \in Endings
               PROVE  CommandSurvives(key, Append(text.chars, c))
    BY DEF CommandsSurvive
  <2>0. PICK m \in 0 .. 743 : m = Longest["command"]
    BY CommandsAssumption
  <2>1. text.chars \in Seq(Letter) /\ Len(text.chars) <= 743
    <3>1. text.chars \in Seq(Letter) /\ Len(text.chars) <= m
      BY <2>0 DEF TextIsCommand
    <3>2. Len(text.chars) \in Nat
      BY <3>1
    <3>3. QED
      BY <3>1, <3>2
  <2>2. c \in Letter
    BY CommandsAssumption DEF Letter
  <2>3. PICK cmd : cmd = Append(text.chars, c)
    OBVIOUS
  <2>4. cmd \in Seq(Letter) /\ cmd # <<>> /\ Len(cmd) <= 744
    BY <2>1, <2>2, <2>3, AppendProperties
  <2>5. key \in Seq(Byte) /\ CheckKey(key)
    BY KeysAssumption DEF Byte
  <2>6. QED
    BY <2>3, <2>4, <2>5, CommandArrives
<1>2. QED
  BY <1>1, CommandInvariance, PTL

-----------------------------------------------------------------------------

USE DataAssumption, ItemsAssumption

-----------------------------------------------------------------------------
(* What adding and taking an element at either end makes of a queue, element by
   element. *)
LEMMA InFront ==
  ASSUME NEW S, NEW s \in Seq(S), NEW e \in S, NEW t, t = <<e>> \o s
  PROVE  /\ t \in Seq(S) /\ Len(t) = Len(s) + 1 /\ DOMAIN t = 1 .. Len(s) + 1
         /\ Len(s) \in Nat /\ DOMAIN s = 1 .. Len(s)
         /\ t[1] = e
         /\ \A i \in 2 .. Len(s) + 1 : t[i] = s[i - 1]
         /\ \A i \in 1 .. Len(s) : t[i + 1] = s[i]
  OBVIOUS

LEMMA AtBack ==
  ASSUME NEW S, NEW s \in Seq(S), NEW e \in S, NEW t, t = Append(s, e)
  PROVE  /\ t \in Seq(S) /\ Len(t) = Len(s) + 1 /\ DOMAIN t = 1 .. Len(s) + 1
         /\ Len(s) \in Nat /\ DOMAIN s = 1 .. Len(s)
         /\ t[Len(s) + 1] = e
         /\ \A i \in 1 .. Len(s) : t[i] = s[i]
  OBVIOUS

LEMMA FrontGone ==
  ASSUME NEW S, NEW s \in Seq(S), s # <<>>, NEW t, t = SubSeq(s, 2, Len(s))
  PROVE  /\ t \in Seq(S) /\ Len(t) = Len(s) - 1 /\ DOMAIN t = 1 .. Len(s) - 1
         /\ Len(s) \in Nat \ {0} /\ DOMAIN s = 1 .. Len(s)
         /\ \A i \in 1 .. Len(s) - 1 : t[i] = s[i + 1]
<1>1. Len(s) \in Nat \ {0} /\ DOMAIN s = 1 .. Len(s)
  OBVIOUS
<1>2. \A i \in 2 .. Len(s) : s[i] \in S
  BY <1>1
<1>3. /\ t \in Seq(S) /\ Len(t) = Len(s) - 1
      /\ \A i \in 1 .. Len(s) - 1 : t[i] = s[2 + i - 1]
  BY <1>1, <1>2, SubSeqProperties
<1>4. \A i \in 1 .. Len(s) - 1 : 2 + i - 1 = i + 1
  BY <1>1
<1>5. DOMAIN t = 1 .. Len(s) - 1
  BY <1>3
<1>6. QED
  BY <1>1, <1>3, <1>4, <1>5

LEMMA BackGone ==
  ASSUME NEW S, NEW s \in Seq(S), s # <<>>, NEW t, t = SubSeq(s, 1, Len(s) - 1)
  PROVE  /\ t \in Seq(S) /\ Len(t) = Len(s) - 1 /\ DOMAIN t = 1 .. Len(s) - 1
         /\ Len(s) \in Nat \ {0} /\ DOMAIN s = 1 .. Len(s)
         /\ \A i \in 1 .. Len(s) - 1 : t[i] = s[i]
<1>1. Len(s) \in Nat \ {0} /\ DOMAIN s = 1 .. Len(s)
  OBVIOUS
<1>2. \A i \in 1 .. Len(s) - 1 : s[i] \in S
  BY <1>1
<1>3. /\ t \in Seq(S) /\ Len(t) = Len(s) - 1
      /\ \A i \in 1 .. Len(s) - 1 : t[i] = s[1 + i - 1]
  BY <1>1, <1>2, SubSeqProperties
<1>4. \A i \in 1 .. Len(s) - 1 : 1 + i - 1 = i
  BY <1>1
<1>5. DOMAIN t = 1 .. Len(s) - 1
  BY <1>3
<1>6. QED
  BY <1>1, <1>3, <1>4, <1>5

-----------------------------------------------------------------------------

ListInv == ListTypeOK /\ LinksAgree /\ HoldsAllocated

(* The empty list satisfies the invariant. *)
LEMMA InitListInv == ListInit => ListInv
<1> SUFFICES ASSUME ListInit PROVE ListInv
  OBVIOUS
<1>1. ListTypeOK
  BY DEF ListInit, ListTypeOK, Pointers
<1>2. chain = <<>> /\ DOMAIN chain = {} /\ Len(chain) = 0
  BY DEF ListInit
<1>3. LinksAgree /\ HoldsAllocated
  BY <1>2 DEF ListInit, LinksAgree, HoldsAllocated
<1>4. QED
  BY <1>1, <1>3 DEF ListInv

LEMMA PushFrontKeeps ==
  ASSUME ListInv, NEW n \in Items, NEW d \in Data, PushFront(n, d)
  PROVE  ListInv'
<1>1. /\ phase = "open" /\ phase' = "open" /\ n \notin allocated
      /\ allocated' = allocated \union {n}
      /\ head' = n /\ tail' = (IF tail = NULL THEN n ELSE tail)
      /\ size' = size + 1 /\ chain' = <<n>> \o chain
      /\ UNCHANGED <<out, pi>>
  BY DEF PushFront, Fresh
<1>2. chain \in Seq(Items)
  BY DEF ListInv, ListTypeOK
<1>3. /\ chain' \in Seq(Items) /\ Len(chain') = Len(chain) + 1
      /\ DOMAIN chain' = 1 .. Len(chain) + 1
      /\ Len(chain) \in Nat /\ DOMAIN chain = 1 .. Len(chain)
      /\ chain'[1] = n
      /\ \A i \in 2 .. Len(chain) + 1 : chain'[i] = chain[i - 1]
      /\ \A i \in 1 .. Len(chain) : chain'[i + 1] = chain[i]
  BY <1>1, <1>2, InFront
<1>4. ListTypeOK'
  <2>1. item' \in [Items -> [prev : Pointers, next : Pointers, data : Data \union {NoData}]]
    BY ZenonT(40) DEF ListInv, ListTypeOK, Pointers, PushFront
  <2>2. QED
    BY <1>1, <1>3, <2>1 DEF ListInv, ListTypeOK, Pointers
<1>5. /\ \A i \in DOMAIN chain : chain[i] \in allocated /\ chain[i] # n
      /\ \A i, j \in DOMAIN chain : chain[i] = chain[j] => i = j
  BY <1>1 DEF ListInv, HoldsAllocated
<1>6. HoldsAllocated'
  <2>1. \A i, j \in DOMAIN chain' : chain'[i] = chain'[j] => i = j
    <3>1. \A i \in DOMAIN chain' \ {1} :
             i - 1 \in DOMAIN chain /\ chain'[i] = chain[i - 1] /\ chain'[i] # n
      BY <1>3, <1>5
    <3>2. \A i, j \in DOMAIN chain' \ {1} : i - 1 = j - 1 => i = j
      BY <1>3
    <3>3. QED
      BY <1>3, <1>5, <3>1, <3>2
  <2>2. \A m \in allocated : \E i \in DOMAIN chain : chain[i] = m
    BY <1>1 DEF ListInv, HoldsAllocated
  <2>3. \A m \in allocated' : \E i \in DOMAIN chain' : chain'[i] = m
    <3>1. \A i \in DOMAIN chain : i + 1 \in DOMAIN chain' /\ chain'[i + 1] = chain[i]
      BY <1>3
    <3>2. 1 \in DOMAIN chain'
      BY <1>3
    <3>3. \A m \in allocated : \E i \in DOMAIN chain' : chain'[i] = m
      BY <2>2, <3>1
    <3>4. QED
      BY <1>1, <1>3, <3>2, <3>3
  <2>4. \A i \in DOMAIN chain' : chain'[i] \in allocated'
    <3>1. \A i \in DOMAIN chain' \ {1} : i - 1 \in DOMAIN chain /\ chain'[i] = chain[i - 1]
      BY <1>3
    <3>2. QED
      BY <1>1, <1>3, <1>5, <3>1
  <2>5. {chain'[i] : i \in DOMAIN chain'} = allocated'
    BY <2>3, <2>4
  <2>6. QED
    BY <2>1, <2>5 DEF HoldsAllocated
<1>7. LinksAgree'
  <2>1. /\ Len(chain) = size
        /\ head = IF chain = <<>> THEN NULL ELSE chain[1]
        /\ tail = IF chain = <<>> THEN NULL ELSE chain[Len(chain)]
        /\ \A i \in DOMAIN chain :
             /\ item[chain[i]].next = IF i = Len(chain) THEN NULL ELSE chain[i + 1]
             /\ item[chain[i]].prev = IF i = 1 THEN NULL ELSE chain[i - 1]
    BY <1>1 DEF ListInv, LinksAgree
  <2>2. /\ item'[n].prev = NULL /\ item'[n].next = head
        /\ \A m \in Items \ {n} :
             /\ item'[m].next = item[m].next
             /\ m # head => item'[m].prev = item[m].prev
             /\ m = head => item'[m].prev = n
    BY DEF PushFront, ListInv, ListTypeOK
  <2>3. chain # <<>> => 1 \in DOMAIN chain /\ Len(chain) \in DOMAIN chain
    BY <1>2, <1>3
  <2>4. chain' # <<>>
    BY <1>3
  <2>5. tail' = chain'[Len(chain')]
    <3>1. CASE chain = <<>>
      BY <1>1, <1>3, <2>1, <3>1
    <3>2. CASE chain # <<>>
      <4>1. tail = chain[Len(chain)] /\ tail # NULL
        BY <1>2, <2>1, <2>3, <3>2
      <4>2. Len(chain) \in 1 .. Len(chain)
        BY <1>3, <2>3, <3>2
      <4>3. QED
        BY <1>1, <1>3, <4>1, <4>2
    <3>3. QED
      BY <3>1, <3>2
  <2>6. ASSUME NEW i \in DOMAIN chain'
        PROVE  /\ item'[chain'[i]].next = IF i = Len(chain') THEN NULL ELSE chain'[i + 1]
               /\ item'[chain'[i]].prev = IF i = 1 THEN NULL ELSE chain'[i - 1]
    <3>1. CASE i = 1
      <4>1. chain = <<>> => Len(chain') = 1 /\ head = NULL
        BY <1>3, <2>1
      <4>2. chain # <<>> => Len(chain') # 1 /\ head = chain[1] /\ chain'[2] = chain[1]
        BY <1>3, <2>1, <2>3
      <4>3. QED
        BY <1>3, <2>2, <3>1, <4>1, <4>2
    <3>2. CASE i # 1
      <4> DEFINE j == i - 1
      <4>1. j \in DOMAIN chain /\ chain'[i] = chain[j] /\ i = j + 1 /\ j \in Int
        BY <1>3, <3>2
      <4>2. chain[j] \in Items \ {n}
        BY <1>2, <1>5, <4>1
      <4>3. chain # <<>> /\ head = chain[1]
        BY <1>3, <2>1, <4>1
      <4>4. item'[chain[j]].next = IF j = Len(chain) THEN NULL ELSE chain[j + 1]
        BY <2>1, <2>2, <4>1, <4>2
      <4>5. j # Len(chain) => chain'[i + 1] = chain[j + 1]
        BY <1>3, <4>1
      <4>6. item'[chain'[i]].next = IF i = Len(chain') THEN NULL ELSE chain'[i + 1]
        BY <1>3, <4>1, <4>4, <4>5
      <4>7. CASE j = 1
        BY <1>3, <2>2, <4>1, <4>2, <4>3, <4>6, <4>7
      <4>8. CASE j # 1
        <5>1. chain[j] # head
          BY <1>5, <2>3, <4>1, <4>3, <4>8
        <5>2. chain'[i - 1] = chain[j - 1]
          BY <1>3, <4>1, <4>8
        <5>3. item'[chain[j]].prev = chain[j - 1]
          BY <2>1, <2>2, <4>1, <4>2, <4>8, <5>1
        <5>4. QED
          BY <3>2, <4>1, <4>6, <5>2, <5>3
      <4>9. QED
        BY <4>7, <4>8
    <3>3. QED
      BY <3>1, <3>2
  <2>7. Len(chain') = size' /\ head' = chain'[1]
    BY <1>1, <1>3, <2>1
  <2>8. QED
    BY <2>4, <2>5, <2>6, <2>7 DEF LinksAgree
<1>8. QED
  BY <1>4, <1>6, <1>7 DEF ListInv

LEMMA PushBackKeeps ==
  ASSUME ListInv, NEW n \in Items, NEW d \in Data, PushBack(n, d)
  PROVE  ListInv'
<1>1. /\ phase = "open" /\ phase' = "open" /\ n \notin allocated
      /\ allocated' = allocated \union {n}
      /\ tail' = n /\ head' = (IF head = NULL THEN n ELSE head)
      /\ size' = size + 1 /\ chain' = Append(chain, n)
      /\ UNCHANGED <<out, pi>>
  BY DEF PushBack, Fresh
<1>2. chain \in Seq(Items)
  BY DEF ListInv, ListTypeOK
<1> DEFINE l == Len(chain)
<1>3. /\ chain' \in Seq(Items) /\ Len(chain') = l + 1
      /\ DOMAIN chain' = 1 .. l + 1
      /\ l \in Nat /\ DOMAIN chain = 1 .. l
      /\ chain'[l + 1] = n
      /\ \A i \in 1 .. l : chain'[i] = chain[i]
  BY <1>1, <1>2, AtBack
<1>4. ListTypeOK'
  <2>1. item' \in [Items -> [prev : Pointers, next : Pointers, data : Data \union {NoData}]]
    BY ZenonT(40) DEF ListInv, ListTypeOK, Pointers, PushBack
  <2>2. QED
    BY <1>1, <1>3, <2>1 DEF ListInv, ListTypeOK, Pointers
<1>5. /\ \A i \in DOMAIN chain : chain[i] \in allocated /\ chain[i] # n
      /\ \A i, j \in DOMAIN chain : chain[i] = chain[j] => i = j
  BY <1>1 DEF ListInv, HoldsAllocated
<1> HIDE DEF l
<1>6. HoldsAllocated'
  <2>1. /\ \A i \in DOMAIN chain' \ {l + 1} :
             i \in DOMAIN chain /\ chain'[i] = chain[i] /\ chain'[i] # n
        /\ l + 1 \in DOMAIN chain'
        /\ \A i \in DOMAIN chain : i \in DOMAIN chain' /\ chain'[i] = chain[i]
    BY <1>3, <1>5
  <2>2. \A i, j \in DOMAIN chain' : chain'[i] = chain'[j] => i = j
    BY <1>3, <1>5, <2>1
  <2>3. \A m \in allocated : \E i \in DOMAIN chain : chain[i] = m
    BY <1>1 DEF ListInv, HoldsAllocated
  <2>4. \A m \in allocated' : \E i \in DOMAIN chain' : chain'[i] = m
    <3>1. \A m \in allocated : \E i \in DOMAIN chain' : chain'[i] = m
      BY <2>1, <2>3
    <3>2. QED
      BY <1>1, <1>3, <2>1, <3>1
  <2>5. \A i \in DOMAIN chain' : chain'[i] \in allocated'
    BY <1>1, <1>3, <1>5, <2>1
  <2>6. {chain'[i] : i \in DOMAIN chain'} = allocated'
    BY <2>4, <2>5
  <2>7. QED
    BY <2>2, <2>6 DEF HoldsAllocated
<1>7. LinksAgree'
  <2>1. /\ l = size
        /\ head = IF chain = <<>> THEN NULL ELSE chain[1]
        /\ tail = IF chain = <<>> THEN NULL ELSE chain[l]
        /\ \A i \in DOMAIN chain :
             /\ item[chain[i]].next = IF i = l THEN NULL ELSE chain[i + 1]
             /\ item[chain[i]].prev = IF i = 1 THEN NULL ELSE chain[i - 1]
    BY <1>1 DEF ListInv, LinksAgree, l
  <2>2. /\ item'[n].prev = tail /\ item'[n].next = NULL
        /\ \A m \in Items \ {n} :
             /\ item'[m].prev = item[m].prev
             /\ m # tail => item'[m].next = item[m].next
             /\ m = tail => item'[m].next = n
    BY DEF PushBack, ListInv, ListTypeOK
  <2>3. chain # <<>> => 1 \in DOMAIN chain /\ l \in DOMAIN chain
    BY <1>2, <1>3 DEF l
  <2>4. chain = <<>> => l = 0
    BY DEF l
  <2>5. chain' # <<>>
    BY <1>3
  <2>6. head' = chain'[1]
    <3>1. CASE chain = <<>>
      BY <1>1, <1>3, <2>1, <2>4, <3>1
    <3>2. CASE chain # <<>>
      <4>1. head = chain[1] /\ head # NULL
        BY <1>2, <2>1, <2>3, <3>2
      <4>2. 1 \in 1 .. l
        BY <1>3, <2>3, <3>2
      <4>3. QED
        BY <1>1, <1>3, <4>1, <4>2
    <3>3. QED
      BY <3>1, <3>2
  <2>7. ASSUME NEW i \in DOMAIN chain'
        PROVE  /\ item'[chain'[i]].next = IF i = Len(chain') THEN NULL ELSE chain'[i + 1]
               /\ item'[chain'[i]].prev = IF i = 1 THEN NULL ELSE chain'[i - 1]
    <3>1. CASE i = l + 1
      <4>1. chain = <<>> => i = 1 /\ tail = NULL
        BY <2>1, <2>4, <3>1
      <4>2. chain # <<>> => i # 1 /\ tail = chain[l] /\ chain'[i - 1] = chain[l]
        BY <1>3, <2>1, <2>3, <3>1
      <4>3. QED
        BY <1>3, <2>2, <3>1, <4>1, <4>2
    <3>2. CASE i # l + 1
      <4>1. /\ i \in DOMAIN chain /\ chain'[i] = chain[i] /\ i \in 1 .. l
            /\ i # Len(chain')
        BY <1>3, <3>2
      <4>2. chain[i] \in Items \ {n}
        BY <1>2, <1>5, <4>1
      <4>3. chain # <<>> /\ tail = chain[l] /\ l \in DOMAIN chain
        BY <1>3, <2>1, <2>3, <2>4, <4>1
      <4>4. i # 1 => chain'[i - 1] = chain[i - 1]
        BY <1>3, <4>1
      <4>5. item'[chain'[i]].prev = IF i = 1 THEN NULL ELSE chain'[i - 1]
        BY <2>1, <2>2, <4>1, <4>2, <4>4
      <4>6. CASE i = l
        BY <1>3, <2>2, <4>1, <4>2, <4>3, <4>5, <4>6
      <4>7. CASE i # l
        <5>1. chain[i] # tail
          BY <1>5, <4>1, <4>3, <4>7
        <5>2. chain'[i + 1] = chain[i + 1]
          BY <1>3, <4>1, <4>7
        <5>3. item'[chain[i]].next = chain[i + 1]
          BY <2>1, <2>2, <4>1, <4>2, <4>7, <5>1
        <5>4. QED
          BY <4>1, <4>5, <5>2, <5>3
      <4>8. QED
        BY <4>6, <4>7
    <3>3. QED
      BY <3>1, <3>2
  <2>8. Len(chain') = size' /\ tail' = chain'[Len(chain')]
    BY <1>1, <1>3, <2>1
  <2>9. QED
    BY <2>5, <2>6, <2>7, <2>8 DEF LinksAgree
<1>8. QED
  BY <1>4, <1>6, <1>7 DEF ListInv

LEMMA PopFrontKeeps ==
  ASSUME ListInv, PopFront
  PROVE  ListInv'
<1> DEFINE l == Len(chain)
<1>1. /\ phase = "open" /\ phase' = "open" /\ size > 0
      /\ allocated' = allocated \ {head} /\ out' = item[head].data
      /\ head' = item[head].next
      /\ size' = size - 1 /\ tail' = (IF size' = 0 THEN NULL ELSE tail)
      /\ chain' = SubSeq(chain, 2, l)
      /\ UNCHANGED pi
  BY DEF PopFront, WithoutFront
<1>2. /\ l = size
      /\ head = IF chain = <<>> THEN NULL ELSE chain[1]
      /\ tail = IF chain = <<>> THEN NULL ELSE chain[l]
      /\ \A i \in DOMAIN chain :
           /\ item[chain[i]].next = IF i = l THEN NULL ELSE chain[i + 1]
           /\ item[chain[i]].prev = IF i = 1 THEN NULL ELSE chain[i - 1]
  BY <1>1 DEF ListInv, LinksAgree
<1>3. chain \in Seq(Items) /\ chain # <<>>
  <2>1. chain = <<>> => l = 0
    OBVIOUS
  <2>2. QED
    BY <1>1, <1>2, <2>1 DEF ListInv, ListTypeOK
<1>4. /\ chain' \in Seq(Items) /\ Len(chain') = l - 1
      /\ DOMAIN chain' = 1 .. l - 1
      /\ l \in Nat \ {0} /\ DOMAIN chain = 1 .. l
      /\ \A i \in 1 .. l - 1 : chain'[i] = chain[i + 1]
  BY <1>1, <1>3, FrontGone
<1> HIDE DEF l
<1>5. 1 \in DOMAIN chain /\ head = chain[1] /\ head \in Items
  BY <1>2, <1>3, <1>4
<1>6. ListTypeOK'
  <2>1. /\ item[head].next \in Pointers /\ item[head].data \in Data \union {NoData}
    BY <1>5 DEF ListInv, ListTypeOK
  <2>2. item' \in [Items -> [prev : Pointers, next : Pointers, data : Data \union {NoData}]]
    <3> DEFINE Item   == [prev : Pointers, next : Pointers, data : Data \union {NoData}]
               cut(m) == IF m = head' THEN [item[m] EXCEPT !.prev = NULL] ELSE item[m]
    <3>1. item \in [Items -> Item]
      BY DEF ListInv, ListTypeOK
    <3>2. \A m \in Items : cut(m) \in Item
      BY <3>1 DEF Pointers
    <3>3. item' = [m \in Items |-> cut(m)]
      BY DEF PopFront, WithoutFront
    <3> HIDE DEF Item, cut
    <3>4. item' \in [Items -> Item]
      BY <3>2, <3>3
    <3>5. QED
      BY <3>4 DEF Item
  <2>3. QED
    BY <1>1, <1>4, <2>1, <2>2 DEF ListInv, ListTypeOK, Pointers
<1>7. /\ {chain[i] : i \in DOMAIN chain} = allocated
      /\ \A i, j \in DOMAIN chain : chain[i] = chain[j] => i = j
  BY <1>1 DEF ListInv, HoldsAllocated
<1>8. HoldsAllocated'
  <2>1. \A i \in DOMAIN chain' :
           /\ i + 1 \in DOMAIN chain /\ i + 1 # 1 /\ i \in Int
           /\ chain'[i] = chain[i + 1]
    BY <1>4
  <2>2. \A i \in DOMAIN chain \ {1} :
           i - 1 \in DOMAIN chain' /\ chain'[i - 1] = chain[i]
    BY <1>4
  <2>3. \A i, j \in DOMAIN chain' : chain'[i] = chain'[j] => i = j
    BY <1>7, <2>1
  <2>4. \A i \in DOMAIN chain' : chain'[i] \in allocated'
    BY <1>1, <1>5, <1>7, <2>1
  <2>5. \A m \in allocated' : \E i \in DOMAIN chain' : chain'[i] = m
    <3>1. \A m \in allocated' : \E i \in DOMAIN chain \ {1} : chain[i] = m
      BY <1>1, <1>5, <1>7
    <3>2. QED
      BY <2>2, <3>1
  <2>6. {chain'[i] : i \in DOMAIN chain'} = allocated'
    BY <2>4, <2>5
  <2>7. QED
    BY <2>3, <2>6 DEF HoldsAllocated
<1>9. LinksAgree'
  <2>1. \A m \in Items :
           /\ item'[m].next = item[m].next
           /\ m # head' => item'[m].prev = item[m].prev
           /\ m = head' => item'[m].prev = NULL
    BY DEF PopFront, WithoutFront, ListInv, ListTypeOK
  <2>2. head' = IF l = 1 THEN NULL ELSE chain[2]
    BY <1>1, <1>2, <1>5
  <2>3. l = 1 <=> chain' = <<>>
    BY <1>4
  <2>4. head' = IF chain' = <<>> THEN NULL ELSE chain'[1]
    BY <1>4, <2>2, <2>3
  <2>5. tail' = IF chain' = <<>> THEN NULL ELSE chain'[Len(chain')]
    <3>1. l # 1 => chain'[l - 1] = chain[l] /\ tail' = chain[l]
      BY <1>1, <1>2, <1>3, <1>4
    <3>2. l = 1 => tail' = NULL
      BY <1>1, <1>2
    <3>3. QED
      BY <1>4, <2>3, <3>1, <3>2
  <2>6. ASSUME NEW i \in DOMAIN chain'
        PROVE  /\ item'[chain'[i]].next = IF i = Len(chain') THEN NULL ELSE chain'[i + 1]
               /\ item'[chain'[i]].prev = IF i = 1 THEN NULL ELSE chain'[i - 1]
    <3>1. /\ i \in 1 .. l - 1 /\ i + 1 \in DOMAIN chain /\ i + 1 # 1
          /\ chain'[i] = chain[i + 1] /\ chain[i + 1] \in Items
          /\ l # 1
      BY <1>3, <1>4
    <3>2. item'[chain'[i]].next = IF i + 1 = l THEN NULL ELSE chain[i + 2]
      BY <1>2, <2>1, <3>1
    <3>3. i + 1 # l => chain'[i + 1] = chain[i + 2]
      BY <1>4, <3>1
    <3>4. item'[chain'[i]].next = IF i = Len(chain') THEN NULL ELSE chain'[i + 1]
      BY <1>4, <3>1, <3>2, <3>3
    <3>5. CASE i = 1
      BY <2>1, <2>2, <3>1, <3>4, <3>5
    <3>6. CASE i # 1
      <4>1. 2 \in DOMAIN chain
        BY <1>4, <3>1
      <4>2. chain[i + 1] # head'
        BY <1>7, <2>2, <3>1, <3>6, <4>1
      <4>3. item'[chain'[i]].prev = chain[i]
        BY <1>2, <2>1, <3>1, <4>2
      <4>4. chain'[i - 1] = chain[i]
        BY <1>4, <3>1, <3>6
      <4>5. QED
        BY <3>4, <3>6, <4>3, <4>4
    <3>7. QED
      BY <3>5, <3>6
  <2>7. Len(chain') = size'
    BY <1>1, <1>2, <1>4
  <2>8. QED
    BY <2>4, <2>5, <2>6, <2>7 DEF LinksAgree
<1>10. QED
  BY <1>6, <1>8, <1>9 DEF ListInv

LEMMA PopBackKeeps ==
  ASSUME ListInv, PopBack
  PROVE  ListInv'
<1> DEFINE l == Len(chain)
<1>1. /\ phase = "open" /\ phase' = "open" /\ size > 0
      /\ allocated' = allocated \ {tail} /\ out' = item[tail].data
      /\ tail' = item[tail].prev
      /\ size' = size - 1 /\ head' = (IF size' = 0 THEN NULL ELSE head)
      /\ chain' = SubSeq(chain, 1, l - 1)
      /\ UNCHANGED pi
  BY DEF PopBack, WithoutBack
<1>2. /\ l = size
      /\ head = IF chain = <<>> THEN NULL ELSE chain[1]
      /\ tail = IF chain = <<>> THEN NULL ELSE chain[l]
      /\ \A i \in DOMAIN chain :
           /\ item[chain[i]].next = IF i = l THEN NULL ELSE chain[i + 1]
           /\ item[chain[i]].prev = IF i = 1 THEN NULL ELSE chain[i - 1]
  BY <1>1 DEF ListInv, LinksAgree
<1>3. chain \in Seq(Items) /\ chain # <<>>
  <2>1. chain = <<>> => l = 0
    OBVIOUS
  <2>2. QED
    BY <1>1, <1>2, <2>1 DEF ListInv, ListTypeOK
<1>4. /\ chain' \in Seq(Items) /\ Len(chain') = l - 1
      /\ DOMAIN chain' = 1 .. l - 1
      /\ l \in Nat \ {0} /\ DOMAIN chain = 1 .. l
      /\ \A i \in 1 .. l - 1 : chain'[i] = chain[i]
  BY <1>1, <1>3, BackGone
<1> HIDE DEF l
<1>5. l \in DOMAIN chain /\ tail = chain[l] /\ tail \in Items
  BY <1>2, <1>3, <1>4
<1>6. ListTypeOK'
  <2>1. /\ item[tail].prev \in Pointers /\ item[tail].data \in Data \union {NoData}
    BY <1>5 DEF ListInv, ListTypeOK
  <2>2. item' \in [Items -> [prev : Pointers, next : Pointers, data : Data \union {NoData}]]
    <3> DEFINE Item   == [prev : Pointers, next : Pointers, data : Data \union {NoData}]
               cut(m) == IF m = tail' THEN [item[m] EXCEPT !.next = NULL] ELSE item[m]
    <3>1. item \in [Items -> Item]
      BY DEF ListInv, ListTypeOK
    <3>2. \A m \in Items : cut(m) \in Item
      BY <3>1 DEF Pointers
    <3>3. item' = [m \in Items |-> cut(m)]
      BY DEF PopBack, WithoutBack
    <3> HIDE DEF Item, cut
    <3>4. item' \in [Items -> Item]
      BY <3>2, <3>3
    <3>5. QED
      BY <3>4 DEF Item
  <2>3. QED
    BY <1>1, <1>4, <2>1, <2>2 DEF ListInv, ListTypeOK, Pointers
<1>7. /\ {chain[i] : i \in DOMAIN chain} = allocated
      /\ \A i, j \in DOMAIN chain : chain[i] = chain[j] => i = j
  BY <1>1 DEF ListInv, HoldsAllocated
<1>8. HoldsAllocated'
  <2>1. \A i \in DOMAIN chain' :
           i \in DOMAIN chain /\ i # l /\ chain'[i] = chain[i]
    BY <1>4
  <2>2. \A i \in DOMAIN chain \ {l} : i \in DOMAIN chain' /\ chain'[i] = chain[i]
    BY <1>4
  <2>3. \A i, j \in DOMAIN chain' : chain'[i] = chain'[j] => i = j
    BY <1>7, <2>1
  <2>4. \A i \in DOMAIN chain' : chain'[i] \in allocated'
    BY <1>1, <1>5, <1>7, <2>1
  <2>5. \A m \in allocated' : \E i \in DOMAIN chain' : chain'[i] = m
    <3>1. \A m \in allocated' : \E i \in DOMAIN chain \ {l} : chain[i] = m
      BY <1>1, <1>5, <1>7
    <3>2. QED
      BY <2>2, <3>1
  <2>6. {chain'[i] : i \in DOMAIN chain'} = allocated'
    BY <2>4, <2>5
  <2>7. QED
    BY <2>3, <2>6 DEF HoldsAllocated
<1>9. LinksAgree'
  <2>1. \A m \in Items :
           /\ item'[m].prev = item[m].prev
           /\ m # tail' => item'[m].next = item[m].next
           /\ m = tail' => item'[m].next = NULL
    BY DEF PopBack, WithoutBack, ListInv, ListTypeOK
  <2>2. tail' = IF l = 1 THEN NULL ELSE chain[l - 1]
    BY <1>1, <1>2, <1>5
  <2>3. l = 1 <=> chain' = <<>>
    BY <1>4
  <2>4. tail' = IF chain' = <<>> THEN NULL ELSE chain'[Len(chain')]
    BY <1>4, <2>2, <2>3
  <2>5. head' = IF chain' = <<>> THEN NULL ELSE chain'[1]
    <3>1. l # 1 => chain'[1] = chain[1] /\ head' = chain[1]
      BY <1>1, <1>2, <1>3, <1>4
    <3>2. l = 1 => head' = NULL
      BY <1>1, <1>2
    <3>3. QED
      BY <2>3, <3>1, <3>2
  <2>6. ASSUME NEW i \in DOMAIN chain'
        PROVE  /\ item'[chain'[i]].next = IF i = Len(chain') THEN NULL ELSE chain'[i + 1]
               /\ item'[chain'[i]].prev = IF i = 1 THEN NULL ELSE chain'[i - 1]
    <3>1. /\ i \in 1 .. l - 1 /\ i \in DOMAIN chain
          /\ chain'[i] = chain[i] /\ chain[i] \in Items
          /\ l # 1 /\ i # l
      BY <1>3, <1>4
    <3>2. item'[chain'[i]].prev = IF i = 1 THEN NULL ELSE chain[i - 1]
      BY <1>2, <2>1, <3>1
    <3>3. i # 1 => chain'[i - 1] = chain[i - 1]
      BY <1>4, <3>1
    <3>4. item'[chain'[i]].prev = IF i = 1 THEN NULL ELSE chain'[i - 1]
      BY <3>2, <3>3
    <3>5. CASE i = l - 1
      BY <1>4, <2>1, <2>2, <3>1, <3>4, <3>5
    <3>6. CASE i # l - 1
      <4>1. l - 1 \in DOMAIN chain
        BY <1>4, <3>1
      <4>2. chain[i] # tail'
        BY <1>7, <2>2, <3>1, <3>6, <4>1
      <4>3. item'[chain'[i]].next = chain[i + 1]
        BY <1>2, <2>1, <3>1, <4>2
      <4>4. chain'[i + 1] = chain[i + 1]
        BY <1>4, <3>1, <3>6
      <4>5. QED
        BY <1>4, <3>4, <3>6, <4>3, <4>4
    <3>7. QED
      BY <3>5, <3>6
  <2>7. Len(chain') = size'
    BY <1>1, <1>2, <1>4
  <2>8. QED
    BY <2>4, <2>5, <2>6, <2>7 DEF LinksAgree
<1>10. QED
  BY <1>6, <1>8, <1>9 DEF ListInv

LEMMA NextListInv == ListInv /\ [ListNext]_list => ListInv'
<1> SUFFICES ASSUME ListInv, [ListNext]_list PROVE ListInv'
  OBVIOUS
<1>1. ASSUME NEW n \in Items, NEW d \in Data, PushFront(n, d) \/ PushBack(n, d)
      PROVE  ListInv'
  BY <1>1, PushFrontKeeps, PushBackKeeps
<1>2. CASE PopFront \/ PopBack
  BY <1>2, PopFrontKeeps, PopBackKeeps
<1>3. CASE PeekFront \/ PeekBack
  <2>1. UNCHANGED <<listVars, allocated, phase, pi, chain>> /\ phase = "open" /\ size > 0
    BY <1>3 DEF PeekFront, PeekBack
  <2>2. out' \in Data \union {NoData}
    <3>1. head \in Items /\ tail \in Items
      <4>1. chain # <<>>
        <5>1. chain = <<>> => Len(chain) = 0
          OBVIOUS
        <5>2. QED
          BY <2>1, <5>1 DEF ListInv, LinksAgree
      <4>2. chain[1] \in Items /\ chain[Len(chain)] \in Items
        BY <4>1 DEF ListInv, ListTypeOK
      <4>3. QED
        BY <2>1, <4>1, <4>2 DEF ListInv, LinksAgree
    <3>2. QED
      BY <1>3, <3>1 DEF PeekFront, PeekBack, ListInv, ListTypeOK
  <2>3. ListTypeOK'
    BY <2>1, <2>2 DEF ListInv, ListTypeOK, listVars
  <2>4. LinksAgree' /\ HoldsAllocated'
    BY <2>1 DEF ListInv, LinksAgree, HoldsAllocated, listVars
  <2>5. QED
    BY <2>3, <2>4 DEF ListInv
<1>4. CASE Destroy
  BY <1>4 DEF Destroy, Fresh, listVars, ListInv, ListTypeOK, LinksAgree, HoldsAllocated
<1>5. CASE DestroyItem
  <2>1. /\ phase = "destroy" /\ phase' \in {"destroy", "crashed"}
        /\ pi \in Items /\ head' = item[pi].next /\ head' \in Pointers
        /\ pi' \in Pointers /\ size' \in Int /\ allocated' \in SUBSET Items
        /\ UNCHANGED <<tail, item, out, chain>>
    BY <1>5 DEF DestroyItem, ListInv, ListTypeOK, Pointers
  <2>2. QED
    BY <2>1 DEF ListInv, ListTypeOK, LinksAgree, HoldsAllocated
<1>6. CASE DestroyEnd
  BY <1>6 DEF DestroyEnd, ListInv, ListTypeOK, LinksAgree, HoldsAllocated
<1>7. CASE UNCHANGED list
  BY <1>7 DEF list, listVars, ListInv, ListTypeOK, LinksAgree, HoldsAllocated
<1>8. QED
  BY <1>1, <1>2, <1>3, <1>4, <1>5, <1>6, <1>7 DEF ListNext

(* Until list_destroy, next and prev describe one and the same sequence of items, which
   are exactly those between their MALLOC and their FREE. *)
THEOREM ListIsSound == ListSpec => [](ListTypeOK /\ ListIsWhole)
<1>1. ListInv => ListTypeOK /\ ListIsWhole
  BY DEF ListInv, ListIsWhole
<1>2. QED
  BY <1>1, InitListInv, NextListInv, PTL DEF ListSpec

(* The data of a list, front first. *)
Contents(c, it) == [i \in DOMAIN c |-> it[c[i]].data]

LEMMA ContentsIsSeq ==
  ASSUME NEW c \in Seq(Items),
         NEW it \in [Items -> [prev : Pointers, next : Pointers, data : Data \union {NoData}]]
  PROVE  /\ Contents(c, it) \in Seq(Data \union {NoData})
         /\ Len(Contents(c, it)) = Len(c)
         /\ DOMAIN Contents(c, it) = 1 .. Len(c)
         /\ \A i \in 1 .. Len(c) : Contents(c, it)[i] = it[c[i]].data
         /\ Contents(c, it) = <<>> <=> c = <<>>
<1>1. Len(c) \in Nat /\ DOMAIN c = 1 .. Len(c) /\ \A i \in 1 .. Len(c) : c[i] \in Items
  OBVIOUS
<1>2. \A i \in 1 .. Len(c) : it[c[i]].data \in Data \union {NoData}
  BY <1>1
<1>3. Contents(c, it) = [i \in 1 .. Len(c) |-> it[c[i]].data]
  BY <1>1 DEF Contents
<1>4. QED
  BY <1>1, <1>2, <1>3

(* Pushes and pops change the data of the list as they change the queue of Deque. *)
LEMMA PushFrontMaps ==
  ASSUME ListInv, NEW n \in Items, NEW d \in Data, PushFront(n, d), ListInv'
  PROVE  Contents(chain', item') = <<d>> \o Contents(chain, item) /\ out' = out
<1> DEFINE D == Data \union {NoData}
           q == Contents(chain, item)
           r == Contents(chain', item')
           p == <<d>> \o q
<1>1. /\ chain' = <<n>> \o chain /\ n \notin allocated /\ phase = "open"
      /\ out' = out
      /\ item'[n].data = d /\ \A m \in Items \ {n} : item'[m].data = item[m].data
  BY DEF PushFront, Fresh, ListInv, ListTypeOK
<1>2. /\ chain \in Seq(Items)
      /\ \A i \in DOMAIN chain : chain[i] \in Items \ {n}
  BY <1>1 DEF ListInv, ListTypeOK, HoldsAllocated
<1>3. /\ Len(chain) \in Nat /\ DOMAIN chain = 1 .. Len(chain)
      /\ chain'[1] = n /\ Len(chain') = Len(chain) + 1
      /\ \A i \in 2 .. Len(chain) + 1 : chain'[i] = chain[i - 1]
  BY <1>1, <1>2, InFront
<1>4. /\ q \in Seq(D) /\ Len(q) = Len(chain)
      /\ \A i \in 1 .. Len(chain) : q[i] = item[chain[i]].data
  BY ContentsIsSeq DEF ListInv, ListTypeOK
<1>5. /\ r \in Seq(D) /\ Len(r) = Len(chain) + 1
      /\ \A i \in 1 .. Len(chain) + 1 : r[i] = item'[chain'[i]].data
  BY <1>3, ContentsIsSeq DEF ListInv, ListTypeOK
<1> HIDE DEF q, r, D
<1>6. /\ p \in Seq(D) /\ Len(p) = Len(chain) + 1 /\ p[1] = d
      /\ \A i \in 2 .. Len(chain) + 1 : p[i] = q[i - 1]
  <2>1. d \in D
    BY DEF D
  <2>2. QED
    BY <1>4, <2>1, InFront
<1>7. ASSUME NEW i \in 1 .. Len(chain) + 1 PROVE r[i] = p[i]
  <2>1. CASE i = 1
    BY <1>1, <1>3, <1>5, <1>6, <2>1
  <2>2. CASE i # 1
    <3>1. i \in 2 .. Len(chain) + 1 /\ i - 1 \in 1 .. Len(chain)
      BY <1>3, <2>2
    <3>2. r[i] = item'[chain[i - 1]].data
      BY <1>3, <1>5, <3>1
    <3>3. chain[i - 1] \in Items \ {n}
      BY <1>2, <1>3, <3>1
    <3>4. QED
      BY <1>1, <1>4, <1>6, <3>1, <3>2, <3>3
  <2>3. QED
    BY <2>1, <2>2
<1>8. r = p
  BY <1>5, <1>6, <1>7, SeqEqual
<1>9. QED
  BY <1>1, <1>8 DEF q, r

LEMMA PushBackMaps ==
  ASSUME ListInv, NEW n \in Items, NEW d \in Data, PushBack(n, d), ListInv'
  PROVE  Contents(chain', item') = Append(Contents(chain, item), d) /\ out' = out
<1> DEFINE D == Data \union {NoData}
           q == Contents(chain, item)
           r == Contents(chain', item')
           p == Append(q, d)
           l == Len(chain)
<1>1. /\ chain' = Append(chain, n) /\ n \notin allocated /\ phase = "open"
      /\ out' = out
      /\ item'[n].data = d /\ \A m \in Items \ {n} : item'[m].data = item[m].data
  BY DEF PushBack, Fresh, ListInv, ListTypeOK
<1>2. /\ chain \in Seq(Items)
      /\ \A i \in DOMAIN chain : chain[i] \in Items \ {n}
  BY <1>1 DEF ListInv, ListTypeOK, HoldsAllocated
<1>3. /\ l \in Nat /\ DOMAIN chain = 1 .. l
      /\ chain'[l + 1] = n /\ Len(chain') = l + 1
      /\ \A i \in 1 .. l : chain'[i] = chain[i]
  BY <1>1, <1>2, AtBack
<1>4. q \in Seq(D) /\ Len(q) = l /\ \A i \in 1 .. l : q[i] = item[chain[i]].data
  BY ContentsIsSeq DEF ListInv, ListTypeOK
<1>5. /\ r \in Seq(D) /\ Len(r) = l + 1
      /\ \A i \in 1 .. l + 1 : r[i] = item'[chain'[i]].data
  BY <1>3, ContentsIsSeq DEF ListInv, ListTypeOK
<1> HIDE DEF q, r, D, l
<1>6. /\ p \in Seq(D) /\ Len(p) = l + 1 /\ p[l + 1] = d
      /\ \A i \in 1 .. l : p[i] = q[i]
  <2>1. d \in D
    BY DEF D
  <2>2. QED
    BY <1>4, <2>1, AtBack
<1>7. ASSUME NEW i \in 1 .. l + 1 PROVE r[i] = p[i]
  <2>1. CASE i = l + 1
    BY <1>1, <1>3, <1>5, <1>6, <2>1
  <2>2. CASE i # l + 1
    <3>1. i \in 1 .. l
      BY <1>3, <2>2
    <3>2. r[i] = item'[chain[i]].data
      BY <1>3, <1>5, <3>1
    <3>3. chain[i] \in Items \ {n}
      BY <1>2, <1>3, <3>1
    <3>4. QED
      BY <1>1, <1>4, <1>6, <3>1, <3>2, <3>3
  <2>3. QED
    BY <2>1, <2>2
<1>8. r = p
  BY <1>5, <1>6, <1>7, SeqEqual
<1>9. QED
  BY <1>1, <1>8 DEF q, r

LEMMA PopFrontMaps ==
  ASSUME ListInv, PopFront, ListInv'
  PROVE  LET q == Contents(chain, item)
         IN  /\ q # <<>> /\ out' = q[1]
             /\ Contents(chain', item') = SubSeq(q, 2, Len(q))
<1> DEFINE D == Data \union {NoData}
           q == Contents(chain, item)
           r == Contents(chain', item')
           p == SubSeq(q, 2, Len(q))
           l == Len(chain)
<1>1. /\ chain' = SubSeq(chain, 2, l) /\ phase = "open" /\ size > 0
      /\ out' = item[head].data
      /\ \A m \in Items : item'[m].data = item[m].data
  BY DEF PopFront, WithoutFront, ListInv, ListTypeOK
<1>2. chain \in Seq(Items) /\ chain # <<>>
  <2>1. chain = <<>> => l = 0
    OBVIOUS
  <2>2. QED
    BY <1>1, <2>1 DEF ListInv, ListTypeOK, LinksAgree
<1>3. /\ l \in Nat \ {0} /\ DOMAIN chain = 1 .. l /\ Len(chain') = l - 1
      /\ \A i \in 1 .. l - 1 : chain'[i] = chain[i + 1]
      /\ chain' \in Seq(Items) /\ item' \in [Items -> [prev : Pointers, next : Pointers, data : D]]
  <2>1. chain' = SubSeq(chain, 2, Len(chain))
    BY DEF PopFront, WithoutFront
  <2>2. /\ chain' \in Seq(Items)
        /\ item' \in [Items -> [prev : Pointers, next : Pointers, data : D]]
    BY DEF ListInv, ListTypeOK
  <2>3. /\ Len(chain) \in Nat \ {0} /\ DOMAIN chain = 1 .. Len(chain)
        /\ Len(chain') = Len(chain) - 1
        /\ \A i \in 1 .. Len(chain) - 1 : chain'[i] = chain[i + 1]
    BY <1>2, <2>1, FrontGone
  <2>4. QED
    BY <2>2, <2>3
<1>4. /\ q \in Seq(D) /\ Len(q) = l /\ q # <<>>
      /\ \A i \in 1 .. l : q[i] = item[chain[i]].data
  BY <1>2, ContentsIsSeq DEF ListInv, ListTypeOK
<1>5. /\ r \in Seq(D) /\ Len(r) = l - 1
      /\ \A i \in 1 .. l - 1 : r[i] = item'[chain'[i]].data
  <2>1. /\ r \in Seq(D) /\ Len(r) = Len(chain')
        /\ \A i \in 1 .. Len(chain') : r[i] = item'[chain'[i]].data
    BY <1>3, ContentsIsSeq
  <2>2. QED
    BY <1>3, <2>1
<1> HIDE DEF q, r, D, l
<1>6. /\ p \in Seq(D) /\ Len(p) = l - 1
      /\ \A i \in 1 .. l - 1 : p[i] = q[i + 1]
  BY <1>4, FrontGone
<1>7. ASSUME NEW i \in 1 .. l - 1 PROVE r[i] = p[i]
  <2>1. i + 1 \in 1 .. l /\ chain[i + 1] \in Items
    BY <1>2, <1>3
  <2>2. r[i] = item'[chain[i + 1]].data
    BY <1>3, <1>5
  <2>3. QED
    BY <1>1, <1>4, <1>6, <2>1, <2>2
<1>8. r = p
  BY <1>5, <1>6, <1>7, SeqEqual
<1>9. out' = q[1]
  <2>1. head = chain[1]
    BY <1>1, <1>2 DEF ListInv, LinksAgree
  <2>2. QED
    BY <1>1, <1>3, <1>4, <2>1
<1>10. QED
  BY <1>4, <1>8, <1>9 DEF q, r

LEMMA PopBackMaps ==
  ASSUME ListInv, PopBack, ListInv'
  PROVE  LET q == Contents(chain, item)
         IN  /\ q # <<>> /\ out' = q[Len(q)]
             /\ Contents(chain', item') = SubSeq(q, 1, Len(q) - 1)
<1> DEFINE D == Data \union {NoData}
           q == Contents(chain, item)
           r == Contents(chain', item')
           p == SubSeq(q, 1, Len(q) - 1)
           l == Len(chain)
<1>1. /\ chain' = SubSeq(chain, 1, l - 1) /\ phase = "open" /\ size > 0
      /\ out' = item[tail].data
      /\ \A m \in Items : item'[m].data = item[m].data
  BY DEF PopBack, WithoutBack, ListInv, ListTypeOK
<1>2. chain \in Seq(Items) /\ chain # <<>>
  <2>1. chain = <<>> => l = 0
    OBVIOUS
  <2>2. QED
    BY <1>1, <2>1 DEF ListInv, ListTypeOK, LinksAgree
<1>3. /\ l \in Nat \ {0} /\ DOMAIN chain = 1 .. l /\ Len(chain') = l - 1
      /\ \A i \in 1 .. l - 1 : chain'[i] = chain[i]
      /\ chain' \in Seq(Items) /\ item' \in [Items -> [prev : Pointers, next : Pointers, data : D]]
  <2>1. chain' = SubSeq(chain, 1, Len(chain) - 1)
    BY DEF PopBack, WithoutBack
  <2>2. /\ chain' \in Seq(Items)
        /\ item' \in [Items -> [prev : Pointers, next : Pointers, data : D]]
    BY DEF ListInv, ListTypeOK
  <2>3. /\ Len(chain) \in Nat \ {0} /\ DOMAIN chain = 1 .. Len(chain)
        /\ Len(chain') = Len(chain) - 1
        /\ \A i \in 1 .. Len(chain) - 1 : chain'[i] = chain[i]
    BY <1>2, <2>1, BackGone
  <2>4. QED
    BY <2>2, <2>3
<1>4. /\ q \in Seq(D) /\ Len(q) = l /\ q # <<>>
      /\ \A i \in 1 .. l : q[i] = item[chain[i]].data
  BY <1>2, ContentsIsSeq DEF ListInv, ListTypeOK
<1>5. /\ r \in Seq(D) /\ Len(r) = l - 1
      /\ \A i \in 1 .. l - 1 : r[i] = item'[chain'[i]].data
  <2>1. /\ r \in Seq(D) /\ Len(r) = Len(chain')
        /\ \A i \in 1 .. Len(chain') : r[i] = item'[chain'[i]].data
    BY <1>3, ContentsIsSeq
  <2>2. QED
    BY <1>3, <2>1
<1>6. tail = chain[l]
  BY <1>1, <1>2 DEF ListInv, LinksAgree
<1> HIDE DEF q, r, D, l
<1>7. /\ p \in Seq(D) /\ Len(p) = l - 1
      /\ \A i \in 1 .. l - 1 : p[i] = q[i]
  BY <1>4, BackGone
<1>8. ASSUME NEW i \in 1 .. l - 1 PROVE r[i] = p[i]
  <2>1. i \in 1 .. l /\ chain[i] \in Items
    BY <1>2, <1>3
  <2>2. r[i] = item'[chain[i]].data
    BY <1>3, <1>5
  <2>3. QED
    BY <1>1, <1>4, <1>7, <2>1, <2>2
<1>9. r = p
  BY <1>5, <1>7, <1>8, SeqEqual
<1>10. out' = q[Len(q)]
  BY <1>1, <1>3, <1>4, <1>6
<1>11. QED
  BY <1>4, <1>9, <1>10 DEF q, r

LEMMA PeekMaps ==
  ASSUME ListInv, PeekFront \/ PeekBack
  PROVE  LET q == Contents(chain, item)
         IN  /\ q # <<>> /\ Contents(chain', item') = q
             /\ PeekFront => out' = q[1]
             /\ PeekBack => out' = q[Len(q)]
<1> DEFINE q == Contents(chain, item)
           l == Len(chain)
<1>1. phase = "open" /\ size > 0 /\ chain' = chain /\ item' = item
  BY DEF PeekFront, PeekBack, listVars
<1>2. chain \in Seq(Items) /\ chain # <<>>
  <2>1. chain = <<>> => l = 0
    OBVIOUS
  <2>2. QED
    BY <1>1, <2>1 DEF ListInv, ListTypeOK, LinksAgree
<1>3. /\ Len(q) = l /\ q # <<>>
      /\ \A i \in 1 .. l : q[i] = item[chain[i]].data
  BY <1>2, ContentsIsSeq DEF ListInv, ListTypeOK
<1>4. head = chain[1] /\ tail = chain[l] /\ l \in Nat \ {0}
  BY <1>1, <1>2 DEF ListInv, LinksAgree
<1> HIDE DEF q, l
<1>5. PeekFront => out' = q[1]
  BY <1>3, <1>4 DEF PeekFront
<1>6. PeekBack => out' = q[Len(q)]
  BY <1>3, <1>4 DEF PeekBack
<1>7. q = Contents(chain', item')
  BY <1>1 DEF q
<1>8. QED
  BY <1>3, <1>5, <1>6, <1>7 DEF q

(* list.c is a queue with two ends, as Deque specifies it, for every heap. *)
THEOREM ListIsDeque == ListSpec => IsDeque
<1>1. ListInit => AsDeque!Init
  <2> SUFFICES ASSUME ListInit PROVE AsDeque!Init
    OBVIOUS
  <2>1. chain = <<>> /\ out = NoData /\ DOMAIN chain = {}
    BY DEF ListInit
  <2>2. QED
    BY <2>1 DEF AsDeque!Init
<1>2. ASSUME ListInv, ListInv', [ListNext]_list PROVE [AsDeque!Next]_AsDeque!vars
  <2>1. ASSUME NEW n \in Items, NEW d \in Data, PushFront(n, d)
        PROVE  AsDeque!PushFront(d)
    BY <1>2, <2>1, PushFrontMaps DEF AsDeque!PushFront, Contents
  <2>2. ASSUME NEW n \in Items, NEW d \in Data, PushBack(n, d)
        PROVE  AsDeque!PushBack(d)
    BY <1>2, <2>2, PushBackMaps DEF AsDeque!PushBack, Contents
  <2>3. CASE PopFront
    BY <1>2, <2>3, PopFrontMaps DEF AsDeque!PopFront, AsDeque!Next, Contents
  <2>4. CASE PopBack
    BY <1>2, <2>4, PopBackMaps DEF AsDeque!PopBack, AsDeque!Next, Contents
  <2>5. CASE PeekFront
    BY <1>2, <2>5, PeekMaps DEF AsDeque!PeekFront, AsDeque!Next, Contents
  <2>6. CASE PeekBack
    BY <1>2, <2>6, PeekMaps DEF AsDeque!PeekBack, AsDeque!Next, Contents
  <2>7. CASE UNCHANGED <<chain, item, out>>
    BY <2>7 DEF AsDeque!vars
  <2>8. QED
    BY <1>2, <2>1, <2>2, <2>3, <2>4, <2>5, <2>6, <2>7
       DEF ListNext, Destroy, DestroyItem, DestroyEnd, list, listVars, AsDeque!Next
<1>3. QED
  BY <1>1, <1>2, InitListInv, NextListInv, PTL DEF ListSpec, IsDeque, AsDeque!Spec

-----------------------------------------------------------------------------
(* Sockets and serial lines: which descriptors are open, what a call returns. *)
USE IoAssumption

Waiting == Reads \cup Writes \cup {"tcp_accept"}

(* Descriptors other than 0 are open exactly as long as the caller has them. *)
NoneLeaks(own) == \A d \in Fds \ {0} : d \notin own => (d \in held <=> open[d] # "closed")

IoTypes ==
  /\ moved \in Nat /\ input \in Nat /\ held \subseteq Fds
  /\ open \in [Fds -> {"closed", "fresh", "connected", "listening", "udp", "serial"}]

(* Between the system calls of a function that makes or gives up a descriptor. *)
OwnsFd ==
  pc \in {"set up", "drain"} =>
    /\ fd \in Fds \ held /\ open[fd] # "closed" /\ moved = 0 /\ NoneLeaks({fd})
    /\ pc = "set up" => fn \in Creates
    /\ pc = "drain" => fd # 0 /\ fn \in {"tcp_client", "tcp_server", "tcp_destroy"}

(* Between those of a function that waits: only a serial line has moved anything. *)
CountsBytes ==
  pc \in {"select", "call"} =>
    /\ fn \in Waiting /\ NoneLeaks({})
    /\ fn \notin Serial => moved = 0
    /\ fn = "serial_read" => moved < Size

HeldIsOpen == \A d \in held : open[d] \notin {"closed", "fresh"}

Told ==
  pc = "returned" =>
    /\ fn \in {"tcp_recv", "serial_read"} /\ ret >= 0 => moved = ret
    /\ fn = "udp_recv" /\ ret > 0 => moved = ret \/ (moved > ret /\ ret = Size)
    /\ fn \in Writes /\ ret >= 0 => ret \in {0, Size} /\ moved = ret
    /\ ret < 0 /\ moved > 0 => /\ fn \in {"serial_read"} \cup Writes
                               /\ moved < Size /\ (fn \in Writes => ret = -4)
    /\ NoneLeaks({})

IoInv == IoTypes /\ OwnsFd /\ CountsBytes /\ HeldIsOpen /\ Told

(* Nothing is open, nothing was moved. *)
LEMMA IoInitInv == IoInit => IoInv
  BY DEF IoInit, IoInv, IoTypes, OwnsFd, CountsBytes, HeldIsOpen, Told, NoneLeaks, Fds, Writes

(* A call that makes a descriptor begins: socket() or open(). *)
LEMMA CreateStep ==
  ASSUME IoInv, NEW f \in Creates, Create(f)
  PROVE  IoInv'
<1> USE DEF Fds
<1>0. IoTypes /\ OwnsFd /\ CountsBytes /\ HeldIsOpen /\ Told
  BY DEF IoInv
<1>1. pc = "returned" /\ NoneLeaks({}) /\ fn' = f /\ moved' = 0 /\ held' = held /\ input' = input
  BY <1>0 DEF Create, Told
<1>2. CASE pc' = "returned"
  <2>1. ret' = -1 /\ open' = open /\ fd' = fd
    BY <1>2 DEF Create, Returns
  <2>2. IoTypes'
    BY <1>0, <1>1, <1>2, <2>1 DEF IoTypes
  <2>3. Told'
    BY <1>1, <1>2, <2>1 DEF Told, NoneLeaks, Creates, Writes
  <2>4. QED
    BY <1>0, <1>1, <1>2, <2>1, <2>2, <2>3 DEF IoInv, OwnsFd, CountsBytes, HeldIsOpen
<1>3. CASE pc' # "returned"
  <2>1. PICK d \in Closed : /\ fd' = d /\ open' = [open EXCEPT ![d] = "fresh"]
                            /\ pc' = "set up" /\ ret' = ret
    BY <1>3 DEF Create, Returns
  <2>2. d \in Fds /\ d \notin held
    BY <1>0, <2>1 DEF Closed, HeldIsOpen
  <2>3. IoTypes'
    BY <1>0, <1>1, <2>1, <2>2 DEF IoTypes
  <2>4. OwnsFd' /\ HeldIsOpen'
    BY <1>0, <1>1, <2>1, <2>2 DEF IoTypes, OwnsFd, HeldIsOpen, NoneLeaks
  <2>5. QED
    BY <2>1, <2>3, <2>4 DEF IoInv, CountsBytes, Told
<1>4. QED
  BY <1>2, <1>3

(* Every further system call goes well and the caller gets the descriptor. *)
LEMMA SetUpStep ==
  ASSUME IoInv, SetUp
  PROVE  IoInv'
<1> USE DEF Fds
<1>0. IoTypes /\ OwnsFd /\ CountsBytes /\ HeldIsOpen /\ Told
  BY DEF IoInv
<1>1. fn \in Creates /\ fd \in Fds \ held /\ moved = 0 /\ NoneLeaks({fd})
  BY <1>0 DEF SetUp, OwnsFd
<1>2. PICK use \in {"connected", "listening", "udp", "serial"} : open' = [open EXCEPT ![fd] = use]
  BY <1>1 DEF SetUp, Creates
<1>3. pc' = "returned" /\ ret' = fd /\ held' = held \cup {fd} /\ UNCHANGED <<fn, fd, moved, input>>
  BY DEF SetUp, Returns
<1>4. IoTypes'
  BY <1>0, <1>1, <1>2, <1>3 DEF IoTypes
<1>5. OwnsFd' /\ CountsBytes'
  BY <1>3 DEF OwnsFd, CountsBytes
<1>6. HeldIsOpen'
  BY <1>0, <1>1, <1>2, <1>3 DEF IoTypes, HeldIsOpen
<1>7. Told'
  BY <1>0, <1>1, <1>2, <1>3 DEF IoTypes, Told, NoneLeaks, Creates, Writes
<1>8. QED
  BY <1>4, <1>5, <1>6, <1>7 DEF IoInv

(* One of them fails: the descriptor is closed, but for a descriptor 0 the code takes
   for none. *)
LEMMA SetUpFailsStep ==
  ASSUME IoInv, SetUpFails
  PROVE  IoInv'
<1> USE DEF Fds
<1>0. IoTypes /\ OwnsFd /\ CountsBytes /\ HeldIsOpen /\ Told
  BY DEF IoInv
<1>1. fn \in Creates /\ fd \in Fds \ held /\ moved = 0 /\ NoneLeaks({fd}) /\ open[fd] # "closed"
  BY <1>0 DEF SetUpFails, OwnsFd
<1>2. ret' \in {-2, -3, -4} /\ UNCHANGED <<fn, fd, moved, input, held>>
  BY <1>1 DEF SetUpFails, Creates
<1>3. PICK o \in {"closed", open[fd]} : open' = [open EXCEPT ![fd] = o]
  BY <1>0 DEF SetUpFails, IoTypes
<1>4. /\ pc' = "drain" => fd # 0 /\ fn \in {"tcp_client", "tcp_server"} /\ open' = open
      /\ pc' \in {"drain", "returned"}
      /\ pc' = "returned" /\ fd # 0 => open'[fd] = "closed"
  <2>1. fd = 0 \/ (fd # 0 /\ fd > 0)
    BY <1>1
  <2>2. CASE fn \in {"tcp_client", "tcp_server"}
    <3>1. open' = open /\ pc' = IF fd > 0 THEN "drain" ELSE "returned"
      BY <2>2 DEF SetUpFails
    <3>2. QED
      BY <2>1, <2>2, <3>1
  <2>3. CASE fn \in {"udp_create", "serial_open"}
    <3>1. pc' = "returned"
      BY <2>3 DEF SetUpFails
    <3>2. fd # 0 => open' = [open EXCEPT ![fd] = "closed"]
      BY <2>1, <2>3 DEF SetUpFails
    <3>3. QED
      BY <1>0, <1>1, <3>1, <3>2 DEF IoTypes
  <2>4. QED
    BY <1>1, <2>2, <2>3 DEF Creates
<1>6. IoTypes'
  BY <1>0, <1>1, <1>2, <1>3, <1>4 DEF IoTypes
<1>7. OwnsFd' /\ CountsBytes' /\ HeldIsOpen'
  BY <1>0, <1>1, <1>2, <1>3, <1>4 DEF IoTypes, OwnsFd, CountsBytes, HeldIsOpen, NoneLeaks
<1>8. Told'
  BY <1>0, <1>1, <1>2, <1>3, <1>4 DEF Told, NoneLeaks
<1>9. QED
  BY <1>6, <1>7, <1>8 DEF IoInv

(* A call that gives a descriptor up begins. *)
LEMMA ReleaseStep ==
  ASSUME IoInv, NEW f \in Destroys, NEW d \in held, Release(f, d)
  PROVE  IoInv'
<1> USE DEF Fds
<1>0. IoTypes /\ OwnsFd /\ CountsBytes /\ HeldIsOpen /\ Told
  BY DEF IoInv
<1>1. IoTypes'
  BY <1>0 DEF IoTypes, Release
<1>2. OwnsFd'
  BY <1>0 DEF IoTypes, OwnsFd, Told, NoneLeaks, Release
<1>3. CountsBytes'
  BY <1>0 DEF CountsBytes, Release
<1>4. HeldIsOpen'
  BY <1>0 DEF HeldIsOpen, Release
<1>5. Told'
  BY <1>0 DEF IoTypes, Told, NoneLeaks, Release
<1>6. QED
  BY <1>1, <1>2, <1>3, <1>4, <1>5 DEF IoInv

(* tcp_destroy reads what has arrived after the shutdown. *)
LEMMA DrainTakesStep ==
  ASSUME IoInv, DrainTakes
  PROVE  IoInv'
<1> USE DEF Fds
<1>0. IoTypes /\ OwnsFd /\ CountsBytes /\ HeldIsOpen /\ Told
  BY DEF IoInv
<1>1. IoTypes'
  BY <1>0 DEF IoTypes, DrainTakes
<1>2. OwnsFd'
  BY <1>0 DEF OwnsFd, NoneLeaks, DrainTakes
<1>3. CountsBytes'
  BY <1>0 DEF CountsBytes, DrainTakes
<1>4. HeldIsOpen'
  BY <1>0 DEF HeldIsOpen, DrainTakes
<1>5. Told'
  BY <1>0 DEF Told, DrainTakes
<1>6. QED
  BY <1>1, <1>2, <1>3, <1>4, <1>5 DEF IoInv

(* It closes the socket and returns. *)
LEMMA DrainEndsStep ==
  ASSUME IoInv, DrainEnds
  PROVE  IoInv'
<1> USE DEF Fds
<1>0. IoTypes /\ OwnsFd /\ CountsBytes /\ HeldIsOpen /\ Told
  BY DEF IoInv
<1>1. IoTypes'
  BY <1>0 DEF IoTypes, DrainEnds
<1>2. OwnsFd'
  BY <1>0 DEF OwnsFd, DrainEnds
<1>3. CountsBytes'
  BY <1>0 DEF CountsBytes, DrainEnds
<1>4. HeldIsOpen'
  BY <1>0 DEF OwnsFd, HeldIsOpen, DrainEnds
<1>5. Told'
  BY <1>0 DEF IoTypes, OwnsFd, Told, NoneLeaks, Writes, DrainEnds
<1>6. QED
  BY <1>1, <1>2, <1>3, <1>4, <1>5 DEF IoInv

(* A call that waits for the descriptor begins. *)
LEMMA StartStep ==
  ASSUME IoInv, NEW f \in Waiting, NEW d \in held, Start(f, d)
  PROVE  IoInv'
<1> USE DEF Fds
<1>0. IoTypes /\ OwnsFd /\ CountsBytes /\ HeldIsOpen /\ Told
  BY DEF IoInv
<1>1. IoTypes'
  BY <1>0 DEF IoTypes, Start
<1>2. OwnsFd'
  BY <1>0 DEF OwnsFd, Start, Returns
<1>3. CountsBytes'
  BY <1>0 DEF CountsBytes, Told, NoneLeaks, Start
<1>4. HeldIsOpen'
  BY <1>0 DEF HeldIsOpen, Start
<1>5. Told'
  BY <1>0 DEF Told, NoneLeaks, Start, Returns
<1>6. QED
  BY <1>1, <1>2, <1>3, <1>4, <1>5 DEF IoInv

(* select fails, as with a signal. *)
LEMMA SelectFailsStep ==
  ASSUME IoInv, SelectFails
  PROVE  IoInv'
<1> USE DEF Fds
<1>0. IoTypes /\ OwnsFd /\ CountsBytes /\ HeldIsOpen /\ Told
  BY DEF IoInv
<1>1. IoTypes'
  BY <1>0 DEF IoTypes, Same, SelectFails
<1>2. OwnsFd'
  BY <1>0 DEF OwnsFd, Returns, SelectFails
<1>3. CountsBytes'
  BY <1>0 DEF CountsBytes, Returns, SelectFails
<1>4. HeldIsOpen'
  BY <1>0 DEF HeldIsOpen, Same, SelectFails
<1>5. Told'
  BY <1>0 DEF CountsBytes, Told, NoneLeaks, Writes, Serial, Returns, Same, SelectFails
<1>6. QED
  BY <1>1, <1>2, <1>3, <1>4, <1>5 DEF IoInv

(* Nothing arrives in time; serial_read returns the bytes it has. *)
LEMMA SelectTimesOutStep ==
  ASSUME IoInv, SelectTimesOut
  PROVE  IoInv'
<1> USE DEF Fds
<1>0. IoTypes /\ OwnsFd /\ CountsBytes /\ HeldIsOpen /\ Told
  BY DEF IoInv
<1>1. IoTypes'
  BY <1>0 DEF IoTypes, Same, SelectTimesOut
<1>2. OwnsFd'
  BY <1>0 DEF OwnsFd, Returns, SelectTimesOut
<1>3. CountsBytes'
  BY <1>0 DEF CountsBytes, Returns, SelectTimesOut
<1>4. HeldIsOpen'
  BY <1>0 DEF HeldIsOpen, Same, SelectTimesOut
<1>5. Told'
  BY <1>0 DEF CountsBytes, Told, NoneLeaks, Writes, Serial, Returns, Same, SelectTimesOut
<1>6. QED
  BY <1>1, <1>2, <1>3, <1>4, <1>5 DEF IoInv

(* select finds the descriptor ready. *)
LEMMA SelectReadyStep ==
  ASSUME IoInv, SelectReady
  PROVE  IoInv'
<1> USE DEF Fds
<1>0. IoTypes /\ OwnsFd /\ CountsBytes /\ HeldIsOpen /\ Told
  BY DEF IoInv
<1>1. IoTypes'
  BY <1>0 DEF IoTypes, Same, SelectReady
<1>2. OwnsFd'
  BY <1>0 DEF OwnsFd, SelectReady
<1>3. CountsBytes'
  BY <1>0 DEF CountsBytes, NoneLeaks, Same, SelectReady
<1>4. HeldIsOpen'
  BY <1>0 DEF HeldIsOpen, Same, SelectReady
<1>5. Told'
  BY <1>0 DEF Told, SelectReady
<1>6. QED
  BY <1>1, <1>2, <1>3, <1>4, <1>5 DEF IoInv

(* The call that moves the data fails. *)
LEMMA CallFailsStep ==
  ASSUME IoInv, CallFails
  PROVE  IoInv'
<1> USE DEF Fds
<1>0. IoTypes /\ OwnsFd /\ CountsBytes /\ HeldIsOpen /\ Told
  BY DEF IoInv
<1>1. IoTypes'
  BY <1>0 DEF IoTypes, Same, CallFails
<1>2. OwnsFd'
  BY <1>0 DEF OwnsFd, Returns, CallFails
<1>3. CountsBytes'
  BY <1>0 DEF CountsBytes, Returns, CallFails
<1>4. HeldIsOpen'
  BY <1>0 DEF HeldIsOpen, Same, CallFails
<1>5. Told'
  BY <1>0 DEF CountsBytes, Told, NoneLeaks, Writes, Serial, Returns, Same, CallFails
<1>6. QED
  BY <1>1, <1>2, <1>3, <1>4, <1>5 DEF IoInv

(* tcp_send tries again. *)
LEMMA SendAgainStep ==
  ASSUME IoInv, SendAgain
  PROVE  IoInv'
<1> USE DEF Fds
<1>0. IoTypes /\ OwnsFd /\ CountsBytes /\ HeldIsOpen /\ Told
  BY DEF IoInv
<1>1. IoTypes'
  BY <1>0 DEF IoTypes, SendAgain
<1>2. OwnsFd'
  BY <1>0 DEF OwnsFd, SendAgain
<1>3. CountsBytes'
  BY <1>0 DEF CountsBytes, NoneLeaks, SendAgain
<1>4. HeldIsOpen'
  BY <1>0 DEF HeldIsOpen, SendAgain
<1>5. Told'
  BY <1>0 DEF Told, SendAgain
<1>6. QED
  BY <1>1, <1>2, <1>3, <1>4, <1>5 DEF IoInv

(* The other side has closed. *)
LEMMA StreamEndsStep ==
  ASSUME IoInv, StreamEnds
  PROVE  IoInv'
<1> USE DEF Fds
<1>0. IoTypes /\ OwnsFd /\ CountsBytes /\ HeldIsOpen /\ Told
  BY DEF IoInv
<1>1. IoTypes'
  BY <1>0 DEF IoTypes, Same, StreamEnds
<1>2. OwnsFd'
  BY <1>0 DEF OwnsFd, Returns, StreamEnds
<1>3. CountsBytes'
  BY <1>0 DEF CountsBytes, Returns, StreamEnds
<1>4. HeldIsOpen'
  BY <1>0 DEF HeldIsOpen, Same, StreamEnds
<1>5. Told'
  BY <1>0 DEF CountsBytes, Told, NoneLeaks, Reads, Writes, Serial, Returns, Same, StreamEnds
<1>6. QED
  BY <1>1, <1>2, <1>3, <1>4, <1>5 DEF IoInv

(* tcp_recv takes what has arrived, as far as there is room. *)
LEMMA TcpTakesStep ==
  ASSUME IoInv, TcpTakes
  PROVE  IoInv'
<1> USE DEF Fds
<1>0. IoTypes /\ OwnsFd /\ CountsBytes /\ HeldIsOpen /\ Told
  BY DEF IoInv
<1>1. IoTypes'
  BY <1>0 DEF IoTypes, OnlyMoves, TcpTakes
<1>2. OwnsFd'
  BY <1>0 DEF OwnsFd, Returns, TcpTakes
<1>3. CountsBytes'
  BY <1>0 DEF CountsBytes, Returns, TcpTakes
<1>4. HeldIsOpen'
  BY <1>0 DEF HeldIsOpen, OnlyMoves, TcpTakes
<1>5. Told'
  BY <1>0 DEF CountsBytes, Told, NoneLeaks, Writes, Serial, Returns, OnlyMoves, TcpTakes
<1>6. QED
  BY <1>1, <1>2, <1>3, <1>4, <1>5 DEF IoInv

(* udp_recv takes a datagram, cut to the room there is. *)
LEMMA UdpTakesStep ==
  ASSUME IoInv, UdpTakes
  PROVE  IoInv'
<1> USE DEF Fds
<1>0. IoTypes /\ OwnsFd /\ CountsBytes /\ HeldIsOpen /\ Told
  BY DEF IoInv
<1>1. IoTypes'
  BY <1>0 DEF IoTypes, OnlyMoves, UdpTakes
<1>2. OwnsFd'
  BY <1>0 DEF OwnsFd, Returns, UdpTakes
<1>3. CountsBytes'
  BY <1>0 DEF CountsBytes, Returns, UdpTakes
<1>4. HeldIsOpen'
  BY <1>0 DEF HeldIsOpen, OnlyMoves, UdpTakes
<1>5. Told'
  BY <1>0 DEF CountsBytes, Told, NoneLeaks, Writes, Serial, Returns, OnlyMoves, UdpTakes
<1>6. QED
  BY <1>1, <1>2, <1>3, <1>4, <1>5 DEF IoInv

(* serial_read and serial_flush take one byte. *)
LEMMA SerialTakesStep ==
  ASSUME IoInv, SerialTakes
  PROVE  IoInv'
<1> USE DEF Fds
<1>0. IoTypes /\ OwnsFd /\ CountsBytes /\ HeldIsOpen /\ Told
  BY DEF IoInv
<1>1. IoTypes'
  BY <1>0 DEF IoTypes, SerialTakes, OnlyMoves
<1>2. OwnsFd'
  BY <1>0 DEF OwnsFd, Returns, SerialTakes
<1>3. CountsBytes'
  BY <1>0 DEF IoTypes, CountsBytes, NoneLeaks, Returns, OnlyMoves, Wanted, SerialTakes
<1>4. HeldIsOpen'
  BY <1>0 DEF HeldIsOpen, OnlyMoves, SerialTakes
<1>5. Told'
  BY <1>0 DEF CountsBytes, Told, NoneLeaks, Writes, Returns, OnlyMoves, SerialTakes
<1>6. QED
  BY <1>1, <1>2, <1>3, <1>4, <1>5 DEF IoInv

(* A write goes whole or in part; a part is an error. *)
LEMMA GivesStep ==
  ASSUME IoInv, Gives
  PROVE  IoInv'
<1> USE DEF Fds
<1>0. IoTypes /\ OwnsFd /\ CountsBytes /\ HeldIsOpen /\ Told
  BY DEF IoInv
<1>1. IoTypes'
  BY <1>0 DEF IoTypes, OnlyMoves, Gives
<1>2. OwnsFd'
  BY <1>0 DEF OwnsFd, Returns, Gives
<1>3. CountsBytes'
  BY <1>0 DEF CountsBytes, Returns, Gives
<1>4. HeldIsOpen'
  BY <1>0 DEF HeldIsOpen, OnlyMoves, Gives
<1>5. Told'
  BY <1>0 DEF CountsBytes, Told, NoneLeaks, Writes, Serial, Returns, OnlyMoves, Gives
<1>6. QED
  BY <1>1, <1>2, <1>3, <1>4, <1>5 DEF IoInv

(* tcp_accept makes a descriptor of its own. *)
LEMMA AcceptsStep ==
  ASSUME IoInv, Accepts
  PROVE  IoInv'
<1> USE DEF Fds
<1>0. IoTypes /\ OwnsFd /\ CountsBytes /\ HeldIsOpen /\ Told
  BY DEF IoInv
<1>1. IoTypes'
  BY <1>0 DEF IoTypes, Closed, Accepts
<1>2. OwnsFd'
  BY <1>0 DEF OwnsFd, Returns, Accepts
<1>3. CountsBytes'
  BY <1>0 DEF CountsBytes, Returns, Accepts
<1>4. HeldIsOpen'
  BY <1>0 DEF IoTypes, HeldIsOpen, Closed, Accepts
<1>5. Told'
  BY <1>0 DEF IoTypes, CountsBytes, Told, NoneLeaks, Writes, Serial, Accepts
<1>6. QED
  BY <1>1, <1>2, <1>3, <1>4, <1>5 DEF IoInv

(* Every step keeps the invariant. *)
LEMMA IoNextStep ==
  ASSUME IoInv, [IoNext]_io
  PROVE  IoInv'
<1>1. CASE DrainSpins \/ UNCHANGED io
  BY <1>1 DEF DrainSpins, IoInv, IoTypes, OwnsFd, CountsBytes, HeldIsOpen, Told, NoneLeaks, io
<1>2. CASE Caller
  BY <1>2, CreateStep, ReleaseStep, StartStep DEF Caller, Waiting
<1>3. CASE Answer \/ SelectFails
  BY <1>3, SetUpStep, SetUpFailsStep, DrainTakesStep, DrainEndsStep, SelectFailsStep,
     SelectTimesOutStep, SelectReadyStep, CallFailsStep, SendAgainStep, StreamEndsStep,
     TcpTakesStep, UdpTakesStep, SerialTakesStep, GivesStep, AcceptsStep DEF Answer
<1>4. QED
  BY <1>1, <1>2, <1>3 DEF IoNext

(* The invariant of the wrappers: between calls each descriptor other than 0 is open exactly
   when the caller has it, within one only its own makes a difference; what a call has moved
   is what it returns. *)
THEOREM IoInvariance == IoSpec => []IoInv
<1>1. IoInit => IoInv
  BY IoInitInv
<1>2. IoInv /\ [IoNext]_io => IoInv'
  BY IoNextStep
<1>3. QED
  BY <1>1, <1>2, PTL DEF IoSpec

(* A wrapper that returns a number of bytes has moved as many, but for a datagram that was
   cut, one that fails has moved none
   but in a serial line or a short write, and no descriptor leaks, for any descriptors and
   sizes. *)
THEOREM ResultsAreTrue == IoSpec => []IoTellsTruth
<1>1. IoInv => IoTellsTruth
  BY DEF IoInv, Told, NoneLeaks, HeldIsOpen, IoTellsTruth
<1>2. QED
  BY <1>1, IoInvariance, PTL
=============================================================================
