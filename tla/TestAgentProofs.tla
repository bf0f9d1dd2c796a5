---------------------------- MODULE TestAgentProofs ----------------------------
(* Proofs about the event loop and the event queue of the test target, for any timers,
   delays, files and size of the table and however often the program pushes: the timers
   and the calls of file functions first, then the queue. *)
EXTENDS TestAgent, SequenceTheorems, WellFoundedInduction, TLAPS

USE StepAssumption, PushAssumption, DelaysAssumption

-----------------------------------------------------------------------------
(* Numbers and sequences. *)

Less == {p \in Nat \X Nat : p[1] < p[2]}

LEMMA Least ==
  ASSUME NEW T, T \subseteq Nat, T # {}
  PROVE  \E x \in T : \A y \in T : x <= y
<1>1. IsWellFoundedOn(Less, Nat)
  BY NatLessThanWellFounded DEF OpToRel, Less
<1>2. PICK x \in T : \A y \in T : ~ (<<y, x>> \in Less)
  BY <1>1, WFMin
<1>3. \A y \in T : x \in Nat /\ y \in Nat /\ ~ (y < x)
  BY <1>2 DEF Less
<1>4. QED
  BY <1>3

Joins(g, a, b)  == g = a \o b
Glued(g, a, b) ==
  /\ Len(g) = Len(a) + Len(b)
  /\ \A j \in 1 .. Len(a) : g[j] = a[j]
  /\ \A j \in Len(a) + 1 .. Len(g) : g[j] = b[j - Len(a)]
IsCut(g, h, i)  == g = SubSeq(h, 1, i - 1) \o SubSeq(h, i + 1, Len(h))
IsJoin(r, h, p, t) == r = SubSeq(h, 1, p) \o <<t>> \o SubSeq(h, p + 1, Len(h))
IsPart(a, h, m, n) == a = SubSeq(h, m, n)
Copied(a, h, m, n) ==
  /\ Len(a) = n - m + 1
  /\ \A j \in 1 .. n - m + 1 : a[j] = h[m + j - 1]

LEMMA Part ==
  ASSUME NEW S, NEW h \in Seq(S), NEW m \in 1 .. Len(h) + 1, NEW n \in m - 1 .. Len(h),
         NEW a, IsPart(a, h, m, n)
  PROVE  a \in Seq(S) /\ Copied(a, h, m, n)
<1>0. Len(h) \in Nat /\ m \in Int /\ n \in Int
  OBVIOUS
<1>1. \A j \in m .. n : h[j] \in S
  BY <1>0
<1>2. /\ SubSeq(h, m, n) \in Seq(S)
      /\ Len(SubSeq(h, m, n)) = IF m <= n THEN n - m + 1 ELSE 0
      /\ \A i \in 1 .. n - m + 1 : SubSeq(h, m, n)[i] = h[m + i - 1]
  BY <1>0, <1>1, SubSeqProperties
<1>3. m <= n \/ n - m + 1 = 0
  BY <1>0
<1>4. QED
  BY <1>0, <1>2, <1>3 DEF IsPart, Copied

LEMMA Concatenated ==
  ASSUME NEW S, NEW a \in Seq(S), NEW b \in Seq(S), NEW g, Joins(g, a, b)
  PROVE  g \in Seq(S) /\ Glued(g, a, b)
<1>0. Len(a) \in Nat /\ Len(b) \in Nat
  OBVIOUS
<1>1. g \in Seq(S) /\ Len(g) = Len(a) + Len(b)
  BY ConcatProperties DEF Joins
<1>2. \A j \in 1 .. Len(a) + Len(b) : g[j] = IF j <= Len(a) THEN a[j] ELSE b[j - Len(a)]
  BY ConcatProperties DEF Joins
<1>3. \A j \in 1 .. Len(a) : g[j] = a[j]
  BY <1>0, <1>2
<1>4. \A j \in Len(a) + 1 .. Len(g) : g[j] = b[j - Len(a)]
  BY <1>0, <1>1, <1>2
<1>5. QED
  BY <1>0, <1>1, <1>3, <1>4 DEF Glued

LEMMA Cut ==
  ASSUME NEW S, NEW h \in Seq(S), NEW i \in 1 .. Len(h), NEW g, IsCut(g, h, i)
  PROVE  /\ g \in Seq(S) /\ Len(g) = Len(h) - 1
         /\ \A j \in 1 .. i - 1 : g[j] = h[j]
         /\ \A j \in i .. Len(h) - 1 : g[j] = h[j + 1]
<1>0. Len(h) \in Nat /\ \A j \in 1 .. Len(h) : h[j] \in S
  OBVIOUS
<1>a. PICK a : IsPart(a, h, 1, i - 1)
  BY DEF IsPart
<1>b. PICK b : IsPart(b, h, i + 1, Len(h))
  BY DEF IsPart
<1>1. a \in Seq(S) /\ Len(a) = i - 1 /\ \A j \in 1 .. i - 1 : a[j] = h[j]
  <2>1. 1 \in 1 .. Len(h) + 1 /\ i - 1 \in 1 - 1 .. Len(h)
    BY <1>0
  <2>2. a \in Seq(S) /\ Copied(a, h, 1, i - 1)
    BY <2>1, <1>a, Part
  <2>3. QED
    BY <2>2, <1>0 DEF Copied
<1>2. b \in Seq(S) /\ Len(b) = Len(h) - i /\ \A j \in 1 .. Len(h) - i : b[j] = h[i + j]
  <2>1. i + 1 \in 1 .. Len(h) + 1 /\ Len(h) \in (i + 1) - 1 .. Len(h)
    BY <1>0
  <2>2. b \in Seq(S) /\ Copied(b, h, i + 1, Len(h))
    BY <2>1, <1>b, Part
  <2>3. QED
    BY <2>2, <1>0 DEF Copied
<1>3. /\ g \in Seq(S) /\ Len(g) = Len(a) + Len(b)
      /\ \A j \in 1 .. Len(a) : g[j] = a[j]
      /\ \A j \in Len(a) + 1 .. Len(g) : g[j] = b[j - Len(a)]
  <2>1. Joins(g, a, b)
    BY <1>a, <1>b DEF Joins, IsCut, IsPart
  <2>2. a \in Seq(S) /\ b \in Seq(S)
    BY <1>1, <1>2
  <2>3. g \in Seq(S) /\ Glued(g, a, b)
    BY <2>1, <2>2, Concatenated
  <2>4. QED
    BY <2>3 DEF Glued
<1>4. Len(g) = Len(h) - 1
  BY <1>0, <1>1, <1>2, <1>3
<1>5. \A j \in 1 .. i - 1 : g[j] = h[j]
  BY <1>1, <1>3
<1>6. \A j \in i .. Len(h) - 1 : g[j] = h[j + 1]
  <2> SUFFICES ASSUME NEW j \in i .. Len(h) - 1 PROVE g[j] = h[j + 1]
    OBVIOUS
  <2>1. g[j] = b[j - (i - 1)]
    BY <1>0, <1>1, <1>3, <1>4
  <2>2. j - (i - 1) \in 1 .. Len(h) - i /\ i + (j - (i - 1)) = j + 1
    BY <1>0
  <2>3. b[j - (i - 1)] = h[i + (j - (i - 1))]
    BY <1>2, <2>2
  <2>4. QED
    BY <2>1, <2>2, <2>3
<1>7. QED
  BY <1>3, <1>4, <1>5, <1>6

LEMMA Join ==
  ASSUME NEW S, NEW h \in Seq(S), NEW p \in 0 .. Len(h), NEW t \in S, NEW r, IsJoin(r, h, p, t)
  PROVE  /\ r \in Seq(S) /\ Len(r) = Len(h) + 1
         /\ \A j \in 1 .. p : r[j] = h[j]
         /\ r[p + 1] = t
         /\ \A j \in p + 2 .. Len(h) + 1 : r[j] = h[j - 1]
<1>0. Len(h) \in Nat /\ \A j \in 1 .. Len(h) : h[j] \in S
  OBVIOUS
<1>a. PICK a : IsPart(a, h, 1, p)
  BY DEF IsPart
<1>b. PICK b : IsPart(b, h, p + 1, Len(h))
  BY DEF IsPart
<1>c. PICK c : Joins(c, a, <<t>>)
  BY DEF Joins
<1>1. a \in Seq(S) /\ Len(a) = p /\ \A j \in 1 .. p : a[j] = h[j]
  <2>1. 1 \in 1 .. Len(h) + 1 /\ p \in 1 - 1 .. Len(h)
    BY <1>0
  <2>2. a \in Seq(S) /\ Copied(a, h, 1, p)
    BY <2>1, <1>a, Part
  <2>3. QED
    BY <2>2, <1>0 DEF Copied
<1>2. b \in Seq(S) /\ Len(b) = Len(h) - p /\ \A j \in 1 .. Len(h) - p : b[j] = h[p + j]
  <2>1. p + 1 \in 1 .. Len(h) + 1 /\ Len(h) \in (p + 1) - 1 .. Len(h)
    BY <1>0
  <2>2. b \in Seq(S) /\ Copied(b, h, p + 1, Len(h))
    BY <2>1, <1>b, Part
  <2>3. QED
    BY <2>2, <1>0 DEF Copied
<1>3. c \in Seq(S) /\ Len(c) = p + 1 /\ c[p + 1] = t /\ \A j \in 1 .. p : c[j] = h[j]
  <2>1. <<t>> \in Seq(S) /\ Len(<<t>>) = 1 /\ <<t>>[1] = t
    OBVIOUS
  <2>2. PICK u : u = <<t>>
    OBVIOUS
  <2>3. u \in Seq(S) /\ Len(u) = 1 /\ u[1] = t /\ Joins(c, a, u)
    BY <2>1, <2>2, <1>c
  <2>0. c \in Seq(S) /\ Glued(c, a, u)
    BY <1>1, <2>3, Concatenated
  <2>4. /\ c \in Seq(S) /\ Len(c) = Len(a) + Len(u)
        /\ \A j \in 1 .. Len(a) : c[j] = a[j]
        /\ \A j \in Len(a) + 1 .. Len(c) : c[j] = u[j - Len(a)]
    BY <2>0 DEF Glued
  <2>5. p + 1 \in Len(a) + 1 .. Len(c) /\ p + 1 - Len(a) = 1
    BY <1>0, <1>1, <2>3, <2>4
  <2>6. QED
    BY <1>1, <2>3, <2>4, <2>5
<1>4. /\ r \in Seq(S) /\ Len(r) = Len(c) + Len(b)
      /\ \A j \in 1 .. Len(c) : r[j] = c[j]
      /\ \A j \in Len(c) + 1 .. Len(r) : r[j] = b[j - Len(c)]
  <2>1. Joins(r, c, b)
    BY <1>a, <1>b, <1>c DEF Joins, IsJoin, IsPart
  <2>2. c \in Seq(S) /\ b \in Seq(S)
    BY <1>2, <1>3
  <2>3. r \in Seq(S) /\ Glued(r, c, b)
    BY <2>1, <2>2, Concatenated
  <2>4. QED
    BY <2>3 DEF Glued
<1>5. Len(r) = Len(h) + 1
  BY <1>0, <1>2, <1>3, <1>4
<1>6. (\A j \in 1 .. p : r[j] = h[j]) /\ r[p + 1] = t
  BY <1>3, <1>4
<1>7. \A j \in p + 2 .. Len(h) + 1 : r[j] = h[j - 1]
  <2> SUFFICES ASSUME NEW j \in p + 2 .. Len(h) + 1 PROVE r[j] = h[j - 1]
    OBVIOUS
  <2>1. r[j] = b[j - (p + 1)]
    BY <1>0, <1>3, <1>4, <1>5
  <2>2. j - (p + 1) \in 1 .. Len(h) - p /\ p + (j - (p + 1)) = j - 1
    BY <1>0
  <2>3. b[j - (p + 1)] = h[p + (j - (p + 1))]
    BY <1>2, <2>2
  <2>4. QED
    BY <2>1, <2>2, <2>3
<1>8. QED
  BY <1>4, <1>5, <1>6, <1>7

(* A queue with an element added in front, and without its last. *)
LEMMA InFront ==
  ASSUME NEW S, NEW s \in Seq(S), NEW x \in S, NEW t, t = <<x>> \o s
  PROVE  /\ t \in Seq(S) /\ Len(t) = Len(s) + 1 /\ DOMAIN t = 1 .. Len(s) + 1
         /\ Len(s) \in Nat /\ DOMAIN s = 1 .. Len(s)
         /\ t[1] = x
         /\ \A i \in 2 .. Len(s) + 1 : t[i] = s[i - 1]
         /\ \A i \in 1 .. Len(s) : t[i + 1] = s[i]
  OBVIOUS

LEMMA BackGone ==
  ASSUME NEW S, NEW s \in Seq(S), s # <<>>, NEW t, t = SubSeq(s, 1, Len(s) - 1)
  PROVE  /\ t \in Seq(S) /\ Len(t) = Len(s) - 1 /\ DOMAIN t = 1 .. Len(s) - 1
         /\ Len(s) \in Nat \ {0} /\ DOMAIN s = 1 .. Len(s)
         /\ \A i \in 1 .. Len(s) - 1 : t[i] = s[i]
<1>1. Len(s) \in Nat \ {0} /\ DOMAIN s = 1 .. Len(s)
  OBVIOUS
<1>2. \A i \in 1 .. Len(s) - 1 : s[i] \in S
  BY <1>1
<1>3. /\ t \in Seq(S) /\ Len(t) = Len(s) - 1
      /\ \A i \in 1 .. Len(s) - 1 : t[i] = s[1 + i - 1]
  BY <1>1, <1>2, SubSeqProperties
<1>4. \A i \in 1 .. Len(s) - 1 : 1 + i - 1 = i
  BY <1>1
<1>5. DOMAIN t = 1 .. Len(s) - 1
  BY <1>3
<1>6. QED
  BY <1>1, <1>3, <1>4, <1>5
-----------------------------------------------------------------------------
(* The list of timers, h with the time left of each in D. *)

Lists(h, D) ==
  /\ h \in Seq(Timers)
  /\ \A t \in Timers : D[t] # Off <=> \E i \in 1 .. Len(h) : h[i] = t
  /\ \A i, j \in 1 .. Len(h) : i < j => h[i] # h[j] /\ D[h[i]] <= D[h[j]]

LEMMA CutKeepsList ==
  ASSUME NEW h, NEW D \in [Timers -> Int], Lists(h, D), NEW i \in 1 .. Len(h), NEW g,
         IsCut(g, h, i)
  PROVE  Lists(g, [D EXCEPT ![h[i]] = Off])
<1>0. h \in Seq(Timers) /\ Len(h) \in Nat
  BY DEF Lists
<1>1. PICK n \in Nat : n = Len(h)
  BY <1>0
<1>2. /\ i \in 1 .. n
      /\ \A j \in 1 .. n : h[j] \in Timers
      /\ \A t \in Timers : D[t] # Off <=> \E j \in 1 .. n : h[j] = t
      /\ \A j, k \in 1 .. n : j < k => h[j] # h[k] /\ D[h[j]] <= D[h[k]]
  BY <1>0, <1>1 DEF Lists
<1>3. /\ g \in Seq(Timers) /\ Len(g) = n - 1
      /\ \A j \in 1 .. i - 1 : g[j] = h[j]
      /\ \A j \in i .. n - 1 : g[j] = h[j + 1]
  BY <1>0, <1>1, Cut
<1>4. PICK E : E = [D EXCEPT ![h[i]] = Off]
  OBVIOUS
<1>5. \A t \in Timers : E[t] = IF t = h[i] THEN Off ELSE D[t]
  BY <1>2, <1>4
<1>6. ASSUME NEW j \in 1 .. n - 1
      PROVE  \E k \in 1 .. n : k # i /\ g[j] = h[k] /\ (j < i => k = j) /\ (j >= i => k = j + 1)
  <2>1. CASE j < i
    <3>1. j \in 1 .. i - 1 /\ j \in 1 .. n
      BY <2>1, <1>2
    <3>2. QED
      BY <2>1, <3>1, <1>2, <1>3
  <2>2. CASE j >= i
    <3>1. j \in i .. n - 1 /\ j + 1 \in 1 .. n /\ j + 1 # i
      BY <2>2, <1>2
    <3>2. QED
      BY <2>2, <3>1, <1>2, <1>3
  <2>3. QED
    BY <2>1, <2>2, <1>2
<1>7. ASSUME NEW k \in 1 .. n, k # i
      PROVE  \E j \in 1 .. n - 1 : g[j] = h[k]
  <2>1. CASE k < i
    <3>1. k \in 1 .. i - 1 /\ k \in 1 .. n - 1
      BY <2>1, <1>2
    <3>2. QED
      BY <3>1, <1>3
  <2>2. CASE k > i
    <3>1. k - 1 \in i .. n - 1 /\ k - 1 \in 1 .. n - 1 /\ (k - 1) + 1 = k
      BY <2>2, <1>2
    <3>2. QED
      BY <3>1, <1>3
  <2>3. QED
    BY <2>1, <2>2, <1>2, <1>7
<1>8. \A k \in 1 .. n : k # i => h[k] # h[i]
  BY <1>2
<1>9. ASSUME NEW t \in Timers PROVE E[t] # Off <=> \E j \in 1 .. n - 1 : g[j] = t
  <2>1. CASE t = h[i]
    <3>1. E[t] = Off
      BY <2>1, <1>5
    <3>2. \A j \in 1 .. n - 1 : g[j] # t
      BY <2>1, <1>6, <1>8
    <3>3. QED
      BY <3>1, <3>2
  <2>2. CASE t # h[i]
    <3>1. E[t] # Off <=> \E k \in 1 .. n : h[k] = t
      BY <2>2, <1>2, <1>5
    <3>2. (\E k \in 1 .. n : h[k] = t) => \E j \in 1 .. n - 1 : g[j] = t
      BY <2>2, <1>7
    <3>3. (\E j \in 1 .. n - 1 : g[j] = t) => \E k \in 1 .. n : h[k] = t
      BY <1>6
    <3>4. QED
      BY <3>1, <3>2, <3>3
  <2>3. QED
    BY <2>1, <2>2
<1>10. ASSUME NEW j \in 1 .. n - 1, NEW k \in 1 .. n - 1, j < k
       PROVE  g[j] # g[k] /\ E[g[j]] <= E[g[k]]
  <2>1. PICK a \in 1 .. n : a # i /\ g[j] = h[a] /\ (j < i => a = j) /\ (j >= i => a = j + 1)
    BY <1>6
  <2>2. PICK b \in 1 .. n : b # i /\ g[k] = h[b] /\ (k < i => b = k) /\ (k >= i => b = k + 1)
    BY <1>6
  <2>3. a < b
    BY <2>1, <2>2, <1>2, <1>10
  <2>4. h[a] # h[b] /\ D[h[a]] <= D[h[b]] /\ h[a] # h[i] /\ h[b] # h[i]
        /\ h[a] \in Timers /\ h[b] \in Timers
    BY <2>1, <2>2, <2>3, <1>2, <1>8
  <2>5. QED
    BY <2>1, <2>2, <2>4, <1>5
<1>11. Lists(g, E)
  BY <1>3, <1>9, <1>10 DEF Lists
<1>12. QED
  BY <1>4, <1>11

LEMMA JoinKeepsList ==
  ASSUME NEW h, NEW D \in [Timers -> Int], Lists(h, D), NEW t \in Timers, D[t] = Off,
         NEW d \in Nat, NEW p \in 0 .. Len(h),
         p < Len(h) => d < D[h[p + 1]], \A j \in 1 .. p : D[h[j]] <= d,
         NEW r, IsJoin(r, h, p, t)
  PROVE  Lists(r, [D EXCEPT ![t] = d])
<1>0. h \in Seq(Timers) /\ Len(h) \in Nat
  BY DEF Lists
<1>1. PICK n \in Nat : n = Len(h)
  BY <1>0
<1>2. /\ p \in 0 .. n
      /\ \A j \in 1 .. n : h[j] \in Timers /\ h[j] # t
      /\ \A u \in Timers : D[u] # Off <=> \E j \in 1 .. n : h[j] = u
      /\ \A j, k \in 1 .. n : j < k => h[j] # h[k] /\ D[h[j]] <= D[h[k]]
  BY <1>0, <1>1 DEF Lists
<1>3. /\ r \in Seq(Timers) /\ Len(r) = n + 1 /\ r[p + 1] = t
      /\ \A j \in 1 .. p : r[j] = h[j]
      /\ \A j \in p + 2 .. n + 1 : r[j] = h[j - 1]
  <2>1. p \in 0 .. Len(h) /\ t \in Timers
    OBVIOUS
  <2>2. /\ r \in Seq(Timers) /\ Len(r) = Len(h) + 1
        /\ \A j \in 1 .. p : r[j] = h[j]
        /\ r[p + 1] = t
        /\ \A j \in p + 2 .. Len(h) + 1 : r[j] = h[j - 1]
    BY <1>0, Join
  <2>3. QED
    BY <2>2, <1>1
<1>4. PICK E : E = [D EXCEPT ![t] = d]
  OBVIOUS
<1>5. \A u \in Timers : E[u] = IF u = t THEN d ELSE D[u]
  BY <1>4
<1>6. ASSUME NEW j \in 1 .. n + 1, j # p + 1
      PROVE  \E k \in 1 .. n : r[j] = h[k] /\ (j <= p => k = j) /\ (j > p => k = j - 1 /\ k > p)
  <2>1. CASE j <= p
    <3>1. j \in 1 .. p /\ j \in 1 .. n
      BY <2>1, <1>2
    <3>2. QED
      BY <2>1, <3>1, <1>2, <1>3
  <2>2. CASE j > p
    <3>1. j \in p + 2 .. n + 1 /\ j - 1 \in 1 .. n /\ j - 1 > p
      BY <2>2, <1>2, <1>6
    <3>2. QED
      BY <2>2, <3>1, <1>2, <1>3, SMTT(30)
  <2>3. QED
    BY <2>1, <2>2, <1>2
<1>7. ASSUME NEW k \in 1 .. n
      PROVE  \E j \in 1 .. n + 1 : r[j] = h[k]
  <2>1. CASE k <= p
    <3>1. k \in 1 .. p /\ k \in 1 .. n + 1
      BY <2>1, <1>2
    <3>2. QED
      BY <3>1, <1>3
  <2>2. CASE k > p
    <3>1. k + 1 \in p + 2 .. n + 1 /\ k + 1 \in 1 .. n + 1 /\ (k + 1) - 1 = k
      BY <2>2, <1>2
    <3>2. QED
      BY <3>1, <1>3
  <2>3. QED
    BY <2>1, <2>2, <1>2
<1>8. \A j \in 1 .. n : (j <= p => D[h[j]] <= d) /\ (j > p => d <= D[h[j]])
  <2> SUFFICES ASSUME NEW j \in 1 .. n, j > p PROVE d <= D[h[j]]
    BY <1>2
  <2>1. p + 1 \in 1 .. n /\ p < n
    BY <1>2
  <2>2. d < D[h[p + 1]] /\ D[h[p + 1]] \in Int /\ D[h[j]] \in Int
    BY <2>1, <1>1, <1>2
  <2>3. p + 1 < j => D[h[p + 1]] <= D[h[j]]
    BY <2>1, <1>2
  <2>4. j = p + 1 \/ p + 1 < j
    BY <2>1
  <2>5. QED
    BY <2>2, <2>3, <2>4
<1>9. ASSUME NEW u \in Timers PROVE E[u] # Off <=> \E j \in 1 .. n + 1 : r[j] = u
  <2>1. CASE u = t
    <3>1. E[u] # Off
      BY <2>1, <1>5 DEF Off
    <3>2. p + 1 \in 1 .. n + 1
      BY <1>2
    <3>3. QED
      BY <2>1, <3>1, <3>2, <1>3
  <2>2. CASE u # t
    <3>1. E[u] # Off <=> \E k \in 1 .. n : h[k] = u
      BY <2>2, <1>2, <1>5
    <3>2. (\E k \in 1 .. n : h[k] = u) => \E j \in 1 .. n + 1 : r[j] = u
      BY <1>7
    <3>3. (\E j \in 1 .. n + 1 : r[j] = u) => \E k \in 1 .. n : h[k] = u
      BY <2>2, <1>3, <1>6
    <3>4. QED
      BY <3>1, <3>2, <3>3
  <2>3. QED
    BY <2>1, <2>2
<1>10. ASSUME NEW j \in 1 .. n + 1, NEW k \in 1 .. n + 1, j < k
       PROVE  r[j] # r[k] /\ E[r[j]] <= E[r[k]]
  <2>1. CASE j = p + 1
    <3>1. k > p /\ k # p + 1
      BY <2>1, <1>2, <1>10
    <3>2. PICK b \in 1 .. n : r[k] = h[b] /\ b > p
      BY <3>1, <1>6
    <3>3. h[b] \in Timers /\ h[b] # t /\ d <= D[h[b]]
      BY <3>2, <1>2, <1>8
    <3>4. E[h[b]] = D[h[b]] /\ E[t] = d
      BY <3>3, <1>5
    <3>5. QED
      BY <2>1, <3>2, <3>3, <3>4, <1>3
  <2>2. CASE k = p + 1
    <3>1. j <= p /\ j # p + 1
      BY <2>2, <1>2, <1>10
    <3>2. PICK b \in 1 .. n : r[j] = h[b] /\ b <= p
      BY <3>1, <1>6
    <3>3. h[b] \in Timers /\ h[b] # t /\ D[h[b]] <= d
      BY <3>2, <1>2, <1>8
    <3>4. E[h[b]] = D[h[b]] /\ E[t] = d
      BY <3>3, <1>5
    <3>5. QED
      BY <2>2, <3>2, <3>3, <3>4, <1>3
  <2>3. CASE j # p + 1 /\ k # p + 1
    <3>1. PICK a \in 1 .. n : r[j] = h[a] /\ (j <= p => a = j) /\ (j > p => a = j - 1)
      BY <2>3, <1>6
    <3>2. PICK b \in 1 .. n : r[k] = h[b] /\ (k <= p => b = k) /\ (k > p => b = k - 1)
      BY <2>3, <1>6
    <3>3. a < b
      BY <2>3, <3>1, <3>2, <1>2, <1>10
    <3>4. h[a] # h[b] /\ D[h[a]] <= D[h[b]] /\ h[a] # t /\ h[b] # t
          /\ h[a] \in Timers /\ h[b] \in Timers
      BY <3>3, <1>2
    <3>5. QED
      BY <3>1, <3>2, <3>4, <1>5
  <2>4. QED
    BY <2>1, <2>2, <2>3
<1>11. Lists(r, E)
  BY <1>3, <1>9, <1>10 DEF Lists
<1>12. QED
  BY <1>4, <1>11

-----------------------------------------------------------------------------
(* The loop's own state. *)

(* The events of a slot are those that were reported of it; if it has any and a function
   for them, the file is the one that was polled, or was registered since. *)
EntryReported(s) ==
  /\ slots[s].revents = reported[s].events
  /\ slots[s].revents # {} /\ (slots[s].recv \/ slots[s].send \/ slots[s].eventf) =>
       slots[s].file = reported[s].file \/ s \in renewed

ReportsAreKept ==
  phase \in {"dispatch", "callback"} => \A s \in Slots : EntryReported(s)

(* The timers, apart from the rest. *)
Delay == Nat \union {Off}
TimersOK == Lists(head, due) /\ due \in [Timers -> Delay]

LEMMA DelaysAreInt ==
  ASSUME NEW D \in [Timers -> Delay]
  PROVE  D \in [Timers -> Int]
BY DEF Delay, Off

(* timer_cancel. *)
LEMMA WithoutLists ==
  ASSUME NEW t \in Timers, TimersOK
  PROVE  Lists(Without(t), [due EXCEPT ![t] = Off])
<1>1. due \in [Timers -> Int] /\ Lists(head, due) /\ DOMAIN head = 1 .. Len(head)
  BY DelaysAreInt DEF TimersOK, Lists
<1>2. CASE due[t] = Off
  <2>1. Without(t) = head
    BY <1>2 DEF Without
  <2>2. [due EXCEPT ![t] = Off] = due
    BY <1>1, <1>2
  <2>3. QED
    BY <1>1, <2>1, <2>2
<1>3. CASE due[t] # Off
  <2>1. PICK i : i = CHOOSE j \in DOMAIN head : head[j] = t
    OBVIOUS
  <2>2. i \in 1 .. Len(head) /\ head[i] = t
    BY <1>1, <1>3, <2>1 DEF Lists
  <2>3. PICK g : g = Without(t)
    OBVIOUS
  <2>4. IsCut(g, head, i)
    BY <1>3, <2>1, <2>3 DEF Without, IsCut
  <2>5. Lists(g, [due EXCEPT ![head[i]] = Off])
    BY <1>1, <2>2, <2>4, CutKeepsList
  <2>6. QED
    BY <2>2, <2>3, <2>5
<1>4. QED
  BY <1>2, <1>3

(* The place timer_set looks for exists. *)
LEMMA EarlierIs ==
  ASSUME NEW h \in Seq(Timers), NEW d \in Nat, due \in [Timers -> Int]
  PROVE  /\ Earlier(h, d) \in 0 .. Len(h)
         /\ Earlier(h, d) < Len(h) => d < due[h[Earlier(h, d) + 1]]
         /\ \A j \in 1 .. Earlier(h, d) : due[h[j]] <= d
<1>1. PICK n \in Nat : n = Len(h)
  OBVIOUS
<1>2. \A j \in 1 .. n : due[h[j]] \in Int
  BY <1>1
<1>3. PICK T : T = {i \in 0 .. n : i < n => d < due[h[i + 1]]}
  OBVIOUS
<1>4. T \subseteq Nat /\ n \in T
  BY <1>3
<1>5. PICK i \in T : \A y \in T : i <= y
  BY <1>4, Least
<1>6. i \in 0 .. n /\ (i < n => d < due[h[i + 1]])
  BY <1>3, <1>5
<1>7. ASSUME NEW j \in 1 .. i PROVE due[h[j]] <= d
  <2>1. j - 1 \in 0 .. n /\ j - 1 < n /\ j - 1 < i /\ j - 1 + 1 = j /\ j \in 1 .. n
    BY <1>6
  <2>2. j - 1 \notin T
    BY <2>1, <1>4, <1>5, <1>6
  <2>3. ~ (d < due[h[j]])
    BY <2>1, <2>2, <1>3
  <2>4. QED
    BY <2>1, <2>3, <1>2
<1>8. \E k \in 0 .. Len(h) :
        (k < Len(h) => d < due[h[k + 1]]) /\ \A j \in 1 .. k : due[h[j]] <= d
  BY <1>1, <1>6, <1>7
<1>9. QED
  BY <1>8 DEF Earlier

(* timer_set. *)
LEMMA TimerSetLists ==
  ASSUME NEW t \in Timers, NEW d \in Nat, TimersOK, TimerSet(t, d)
  PROVE  Lists(head', due') /\ due' \in [Timers -> Delay]
<1>1. due \in [Timers -> Int] /\ due' = [due EXCEPT ![t] = d]
  BY DelaysAreInt DEF TimerSet, TimersOK
<1>2. due' \in [Timers -> Delay]
  BY <1>1 DEF TimersOK, Delay
<1>3. PICK g : g = Without(t)
  OBVIOUS
<1>4. PICK E : E = [due EXCEPT ![t] = Off]
  OBVIOUS
<1>5. Lists(g, E) /\ E \in [Timers -> Int]
  <2>1. Off \in Int
    BY DEF Off
  <2>2. E \in [Timers -> Int]
    BY <1>1, <1>4, <2>1
  <2>3. QED
    BY <1>3, <1>4, <2>2, WithoutLists
<1>6. PICK p : p = Earlier(g, d)
  OBVIOUS
<1>7. g \in Seq(Timers) /\ \A j \in 1 .. Len(g) : g[j] \in Timers
  BY <1>5 DEF Lists
<1>8. /\ p \in 0 .. Len(g)
      /\ p < Len(g) => d < due[g[p + 1]]
      /\ \A j \in 1 .. p : due[g[j]] <= d
  BY <1>1, <1>6, <1>7, EarlierIs
<1>9. E[t] = Off /\ \A u \in Timers : u # t => E[u] = due[u]
  BY <1>1, <1>4
<1>10. \A j \in 1 .. Len(g) : E[g[j]] = due[g[j]]
  <2>1. \A j \in 1 .. Len(g) : E[g[j]] # Off
    BY <1>5, <1>7 DEF Lists
  <2>2. QED
    BY <2>1, <1>7, <1>9
<1>11. /\ p < Len(g) => d < E[g[p + 1]]
       /\ \A j \in 1 .. p : E[g[j]] <= d
  <2>1. Len(g) \in Nat
    BY <1>7
  <2>2. p < Len(g) => p + 1 \in 1 .. Len(g)
    BY <1>8, <2>1
  <2>3. \A j \in 1 .. p : j \in 1 .. Len(g)
    BY <1>8, <2>1
  <2>4. QED
    BY <1>8, <1>10, <2>2, <2>3
<1>12. PICK r : r = head'
  OBVIOUS
<1>13. IsJoin(r, g, p, t)
  BY <1>3, <1>6, <1>12 DEF TimerSet, IsJoin
<1>14. Lists(r, [E EXCEPT ![t] = d])
  BY <1>5, <1>8, <1>9, <1>11, <1>13, JoinKeepsList
<1>15. [E EXCEPT ![t] = d] = due'
  BY <1>1, <1>4
<1>16. QED
  BY <1>2, <1>12, <1>14, <1>15

LEMMA TimerCancelLists ==
  ASSUME NEW t \in Timers, TimersOK, TimerCancel(t)
  PROVE  Lists(head', due') /\ due' \in [Timers -> Delay]
<1>1. due' = [due EXCEPT ![t] = Off] /\ head' = Without(t)
  BY DEF TimerCancel
<1>2. due' \in [Timers -> Delay]
  BY <1>1 DEF TimersOK, Delay
<1>3. QED
  BY <1>1, <1>2, WithoutLists

LEMMA FireLists ==
  ASSUME TimersOK, Fire
  PROVE  Lists(head', due') /\ due' \in [Timers -> Delay] /\ Head(head) \in Timers
<1>1. /\ head # <<>> /\ head' = Tail(head)
      /\ due' = [due EXCEPT ![Head(head)] = Off]
  BY DEF Fire
<1>2. head \in Seq(Timers) /\ due \in [Timers -> Int] /\ Lists(head, due)
  BY DelaysAreInt DEF TimersOK, Lists
<1>3. Head(head) \in Timers /\ Head(head) = head[1] /\ 1 \in 1 .. Len(head)
  BY <1>1, <1>2
<1>4. due' \in [Timers -> Delay]
  BY <1>1, <1>3 DEF TimersOK, Delay
<1>5. PICK h : h = head
  OBVIOUS
<1>6. IsCut(Tail(h), h, 1)
  <2>1. SubSeq(h, 1, 1 - 1) = <<>>
    BY SubSeqEmpty
  <2>2. Tail(h) = SubSeq(h, 2, Len(h)) /\ Tail(h) \in Seq(Timers)
    BY <1>1, <1>2, <1>5
  <2>3. <<>> \o Tail(h) = Tail(h)
    BY <2>2, ConcatEmptySeq
  <2>4. QED
    BY <2>1, <2>2, <2>3 DEF IsCut
<1>7. Lists(Tail(h), [due EXCEPT ![h[1]] = Off])
  BY <1>2, <1>3, <1>5, <1>6, CutKeepsList
<1>8. QED
  BY <1>1, <1>3, <1>4, <1>5, <1>7

-----------------------------------------------------------------------------
(* The table of files. *)

Records == [file : Files \union {NoFile}, events : SUBSET {"in", "out"},
            recv : BOOLEAN, send : BOOLEAN, eventf : BOOLEAN, revents : SUBSET {"in", "out"}]

Reports == [file : Files \union {NoFile}, events : SUBSET {"in", "out"}]

TableOK ==
  /\ slots \in [Slots -> Records] /\ renewed \subseteq Slots
  /\ \A s \in Slots : slots[s].file = NoFile => slots[s].events = {}
  /\ reported \in [Slots -> Reports]

PlaceOK ==
  /\ phase \in {"advance", "handler", "poll", "dispatch", "callback"}
  /\ running \in Timers
  /\ wait \in Delay
  /\ pos \in [slot : 1 .. POLL_EVENT_NFD + 1, received : BOOLEAN]

LoopInv == TimersOK /\ TableOK /\ PlaceOK /\ WakesForFirst /\ ReportsAreKept

LEMMA LoopInvGives ==
  ASSUME LoopInv
  PROVE  LoopTypeOK /\ TimersAreListed
<1>1. head \in Seq(Timers) /\ DOMAIN head = 1 .. Len(head)
  BY DEF LoopInv, TimersOK, Lists
<1>2. LoopTypeOK
  BY <1>1 DEF LoopInv, TimersOK, TableOK, PlaceOK, Records, Reports, Delay, LoopTypeOK
<1>3. TimersAreListed
  BY <1>1 DEF LoopInv, TimersOK, Lists, TimersAreListed
<1>4. QED
  BY <1>2, <1>3

(* file_event_find gives a slot of the table, or none. *)
LEMMA SlotIs ==
  ASSUME NEW f
  PROVE  /\ Slot(f) # 0 => Slot(f) \in Slots
         /\ (\E s \in Slots : slots[s].file = f) => Slot(f) \in Slots
<1>1. PICK own : own = {s \in Slots : slots[s].file = f}
  OBVIOUS
<1>2. PICK free : free = {s \in Slots : slots[s].file = NoFile}
  OBVIOUS
<1>3. own \subseteq Nat /\ free \subseteq Nat /\ own \subseteq Slots /\ free \subseteq Slots
  BY <1>1, <1>2 DEF Slots
<1>4. own # {} => \E s \in own : \A r \in own : s <= r
  BY <1>3, Least
<1>5. free # {} => \E s \in free : \A r \in free : s <= r
  BY <1>3, Least
<1>6. Slot(f) = IF own # {} THEN CHOOSE s \in own : \A r \in own : s <= r
                ELSE IF free # {} THEN CHOOSE s \in free : \A r \in free : s <= r ELSE 0
  BY <1>1, <1>2 DEF Slot
<1>7. CASE own # {}
  BY <1>3, <1>4, <1>6, <1>7
<1>8. CASE own = {} /\ free # {}
  BY <1>1, <1>3, <1>5, <1>6, <1>8
<1>9. CASE own = {} /\ free = {}
  BY <1>1, <1>6, <1>9
<1>10. QED
  BY <1>7, <1>8, <1>9

LEMMA RegisterKeeps ==
  ASSUME NEW f \in Files, NEW events \in SUBSET {"in", "out"},
         NEW r \in BOOLEAN, NEW s \in BOOLEAN, NEW p \in BOOLEAN,
         TableOK, ReportsAreKept, Register(f, events, Funcs(r, s, p))
  PROVE  TableOK' /\ ReportsAreKept'
<1>1. PICK k : k = Slot(f)
  OBVIOUS
<1>2. /\ slots' = [slots EXCEPT ![k] = Entry(f, events, Funcs(r, s, p), slots[k].revents)]
      /\ k \in Slots /\ UNCHANGED <<phase, reported>>
      /\ renewed' = renewed \union (IF phase = "callback" THEN {k} ELSE {})
      /\ phase \in {"handler", "callback"}
  BY <1>1, SlotIs DEF Register, InHandler
<1>3. Entry(f, events, Funcs(r, s, p), slots[k].revents) \in Records
  BY <1>2 DEF Entry, Funcs, Records, TableOK
<1>4. slots' \in [Slots -> Records] /\ \A i \in Slots \ {k} : slots'[i] = slots[i]
  BY <1>2, <1>3 DEF TableOK
<1>a. slots'[k].file = f /\ f # NoFile /\ slots'[k].revents = slots[k].revents
  BY <1>2, FilesAssumption DEF Entry, TableOK
<1>5. TableOK'
  BY <1>2, <1>4, <1>a DEF TableOK
<1>6. ReportsAreKept'
  <2> SUFFICES ASSUME phase = "callback", NEW i \in Slots PROVE EntryReported(i)'
    BY <1>2 DEF ReportsAreKept
  <2>1. EntryReported(i)
    BY DEF ReportsAreKept
  <2>2. i \in renewed => i \in renewed'
    BY <1>2
  <2>3. CASE i = k
    <3>1. k \in renewed'
      BY <1>2
    <3>2. QED
      BY <2>1, <2>3, <3>1, <1>2, <1>a DEF EntryReported
  <2>4. CASE i # k
    BY <2>1, <2>2, <2>4, <1>2, <1>4 DEF EntryReported
  <2>5. QED
    BY <2>3, <2>4
<1>7. QED
  BY <1>5, <1>6

LEMMA UnregKeeps ==
  ASSUME NEW f \in Files, TableOK, ReportsAreKept, FileEventUnreg(f)
  PROVE  TableOK' /\ ReportsAreKept'
<1>1. PICK k : k = Slot(f)
  OBVIOUS
<1>2. /\ slots' = [slots EXCEPT ![k] = Entry(NoFile, {}, NoFuncs, slots[k].revents)]
      /\ k \in Slots
      /\ UNCHANGED <<phase, reported, renewed>>
  BY <1>1, SlotIs DEF FileEventUnreg
<1>3. /\ Entry(NoFile, {}, NoFuncs, slots[k].revents) \in Records
      /\ ~slots'[k].recv /\ ~slots'[k].send /\ ~slots'[k].eventf
      /\ slots'[k].revents = slots[k].revents
      /\ slots'[k].events = {}
  BY <1>2 DEF Entry, NoFuncs, Funcs, Records, TableOK
<1>4. slots' \in [Slots -> Records] /\ \A i \in Slots \ {k} : slots'[i] = slots[i]
  BY <1>2, <1>3 DEF TableOK
<1>5. TableOK'
  BY <1>2, <1>3, <1>4 DEF TableOK
<1>6. ReportsAreKept'
  BY <1>2, <1>3, <1>4 DEF ReportsAreKept, EntryReported
<1>7. QED
  BY <1>5, <1>6

(* A call of a handler or callback, and its return. *)
LEMMA CallKeeps ==
  ASSUME LoopInv, InHandler,
         UNCHANGED <<phase, running, wait, pos>>,
         Lists(head', due') /\ due' \in [Timers -> Delay],
         TableOK' /\ ReportsAreKept'
  PROVE  LoopInv'
<1>1. TimersOK'
  BY DEF TimersOK
<1>2. PlaceOK'
  BY DEF LoopInv, PlaceOK
<1>3. WakesForFirst'
  BY DEF WakesForFirst, InHandler
<1>4. QED
  BY <1>1, <1>2, <1>3 DEF LoopInv

LEMMA TimerCallKeeps ==
  ASSUME LoopInv, NEW t \in Timers,
         TimerCancel(t) \/ \E d \in Nat : TimerSet(t, d)
  PROVE  LoopInv'
<1>1. TimersOK /\ TableOK /\ ReportsAreKept
  BY DEF LoopInv
<1>2. Lists(head', due') /\ due' \in [Timers -> Delay]
  BY <1>1, TimerCancelLists, TimerSetLists
<1>3. InHandler /\ UNCHANGED <<fileVars, phase, running, wait, pos, reported>>
  BY DEF TimerCancel, TimerSet
<1>4. TableOK' /\ ReportsAreKept'
  BY <1>1, <1>3 DEF TableOK, ReportsAreKept, EntryReported, fileVars
<1>5. QED
  BY <1>2, <1>3, <1>4, CallKeeps

LEMMA FileCallKeeps ==
  ASSUME LoopInv, NEW f \in Files,
         \/ \E r, s \in BOOLEAN : FileEventReg(f, r, s)
         \/ \E v \in SUBSET {"in", "out"} : FileEventRegPollf(f, v)
         \/ FileEventUnreg(f)
  PROVE  LoopInv'
<1>1. TimersOK /\ TableOK /\ ReportsAreKept
  BY DEF LoopInv
<1>2. InHandler /\ UNCHANGED <<timerVars, phase, running, wait, pos>>
  BY DEF FileEventReg, FileEventRegPollf, Register, FileEventUnreg
<1>3. Lists(head', due') /\ due' \in [Timers -> Delay]
  BY <1>1, <1>2 DEF TimersOK, timerVars
<1>4. CASE \E r, s \in BOOLEAN : FileEventReg(f, r, s)
  <2>1. PICK r \in BOOLEAN, s \in BOOLEAN : FileEventReg(f, r, s)
    BY <1>4
  <2>2. PICK v : v = (IF r THEN {"in"} ELSE {}) \union (IF s THEN {"out"} ELSE {})
    OBVIOUS
  <2>3. v \in SUBSET {"in", "out"} /\ FALSE \in BOOLEAN /\ Register(f, v, Funcs(r, s, FALSE))
    BY <2>1, <2>2 DEF FileEventReg
  <2>4. TableOK' /\ ReportsAreKept'
    BY <1>1, <2>3, RegisterKeeps
  <2>5. QED
    BY <1>2, <1>3, <2>4, CallKeeps
<1>5. CASE \E v \in SUBSET {"in", "out"} : FileEventRegPollf(f, v)
  <2>1. PICK v \in SUBSET {"in", "out"} : FileEventRegPollf(f, v)
    BY <1>5
  <2>2. Register(f, v, Funcs(FALSE, FALSE, TRUE)) /\ FALSE \in BOOLEAN /\ TRUE \in BOOLEAN
    BY <2>1 DEF FileEventRegPollf
  <2>3. TableOK' /\ ReportsAreKept'
    BY <1>1, <2>2, RegisterKeeps
  <2>4. QED
    BY <1>2, <1>3, <2>3, CallKeeps
<1>6. CASE FileEventUnreg(f)
  <2>1. TableOK' /\ ReportsAreKept'
    BY <1>1, <1>6, UnregKeeps
  <2>2. QED
    BY <1>2, <1>3, <2>1, CallKeeps
<1>7. QED
  BY <1>4, <1>5, <1>6

LEMMA ReturnKeepsLoop ==
  ASSUME LoopInv, Return
  PROVE  LoopInv'
<1>1. /\ UNCHANGED <<timerVars, fileVars, running, wait, pos, reported>>
      /\ phase' \in {"advance", "dispatch"}
      /\ phase' = "dispatch" => phase = "callback"
  BY DEF Return, InHandler
<1>2. TimersOK /\ TableOK /\ PlaceOK /\ ReportsAreKept
  BY DEF LoopInv
<1>3. TimersOK' /\ TableOK'
  BY <1>1, <1>2 DEF TimersOK, TableOK, timerVars, fileVars
<1>4. PlaceOK' /\ WakesForFirst'
  BY <1>1, <1>2 DEF PlaceOK, WakesForFirst
<1>5. ReportsAreKept'
  BY <1>1, <1>2 DEF ReportsAreKept, EntryReported, fileVars
<1>6. QED
  BY <1>3, <1>4, <1>5 DEF LoopInv

-----------------------------------------------------------------------------
(* run_main. *)

LEMMA LoopInitInv ==
  ASSUME LoopInit
  PROVE  LoopInv
<1>1. head = <<>> /\ due = [t \in Timers |-> Off]
  BY DEF LoopInit
<1>2. head \in Seq(Timers) /\ Len(head) = 0
  BY <1>1
<1>3. due \in [Timers -> Delay] /\ \A t \in Timers : due[t] = Off
  BY <1>1 DEF Delay
<1>4. TimersOK
  BY <1>2, <1>3 DEF TimersOK, Lists
<1>5. Entry(NoFile, {}, NoFuncs, {}) \in Records
  BY DEF Entry, NoFuncs, Funcs, Records
<1>a. \A s \in Slots : slots[s].events = {}
  BY DEF LoopInit, Entry
<1>b. Nothing \in [Slots -> Reports]
  BY DEF Nothing, Reports
<1>6. TableOK
  BY <1>5, <1>a, <1>b DEF LoopInit, TableOK
<1>7. PlaceOK
  BY TableAssumption DEF LoopInit, PlaceOK, Delay
<1>8. WakesForFirst /\ ReportsAreKept
  BY DEF LoopInit, WakesForFirst, ReportsAreKept
<1>9. QED
  BY <1>4, <1>6, <1>7, <1>8 DEF LoopInv

LEMMA FireKeeps ==
  ASSUME LoopInv, Fire
  PROVE  LoopInv'
<1>1. TimersOK /\ TableOK /\ PlaceOK
  BY DEF LoopInv
<1>2. Lists(head', due') /\ due' \in [Timers -> Delay] /\ Head(head) \in Timers
  BY <1>1, FireLists
<1>3. /\ running' = Head(head) /\ phase' = "handler"
      /\ UNCHANGED <<fileVars, wait, pos, reported>>
  BY DEF Fire
<1>4. TimersOK' /\ TableOK'
  BY <1>1, <1>2, <1>3 DEF TimersOK, TableOK, fileVars
<1>5. PlaceOK'
  BY <1>1, <1>2, <1>3 DEF PlaceOK
<1>6. WakesForFirst' /\ ReportsAreKept'
  BY <1>3 DEF WakesForFirst, ReportsAreKept
<1>7. QED
  BY <1>4, <1>5, <1>6 DEF LoopInv

(* poll sleeps no longer than the first timer has time, and no other has less. *)
LEMMA StartPollKeeps ==
  ASSUME LoopInv, StartPoll
  PROVE  LoopInv'
<1>1. TimersOK /\ TableOK /\ PlaceOK
  BY DEF LoopInv
<1>2. /\ phase' = "poll" /\ wait' = IF head = <<>> THEN Off ELSE due[Head(head)]
      /\ UNCHANGED <<timerVars, fileVars, running, pos, reported>>
  BY DEF StartPoll
<1>3. Lists(head, due) /\ due \in [Timers -> Int] /\ due \in [Timers -> Delay]
      /\ head \in Seq(Timers)
  BY <1>1, DelaysAreInt DEF TimersOK, Lists
<1>4. wait' \in Delay
  <2>1. head # <<>> => Head(head) \in Timers
    BY <1>3
  <2>2. QED
    BY <1>2, <1>3, <2>1 DEF Delay
<1>5. ASSUME NEW t \in Timers, due[t] # Off PROVE wait' # Off /\ wait' <= due[t]
  <2>1. PICK i \in 1 .. Len(head) : head[i] = t
    BY <1>3, <1>5 DEF Lists
  <2>2. head # <<>> /\ Head(head) = head[1] /\ 1 \in 1 .. Len(head) /\ head[1] \in Timers
    BY <1>3, <2>1
  <2>3. wait' = due[head[1]]
    BY <1>2, <2>2
  <2>4. due[head[1]] # Off
    BY <1>3, <2>2 DEF Lists
  <2>5. due[head[1]] <= due[t]
    <3>1. CASE i = 1
      BY <2>1, <3>1, <1>3
    <3>2. CASE i # 1
      <4>1. 1 < i
        BY <2>1, <3>2
      <4>2. QED
        BY <2>1, <2>2, <4>1, <1>3 DEF Lists
    <3>3. QED
      BY <3>1, <3>2
  <2>6. QED
    BY <2>3, <2>4, <2>5
<1>6. TimersOK' /\ TableOK'
  BY <1>1, <1>2 DEF TimersOK, TableOK, fileVars, timerVars
<1>7. PlaceOK'
  BY <1>1, <1>2, <1>4 DEF PlaceOK
<1>8. WakesForFirst' /\ ReportsAreKept'
  BY <1>2, <1>5 DEF WakesForFirst, ReportsAreKept, timerVars
<1>9. QED
  BY <1>6, <1>7, <1>8 DEF LoopInv

(* What poll reports is reported of the files it was asked about. *)
LEMMA PollReportsKeeps ==
  ASSUME LoopInv, PollReports
  PROVE  LoopInv'
<1>1. TimersOK /\ TableOK /\ PlaceOK
  BY DEF LoopInv
<1>2. PICK r \in [Slots -> SUBSET {"in", "out"}] :
        /\ \A s \in Slots : r[s] \subseteq slots[s].events
        /\ slots' = [s \in Slots |-> [slots[s] EXCEPT !.revents = r[s]]]
        /\ reported' = [s \in Slots |-> IF r[s] = {} THEN Nothing[s]
                                       ELSE [file |-> slots[s].file, events |-> r[s]]]
  BY DEF PollReports
<1>3. /\ phase' = "dispatch" /\ pos' = [slot |-> 1, received |-> FALSE]
      /\ UNCHANGED <<timerVars, renewed, running, wait>>
  BY DEF PollReports
<1>4. \A s \in Slots : /\ slots'[s] \in Records
                       /\ slots'[s].file = slots[s].file /\ slots'[s].revents = r[s]
                       /\ slots'[s].events = slots[s].events
  BY <1>1, <1>2 DEF TableOK, Records
<1>5. slots' \in [Slots -> Records]
  BY <1>2, <1>4
<1>6. \A s \in Slots : /\ reported'[s] \in Reports /\ reported'[s].events = r[s]
                       /\ r[s] # {} => reported'[s].file = slots[s].file
  <2> SUFFICES ASSUME NEW s \in Slots
               PROVE  /\ reported'[s] \in Reports /\ reported'[s].events = r[s]
                      /\ r[s] # {} => reported'[s].file = slots[s].file
    OBVIOUS
  <2>1. slots[s].file \in Files \union {NoFile} /\ r[s] \in SUBSET {"in", "out"}
    BY <1>1 DEF TableOK, Records
  <2>2. CASE r[s] = {}
    BY <1>2, <2>2 DEF Nothing, Reports
  <2>3. CASE r[s] # {}
    BY <1>2, <2>1, <2>3 DEF Reports
  <2>4. QED
    BY <2>2, <2>3
<1>7. TimersOK'
  BY <1>1, <1>3 DEF TimersOK, timerVars
<1>8. PlaceOK' /\ WakesForFirst'
  BY <1>1, <1>3, TableAssumption DEF PlaceOK, WakesForFirst
<1>9. ReportsAreKept'
  BY <1>4, <1>6 DEF ReportsAreKept, EntryReported
<1>10. reported' \in [Slots -> Reports]
  BY <1>2, <1>6
<1>11. TableOK'
  BY <1>1, <1>3, <1>4, <1>5, <1>10 DEF TableOK
<1>12. QED
  BY <1>7, <1>8, <1>9, <1>11 DEF LoopInv

LEMMA PollEndsKeeps ==
  ASSUME LoopInv, PollEnds
  PROVE  LoopInv'
<1>1. TimersOK /\ TableOK /\ PlaceOK
  BY DEF LoopInv
<1>2. /\ phase' = "advance"
      /\ slots' = [s \in Slots |-> [slots[s] EXCEPT !.revents = {}]]
      /\ UNCHANGED <<timerVars, renewed, running, wait, pos, reported>>
  BY DEF PollEnds
<1>3. \A s \in Slots : /\ slots'[s] \in Records
                       /\ slots'[s].file = slots[s].file /\ slots'[s].events = slots[s].events
  BY <1>1, <1>2 DEF TableOK, Records
<1>4. slots' \in [Slots -> Records]
  BY <1>2, <1>3
<1>5. TableOK'
  BY <1>1, <1>2, <1>3, <1>4 DEF TableOK
<1>6. TimersOK'
  BY <1>1, <1>2 DEF TimersOK, timerVars
<1>7. PlaceOK' /\ WakesForFirst' /\ ReportsAreKept'
  BY <1>1, <1>2 DEF PlaceOK, WakesForFirst, ReportsAreKept
<1>8. QED
  BY <1>5, <1>6, <1>7 DEF LoopInv

(* The steps that only move on in the loop. *)
LEMMA MoveKeeps ==
  ASSUME LoopInv, PollFails \/ Call \/ Skip \/ EndDispatch
  PROVE  LoopInv'
<1>1. TimersOK /\ TableOK /\ PlaceOK /\ ReportsAreKept
  BY DEF LoopInv
<1>2. /\ UNCHANGED <<timerVars, slots, running, wait>>
      /\ phase' \in {"advance", "dispatch", "callback"}
      /\ phase' \in {"dispatch", "callback"} => phase = "dispatch"
      /\ UNCHANGED <<renewed, reported>>
         \/ (phase' = "advance" /\ renewed' = {} /\ reported' = Nothing)
  BY DEF PollFails, Call, Skip, EndDispatch, fileVars
<1>3. pos' \in [slot : 1 .. POLL_EVENT_NFD + 1, received : BOOLEAN]
  <2>1. pos \in [slot : 1 .. POLL_EVENT_NFD + 1, received : BOOLEAN]
    BY <1>1 DEF PlaceOK
  <2>2. CASE PollFails \/ EndDispatch
    BY <2>1, <2>2 DEF PollFails, EndDispatch
  <2>3. CASE Call \/ Skip
    <3>1. pos.slot \in Slots /\ (pos' = [pos EXCEPT !.received = TRUE] \/ pos' = NextSlot)
      BY <2>3 DEF Call, Skip
    <3>2. NextSlot \in [slot : 1 .. POLL_EVENT_NFD + 1, received : BOOLEAN]
      BY <3>1, TableAssumption DEF Slots, NextSlot
    <3>3. [pos EXCEPT !.received = TRUE] \in [slot : 1 .. POLL_EVENT_NFD + 1, received : BOOLEAN]
      BY <2>1
    <3>4. QED
      BY <3>1, <3>2, <3>3
  <2>4. QED
    BY <2>2, <2>3
<1>a. Nothing \in [Slots -> Reports]
  BY DEF Nothing, Reports
<1>4. TimersOK' /\ TableOK'
  BY <1>1, <1>2, <1>a DEF TimersOK, TableOK, timerVars
<1>5. PlaceOK' /\ WakesForFirst'
  BY <1>1, <1>2, <1>3 DEF PlaceOK, WakesForFirst
<1>6. ReportsAreKept'
  BY <1>1, <1>2 DEF ReportsAreKept, EntryReported
<1>7. QED
  BY <1>4, <1>5, <1>6 DEF LoopInv

LEMMA TickKeeps ==
  ASSUME LoopInv, Tick
  PROVE  LoopInv'
<1>1. TimersOK /\ TableOK /\ PlaceOK /\ WakesForFirst /\ ReportsAreKept
  BY DEF LoopInv
<1>2. /\ due'  = [t \in Timers |-> IF due[t] > 0 THEN due[t] - 1 ELSE due[t]]
      /\ wait' = IF phase = "poll" /\ wait > 0 THEN wait - 1 ELSE wait
      /\ UNCHANGED <<head, fileVars, phase, running, pos, reported>>
  BY DEF Tick
<1>3. PICK E : E = due'
  OBVIOUS
<1>4. \A t \in Timers : /\ due[t] \in Nat \union {Off} /\ E[t] \in Nat \union {Off}
                        /\ due[t] > 0 => E[t] = due[t] - 1
                        /\ ~(due[t] > 0) => E[t] = due[t]
  BY <1>1, <1>2, <1>3 DEF TimersOK, Delay, Off
<1>a. \A t \in Timers : due[t] \in Int /\ E[t] \in Int
  <2>1. \A x \in Nat \union {Off} : x \in Int
    BY DEF Off
  <2>2. QED
    BY <1>4, <2>1
<1>5. ASSUME NEW t \in Timers PROVE E[t] # Off <=> due[t] # Off
  <2>1. CASE due[t] > 0
    BY <2>1, <1>4, <1>a DEF Off
  <2>2. CASE ~(due[t] > 0)
    BY <2>2, <1>4, <1>a
  <2>3. QED
    BY <2>1, <2>2
<1>6. \A t, u \in Timers : due[t] <= due[u] => E[t] <= E[u]
  <2>1. \A t, u \in Timers : due[t] <= due[u] /\ due[t] > 0 => E[t] <= E[u]
    BY <1>4, <1>a
  <2>2. \A t, u \in Timers : due[t] <= due[u] /\ ~(due[t] > 0) => E[t] <= E[u]
    BY <1>4, <1>a
  <2>3. QED
    BY <2>1, <2>2, <1>a
<1>7. E \in [Timers -> Delay]
  BY <1>2, <1>3, <1>4 DEF Delay
<1>8. \A i \in 1 .. Len(head) : head[i] \in Timers
  BY <1>1 DEF TimersOK, Lists
<1>9. Lists(head, E)
  BY <1>1, <1>5, <1>6, <1>8 DEF TimersOK, Lists
<1>10. TimersOK' /\ TableOK'
  BY <1>1, <1>2, <1>3, <1>7, <1>9 DEF TimersOK, TableOK, fileVars
<1>11. wait \in Nat \union {Off} /\ wait' \in Nat \union {Off}
  BY <1>1, <1>2 DEF PlaceOK, Delay, Off
<1>12. PlaceOK'
  BY <1>1, <1>2, <1>11 DEF PlaceOK, Delay
<1>13. WakesForFirst'
  <2> SUFFICES ASSUME phase = "poll", NEW t \in Timers, E[t] # Off
               PROVE  wait' # Off /\ wait' <= E[t]
    BY <1>2, <1>3 DEF WakesForFirst
  <2>1. due[t] # Off /\ wait # Off /\ wait <= due[t]
    BY <1>1, <1>5 DEF WakesForFirst
  <2>2. CASE wait > 0
    BY <2>1, <2>2, <1>2, <1>4, <1>11 DEF Off
  <2>3. CASE ~(wait > 0)
    BY <2>1, <2>3, <1>2, <1>4, <1>11 DEF Off
  <2>4. QED
    BY <2>2, <2>3
<1>14. ReportsAreKept'
  BY <1>1, <1>2 DEF ReportsAreKept, EntryReported, fileVars
<1>15. QED
  BY <1>10, <1>12, <1>13, <1>14 DEF LoopInv

LEMMA LoopStepKeepsLoop ==
  ASSUME LoopInv, LoopStep
  PROVE  LoopInv'
BY FireKeeps, StartPollKeeps, PollReportsKeeps, PollEndsKeeps, MoveKeeps, TickKeeps
   DEF LoopStep, LoopRuns

-----------------------------------------------------------------------------
(* The program. *)

LEMMA NextKeepsLoop ==
  ASSUME LoopInv, [Next]_vars
  PROVE  LoopInv'
<1>1. CASE TestInit
  <2>1. udp \in Files /\ TRUE \in BOOLEAN /\ FALSE \in BOOLEAN /\ FileEventReg(udp, TRUE, FALSE)
    BY <1>1 DEF TestInit
  <2>2. QED
    BY <2>1, FileCallKeeps
<1>2. CASE TestPop
  <2>1. UNCHANGED loopVars
    BY <1>2 DEF TestPop
  <2>2. QED
    BY <2>1 DEF loopVars, timerVars, fileVars, LoopInv, TimersOK, TableOK, PlaceOK, WakesForFirst,
                ReportsAreKept, EntryReported
<1>3. CASE TestStep \/ TestPush
  <2>1. step \in Timers /\ StepDelay \in Nat /\ TimerSet(step, StepDelay)
    BY <1>3 DEF TestStep, TestPush
  <2>2. QED
    BY <2>1, TimerCallKeeps
<1>4. CASE TestRunReturns \/ ApplicationReturns
  BY <1>4, ReturnKeepsLoop DEF TestRunReturns, ApplicationReturns
<1>5. CASE UseTimer
  <2>1. PICK t \in Timers : TimerCancel(t) \/ \E d \in Nat : TimerSet(t, d)
    BY <1>5 DEF UseTimer
  <2>2. QED
    BY <2>1, TimerCallKeeps
<1>6. CASE UseFile
  <2>1. PICK f \in Files : \/ FileEventReg(f, TRUE, TRUE)
                          \/ FileEventRegPollf(f, {"in"})
                          \/ FileEventUnreg(f)
    BY <1>6 DEF UseFile
  <2>2. \/ \E r, s \in BOOLEAN : FileEventReg(f, r, s)
        \/ \E v \in SUBSET {"in", "out"} : FileEventRegPollf(f, v)
        \/ FileEventUnreg(f)
    BY <2>1
  <2>3. QED
    BY <2>2, FileCallKeeps
<1>7. CASE LoopStep /\ UNCHANGED agentVars
  BY <1>7, LoopStepKeepsLoop
<1>8. CASE UNCHANGED vars
  BY <1>8 DEF vars, loopVars, timerVars, fileVars, LoopInv, TimersOK, TableOK, PlaceOK,
              WakesForFirst, ReportsAreKept, EntryReported
<1>9. QED
  BY <1>1, <1>2, <1>3, <1>4, <1>5, <1>6, <1>7, <1>8 DEF Next

(* The invariant of the event loop holds in every reachable state. *)
THEOREM LoopInvariance == Spec => []LoopInv
<1>1. Init => LoopInv
  BY LoopInitInv DEF Init
<1>2. LoopInv /\ [Next]_vars => LoopInv'
  BY NextKeepsLoop
<1>3. QED
  BY <1>1, <1>2, PTL DEF Spec

(* No timer is forgotten or late, however handlers and callbacks set and cancel timers:
   the list holds exactly the active ones by their time, and poll wakes for the first. *)
THEOREM TimersKept == Spec => []TimersAreKept
<1>1. LoopInv => TimersAreKept
  BY LoopInvGives DEF LoopInv, TimersAreKept
<1>2. QED
  BY LoopInvariance, <1>1, PTL

(* What OnlyReportedEvents says of the step that calls a function. *)
GivenReported(polled) ==
  /\ polled.events # {}
  /\ pos'.received => "in" \in polled.events
  /\ ~pos'.received /\ ~Here.eventf => "out" \in polled.events
  /\ Here.file = polled.file \/ pos.slot \in renewed

(* file_event_poll calls a function only for an event that poll has reported of its slot,
   whatever the functions called before have done to the table. *)
LEMMA CallIsReported ==
  ASSUME LoopInv, [Next]_vars
  PROVE  phase = "dispatch" /\ phase' = "callback" => GivenReported(reported[pos.slot])
<1> SUFFICES ASSUME phase = "dispatch", phase' = "callback"
             PROVE  GivenReported(reported[pos.slot])
  OBVIOUS
<1>1. Call
  <2>1. ~ (TestInit \/ TestPop \/ TestStep \/ TestRunReturns \/ TestPush \/ UseTimer
           \/ UseFile \/ ApplicationReturns \/ UNCHANGED vars)
    BY DEF TestInit, TestPop, TestStep, TestRunReturns, TestPush, UseTimer, UseFile,
           ApplicationReturns, InTestRun, InApplication, InHandler, FileEventReg, Register,
           vars, loopVars
  <2>2. LoopStep
    BY <2>1 DEF Next
  <2>3. QED
    BY <2>2 DEF LoopStep, LoopRuns, Fire, StartPoll, PollEnds, Skip, EndDispatch, PollReports,
                PollFails, Tick
<1>2. pos.slot \in Slots /\ (ByEventf \/ ByRecv \/ BySend)
  BY <1>1 DEF Call
<1>3. EntryReported(pos.slot) /\ slots[pos.slot] \in Records
  BY <1>2 DEF LoopInv, ReportsAreKept, TableOK
<1>4. Here.revents # {} /\ (Here.recv \/ Here.send \/ Here.eventf)
  BY <1>2 DEF ByEventf, ByRecv, BySend
<1>5. reported[pos.slot].events = Here.revents
  BY <1>3 DEF EntryReported, Here
<1>6. Here.file = reported[pos.slot].file \/ pos.slot \in renewed
  BY <1>3, <1>4 DEF EntryReported, Here
<1>7. pos'.received => "in" \in Here.revents
  <2>1. CASE ByRecv
    BY <2>1 DEF ByRecv
  <2>2. CASE ~ByRecv
    BY <1>1, <2>2 DEF Call, NextSlot
  <2>3. QED
    BY <2>1, <2>2
<1>8. ~pos'.received /\ ~Here.eventf => "out" \in Here.revents
  <2> SUFFICES ASSUME ~pos'.received, ~Here.eventf PROVE "out" \in Here.revents
    OBVIOUS
  <2>1. pos \in [slot : 1 .. POLL_EVENT_NFD + 1, received : BOOLEAN]
    BY DEF LoopInv, PlaceOK
  <2>2. ~ByRecv
    BY <1>1, <2>1 DEF Call
  <2>3. QED
    BY <1>2, <2>2 DEF ByEventf, BySend
<1>9. QED
  BY <1>4, <1>5, <1>6, <1>7, <1>8 DEF GivenReported

(* The same, as a property of every step: recv is called for "in" and send for "out" as
   reported of the slot, for the file that was polled or one registered in its slot since. *)
THEOREM OnlyReported == Spec => OnlyReportedEvents
<1>1. LoopInv /\ [Next]_vars =>
        [ phase = "dispatch" /\ phase' = "callback" => GivenReported(reported[pos.slot]) ]_loopVars
  BY CallIsReported
<1>2. GivenReported(reported[pos.slot]) =>
        LET polled == reported[pos.slot]
        IN  /\ polled.events # {}
            /\ pos'.received => "in" \in polled.events
            /\ ~pos'.received /\ ~Here.eventf => "out" \in polled.events
            /\ Here.file = polled.file \/ pos.slot \in renewed
  BY DEF GivenReported
<1>3. QED
  BY LoopInvariance, <1>1, <1>2, PTL DEF Spec, OnlyReportedEvents

-----------------------------------------------------------------------------
(* The queue. *)

(* What the proofs need of the types. *)
Types ==
  /\ due \in [Timers -> Int]
  /\ pushes \in Nat /\ pushes <= MaxPushes /\ e \in Nat /\ eq \in Seq(Nat)
  /\ nulls \subseteq 1 .. pushes /\ left \in BOOLEAN
  /\ run \in {"setup", "idle", "popped", "stepped"}

(* While test_run works it is the running handler, and has set the timer again when it
   is about to return. *)
RunIsTestRun ==
  /\ run \in {"popped", "stepped"} => InTestRun
  /\ run = "stepped" => due[step] # Off

(* The queue holds the events after the one taken last, the newest in front. *)
QueueIsRest ==
  /\ Len(eq) = pushes - e
  /\ \A i \in 1 .. Len(eq) : eq[i] = pushes + 1 - i

AgentInv == Types /\ RunIsTestRun /\ QueueIsServed /\ QueueIsRest

LEMMA InitAgentInv == Init => AgentInv
<1> SUFFICES ASSUME Init PROVE AgentInv
  OBVIOUS
<1>1. /\ eq = <<>> /\ e = 0 /\ pushes = 0 /\ pushes <= MaxPushes
      /\ nulls = {} /\ left = FALSE /\ run = "setup" /\ Len(eq) = 0
  BY DEF Init, Queue!Init
<1>2. due \in [Timers -> Int]
  BY DEF Init, LoopInit, Off
<1>a. /\ pushes \in Nat /\ e \in Nat /\ eq \in Seq(Nat)
      /\ run \in {"setup", "idle", "popped", "stepped"}
  BY <1>1
<1>b. nulls \subseteq 1 .. pushes /\ left \in BOOLEAN
  BY <1>1, Zenon
<1>3. Types
  BY <1>1, <1>2, <1>a, <1>b, Zenon DEF Types
<1>4. RunIsTestRun /\ QueueIsServed /\ QueueIsRest
  BY <1>1 DEF RunIsTestRun, QueueIsServed, QueueIsRest
<1>5. QED
  BY <1>3, <1>4 DEF AgentInv

(* Steps that leave the agent's own state alone: they may not take the step timer away
   nor leave test_run. *)
LEMMA LoopKeeps ==
  ASSUME AgentInv, UNCHANGED agentVars, due' \in [Timers -> Int],
         due[step] # Off => due'[step] # Off \/ InTestRun',
         InTestRun => InTestRun',
         run = "stepped" => due'[step] # Off
  PROVE  AgentInv'
<1>1. Types' /\ QueueIsRest'
  BY DEF AgentInv, Types, QueueIsRest, agentVars
<1>2. RunIsTestRun'
  BY DEF AgentInv, RunIsTestRun, agentVars
<1>3. QueueIsServed'
  BY DEF AgentInv, QueueIsServed, agentVars
<1>4. QED
  BY <1>1, <1>2, <1>3 DEF AgentInv

LEMMA LoopStepKeeps ==
  ASSUME AgentInv, LoopStep, UNCHANGED agentVars
  PROVE  AgentInv'
<1> USE DEF AgentInv, Types
<1>1. CASE Fire
  <2>1. /\ phase = "advance" /\ phase' = "handler" /\ running' = Head(head)
        /\ due' = [due EXCEPT ![Head(head)] = Off]
    BY <1>1 DEF Fire
  <2>2. due' \in [Timers -> Int]
    <3>1. Off \in Int /\ due \in [Timers -> Int]
      BY DEF Off
    <3>2. QED
      BY <2>1, <3>1, Zenon
  <2>3. ~InTestRun /\ run # "stepped"
    BY <2>1 DEF InTestRun, RunIsTestRun
  <2>4. CASE Head(head) = step
    <3>1. InTestRun'
      BY <2>1, <2>4 DEF InTestRun
    <3>2. QED
      BY <2>2, <2>3, <3>1, LoopKeeps
  <2>5. CASE Head(head) # step
    <3>1. due'[step] = due[step]
      BY <2>1, <2>5
    <3>2. QED
      BY <2>2, <2>3, <3>1, LoopKeeps
  <2>6. QED
    BY <2>4, <2>5
<1>2. CASE Tick
  <2>1. due' \in [Timers -> Int]
    BY <1>2 DEF Tick
  <2>2. due[step] # Off => due'[step] # Off
    BY <1>2 DEF Tick, Off
  <2>3. InTestRun => InTestRun'
    BY <1>2 DEF Tick, InTestRun
  <2>4. run = "stepped" => due'[step] # Off
    BY <2>2 DEF RunIsTestRun
  <2>5. QED
    BY <2>1, <2>2, <2>3, <2>4, LoopKeeps
<1>3. CASE StartPoll \/ PollEnds \/ PollReports \/ PollFails \/ Call \/ Skip \/ EndDispatch
  <2>1. due' = due /\ phase # "handler"
    BY <1>3 DEF StartPoll, PollEnds, PollReports, PollFails, Call, Skip, EndDispatch, timerVars
  <2>2. ~InTestRun /\ (run = "stepped" => due[step] # Off)
    BY <2>1 DEF InTestRun, RunIsTestRun
  <2>3. QED
    BY <2>1, <2>2, LoopKeeps
<1>4. QED
  BY <1>1, <1>2, <1>3 DEF LoopStep, LoopRuns

(* test_run. *)
LEMMA TestPopKeeps ==
  ASSUME AgentInv, TestPop
  PROVE  AgentInv' /\ e' = e + 1
<1>1. /\ InTestRun /\ InTestRun' /\ run' = "popped"
      /\ eq # <<>> /\ e' = eq[Len(eq)] /\ eq' = SubSeq(eq, 1, Len(eq) - 1)
      /\ UNCHANGED <<pushes, nulls, left>> /\ due' = due
  BY DEF TestPop, Queue!PopBack, InTestRun, loopVars, timerVars
<1>2. eq \in Seq(Nat) /\ pushes \in Nat /\ e \in Nat /\ due \in [Timers -> Int]
      /\ Len(eq) = pushes - e /\ \A i \in 1 .. Len(eq) : eq[i] = pushes + 1 - i
  BY DEF AgentInv, Types, QueueIsRest
<1>3. /\ eq' \in Seq(Nat) /\ Len(eq') = Len(eq) - 1 /\ Len(eq) \in Nat \ {0}
      /\ \A i \in 1 .. Len(eq) - 1 : eq'[i] = eq[i]
  BY <1>1, <1>2, BackGone
<1>4. e' = e + 1
  BY <1>1, <1>2, <1>3
<1>5. QueueIsRest'
  BY <1>1, <1>2, <1>3, <1>4 DEF QueueIsRest
<1>6. Types'
  <2>1. pushes <= MaxPushes /\ nulls \subseteq 1 .. pushes /\ left \in BOOLEAN
    BY DEF AgentInv, Types
  <2>2. QED
    BY <1>1, <1>2, <1>3, <1>4, <2>1 DEF Types
<1>7. RunIsTestRun' /\ QueueIsServed'
  BY <1>1 DEF RunIsTestRun, QueueIsServed
<1>8. QED
  BY <1>4, <1>5, <1>6, <1>7 DEF AgentInv

LEMMA TestStepKeeps ==
  ASSUME AgentInv, TestStep
  PROVE  AgentInv'
<1>1. /\ InTestRun' /\ run' = "stepped" /\ UNCHANGED <<eq, e, pushes, nulls, left>>
      /\ due' = [due EXCEPT ![step] = StepDelay]
  BY DEF TestStep, TimerSet, InTestRun
<1>2. due' \in [Timers -> Int] /\ due'[step] # Off
  BY <1>1 DEF AgentInv, Types, Off
<1>3. QED
  BY <1>1, <1>2 DEF AgentInv, Types, RunIsTestRun, QueueIsServed, QueueIsRest

LEMMA TestRunReturnsKeeps ==
  ASSUME AgentInv, TestRunReturns
  PROVE  AgentInv'
<1>1. /\ \/ run = "stepped" /\ left' = left
         \/ eq = <<>> /\ left' = left
         \/ left' = TRUE
      /\ run' = "idle" /\ UNCHANGED <<eq, e, pushes, nulls>> /\ due' = due
  BY DEF TestRunReturns, Return, timerVars
<1>2. QED
  BY <1>1 DEF AgentInv, Types, RunIsTestRun, QueueIsServed, QueueIsRest

(* test_push. *)
LEMMA TestPushKeeps ==
  ASSUME AgentInv, TestPush
  PROVE  AgentInv'
<1>1. /\ run = "idle" /\ run' = run /\ e' = e /\ pushes' = pushes + 1
      /\ pushes < MaxPushes
      /\ nulls' \in {nulls, nulls \union {pushes + 1}} /\ left' = FALSE
      /\ eq' = <<pushes + 1>> \o eq
      /\ due' = [due EXCEPT ![step] = StepDelay]
  BY DEF TestPush, InApplication, Queue!PushFront, TimerSet
<1>2. due' \in [Timers -> Int] /\ due'[step] # Off
  BY <1>1 DEF AgentInv, Types, Off
<1>3. eq \in Seq(Nat) /\ pushes \in Nat /\ e \in Nat
      /\ Len(eq) = pushes - e /\ \A i \in 1 .. Len(eq) : eq[i] = pushes + 1 - i
  BY DEF AgentInv, Types, QueueIsRest
<1>4. /\ eq' \in Seq(Nat) /\ Len(eq') = Len(eq) + 1 /\ Len(eq) \in Nat
      /\ eq'[1] = pushes + 1
      /\ \A i \in 2 .. Len(eq) + 1 : eq'[i] = eq[i - 1]
  BY <1>1, <1>3, InFront
<1>5. \A i \in 1 .. Len(eq') : eq'[i] = pushes' + 1 - i
  <2> SUFFICES ASSUME NEW i \in 1 .. Len(eq') PROVE eq'[i] = pushes' + 1 - i
    OBVIOUS
  <2>1. CASE i = 1
    BY <1>1, <1>3, <1>4, <2>1
  <2>2. CASE i # 1
    <3>1. i \in 2 .. Len(eq) + 1 /\ i - 1 \in 1 .. Len(eq)
      BY <1>4, <2>2
    <3>2. eq'[i] = pushes + 1 - (i - 1)
      BY <1>3, <1>4, <3>1
    <3>3. QED
      BY <1>1, <1>3, <1>4, <3>1, <3>2
  <2>3. QED
    BY <2>1, <2>2
<1>6. QueueIsRest'
  BY <1>1, <1>3, <1>4, <1>5 DEF QueueIsRest
<1>a. nulls' \subseteq 1 .. pushes'
  <2>1. nulls \subseteq 1 .. pushes
    BY DEF AgentInv, Types
  <2>2. QED
    BY <1>1, <1>3, <2>1
<1>b. pushes' \in Nat /\ pushes' <= MaxPushes
  BY <1>1, <1>3, PushAssumption
<1>7. Types' /\ RunIsTestRun' /\ QueueIsServed'
  BY <1>1, <1>2, <1>3, <1>4, <1>a, <1>b DEF Types, RunIsTestRun, QueueIsServed
<1>8. QED
  BY <1>6, <1>7 DEF AgentInv

(* The rest of the program. *)
LEMMA ApplicationKeeps ==
  ASSUME AgentInv, TestInit \/ UseTimer \/ UseFile \/ ApplicationReturns
  PROVE  AgentInv'
<1> USE DEF AgentInv, Types
<1>1. CASE TestInit
  <2>1. /\ run = "setup" /\ run' = "idle" /\ UNCHANGED <<eq, e, pushes, nulls, left>>
        /\ due' = due /\ phase' = phase /\ running' = running
    BY <1>1 DEF TestInit, FileEventReg, Register, timerVars
  <2>2. QED
    BY <2>1 DEF RunIsTestRun, QueueIsServed, QueueIsRest, InTestRun
<1>2. CASE UseTimer
  <2>1. ~InTestRun /\ UNCHANGED agentVars /\ run = "idle"
    BY <1>2 DEF UseTimer, InApplication
  <2>2. PICK t \in Timers \ {step} : TimerCancel(t) \/ \E d \in Delays : TimerSet(t, d)
    BY <1>2 DEF UseTimer
  <2>3. \E d \in Int : due' = [due EXCEPT ![t] = d]
    BY <2>2 DEF TimerCancel, TimerSet, Off
  <2>4. due' \in [Timers -> Int] /\ due'[step] = due[step]
    BY <2>2, <2>3
  <2>5. QED
    BY <2>1, <2>4, LoopKeeps
<1>3. CASE UseFile \/ ApplicationReturns
  <2>1. ~InTestRun /\ UNCHANGED agentVars /\ run = "idle" /\ due' = due
    BY <1>3 DEF UseFile, ApplicationReturns, InApplication, FileEventReg, FileEventRegPollf,
                Register, FileEventUnreg, Return, timerVars
  <2>2. QED
    BY <2>1, LoopKeeps
<1>4. QED
  BY <1>1, <1>2, <1>3

LEMMA NextKeeps ==
  ASSUME AgentInv, [Next]_vars
  PROVE  AgentInv' /\ (e' # e => e' = e + 1)
<1>1. CASE TestPop
  BY <1>1, TestPopKeeps
<1>2. CASE TestStep
  BY <1>2, TestStepKeeps DEF TestStep
<1>3. CASE TestRunReturns
  BY <1>3, TestRunReturnsKeeps DEF TestRunReturns
<1>4. CASE TestPush
  <2>1. e' = e
    BY <1>4 DEF TestPush, Queue!PushFront
  <2>2. QED
    BY <1>4, <2>1, TestPushKeeps
<1>5. CASE TestInit \/ UseTimer \/ UseFile \/ ApplicationReturns
  <2>1. e' = e
    BY <1>5 DEF TestInit, UseTimer, UseFile, ApplicationReturns, agentVars
  <2>2. QED
    BY <1>5, <2>1, ApplicationKeeps
<1>6. CASE LoopStep /\ UNCHANGED agentVars
  BY <1>6, LoopStepKeeps DEF agentVars
<1>7. CASE UNCHANGED vars
  BY <1>7 DEF vars, loopVars, timerVars, agentVars, AgentInv, Types, RunIsTestRun,
              QueueIsServed, QueueIsRest, InTestRun
<1>8. QED
  BY <1>1, <1>2, <1>3, <1>4, <1>5, <1>6, <1>7 DEF Next

(* The invariant of the event queue holds in every reachable state. *)
THEOREM AgentInvariance == Spec => []AgentInv
<1>1. AgentInv /\ [Next]_vars => AgentInv'
  BY NextKeeps
<1>2. QED
  BY InitAgentInv, <1>1, PTL DEF Spec

(* The types of the loop and of the queue hold in every reachable state: the bounds of
   the table are kept, and the queue and test_run hold events that were pushed. *)
THEOREM TypeCorrect == Spec => []TypeOK
<1>1. ASSUME AgentInv, LoopInv PROVE TypeOK
  <2>1. /\ pushes \in Nat /\ pushes <= MaxPushes /\ e \in Nat /\ eq \in Seq(Nat)
        /\ Len(eq) = pushes - e /\ \A i \in 1 .. Len(eq) : eq[i] = pushes + 1 - i
        /\ nulls \subseteq 1 .. pushes /\ left \in BOOLEAN
        /\ run \in {"setup", "idle", "popped", "stepped"}
    BY <1>1 DEF AgentInv, Types, QueueIsRest
  <2>2. Len(eq) \in Nat /\ e <= pushes
    BY <2>1
  <2>3. e \in 0 .. MaxPushes /\ \A i \in 1 .. Len(eq) : eq[i] \in 1 .. MaxPushes
    BY <2>1, <2>2
  <2>4. eq \in Seq(1 .. MaxPushes)
    BY <2>1, <2>3
  <2>5. Queue!TypeOK
    BY <2>3, <2>4 DEF Queue!TypeOK
  <2>6. LoopTypeOK
    BY <1>1, LoopInvGives
  <2>7. QED
    BY <2>1, <2>5, <2>6 DEF TypeOK
<1>2. QED
  BY AgentInvariance, LoopInvariance, <1>1, PTL

(* test_push and test_run leave no event in the queue without a timer that will take
   it out, but for what a NULL event left behind since the last push. *)
THEOREM NoEventForgotten == Spec => []QueueIsServed
<1>1. AgentInv => QueueIsServed
  BY DEF AgentInv
<1>2. QED
  BY AgentInvariance, <1>1, PTL

(* The lockqueue gives events back in the order of their pushes. *)
THEOREM EventsAreInOrder == Spec => EventsInOrder
<1>1. AgentInv /\ [Next]_vars => [e' # e => e' = e + 1]_vars
  BY NextKeeps
<1>2. QED
  BY AgentInvariance, <1>1, PTL DEF Spec, EventsInOrder
=============================================================================
