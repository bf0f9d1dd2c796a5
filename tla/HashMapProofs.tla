---------------------------- MODULE HashMapProofs ----------------------------
(***************************************************************************)
(* Proofs about the hash map, for any keys, hash function, data and sizes. *)
(*                                                                         *)
(* The invariant says that the table holds the contents: each key once,    *)
(* and each entry reached from its own slot over slots in use, in fewer    *)
(* steps than half the table.  The core is that hashmap_entry_remove keeps *)
(* it: the table is looked at from the emptied slot on, where the chain is *)
(* an interval, and a follower moves up exactly when the free slot lies on *)
(* its way.  That needs a chain of fewer than half the slots, as NotAfter  *)
(* sees half a circle.                                                     *)
(***************************************************************************)
EXTENDS HashMap, FiniteSetTheorems, WellFoundedInduction, TLAPS

USE HashAssumption, NullAssumption, RoomAssumption

(* What a key is mapped to that no entry has: neither data nor NULL, which an entry may
   have for its data. *)
Absent == CHOOSE x : x \notin Data \union {NULL}

(* There is such a thing. *)
LEMMA AbsentIs == Absent \notin Data \union {NULL}
<1>1. \E x : x \notin Data \union {NULL}
  BY NoSetContainsEverything
<1>2. QED
  BY <1>1 DEF Absent

(* The order of the numbers. *)
Less == {p \in Nat \X Nat : p[1] < p[2]}

(* A set of numbers that is not empty has a least one: every induction below is by the
   least number that would be wrong. *)
LEMMA Least ==
  ASSUME NEW T, T \subseteq Nat, T # {}
  PROVE  \E x \in T : \A y \in T : x <= y
<1>1. IsWellFoundedOn(Less, Nat)
  BY NatLessThanWellFounded DEF OpToRel, Less
<1>2. PICK x \in T : \A y \in T : ~ (<<y, x>> \in Less)
  BY <1>1, WFMin
<1>3. \A y \in T : x \in Nat /\ y \in Nat /\ ~ (y < x)
  BY <1>2 DEF Less
<1>4. QED
  BY <1>3

-----------------------------------------------------------------------------
(* Slots on the circle. *)
Turn(r, o, n) == (r + o) % n

(* Slot Turn(r, o, n) lies o slots after r, over the end of the table to its beginning. *)
LEMMA TurnIs ==
  ASSUME NEW n \in Nat \ {0}, NEW r \in 0 .. n - 1, NEW o \in 0 .. n - 1
  PROVE  /\ Turn(r, o, n) \in 0 .. n - 1
         /\ r + o < n => Turn(r, o, n) = r + o
         /\ r + o >= n => Turn(r, o, n) = r + o - n
<1>1. r + o < n => (r + o) % n = r + o
  OBVIOUS
<1>2. r + o >= n => (r + o) % n = r + o - n
  OBVIOUS
<1>3. QED
  BY <1>1, <1>2 DEF Turn

TurnsTo(x, r, o, n) ==
  /\ x = Turn(r, o, n) /\ x \in 0 .. n - 1
  /\ r + o < n => x = r + o
  /\ r + o >= n => x = r + o - n

(* The same with the slot named. *)
LEMMA Turned ==
  ASSUME NEW n \in Nat \ {0}, NEW r \in 0 .. n - 1, NEW o \in 0 .. n - 1
  PROVE  \E x \in 0 .. n - 1 : TurnsTo(x, r, o, n)
<1>1. PICK x \in 0 .. n - 1 : x = Turn(r, o, n)
  BY TurnIs
<1>2. TurnsTo(x, r, o, n)
  BY <1>1, TurnIs DEF TurnsTo
<1>3. QED
  BY <1>2

(* Two distances from r lead to two slots. *)
LEMMA OneToOne ==
  ASSUME NEW n \in Nat \ {0}, NEW r \in 0 .. n - 1, NEW a \in 0 .. n - 1, NEW b \in 0 .. n - 1,
         Turn(r, a, n) = Turn(r, b, n)
  PROVE  a = b
<1>1. /\ r + a < n => Turn(r, a, n) = r + a
      /\ r + a >= n => Turn(r, a, n) = r + a - n
      /\ r + b < n => Turn(r, b, n) = r + b
      /\ r + b >= n => Turn(r, b, n) = r + b - n
  BY TurnIs
<1>2. QED
  BY <1>1

(* Every slot has its distance from r. *)
LEMMA Onto ==
  ASSUME NEW n \in Nat \ {0}, NEW r \in 0 .. n - 1, NEW s \in 0 .. n - 1
  PROVE  \E o \in 0 .. n - 1 : Turn(r, o, n) = s
<1>1. CASE s >= r
  <2>1. s - r \in 0 .. n - 1 /\ r + (s - r) = s /\ s < n
    BY <1>1
  <2>2. Turn(r, s - r, n) = s
    BY <2>1, TurnIs
  <2>3. QED
    BY <2>1, <2>2
<1>2. CASE s < r
  <2>1. s - r + n \in 0 .. n - 1 /\ r + (s - r + n) >= n /\ r + (s - r + n) - n = s
    BY <1>2
  <2>2. Turn(r, s - r + n, n) = s
    BY <2>1, TurnIs
  <2>3. QED
    BY <2>1, <2>2
<1>3. QED
  BY <1>1, <1>2

(* First h and then j slots on is h + j slots on, each taken on the circle. *)
LEMMA TurnTwice ==
  ASSUME NEW n \in Nat \ {0}, NEW r \in 0 .. n - 1, NEW h \in 0 .. n - 1, NEW j \in 0 .. n - 1
  PROVE  Turn(Turn(r, h, n), j, n) = Turn(r, Turn(h, j, n), n)
<1>1. PICK a \in 0 .. n - 1 : TurnsTo(a, r, h, n)
  BY Turned
<1>2. PICK b \in 0 .. n - 1 : TurnsTo(b, h, j, n)
  BY Turned
<1>3. PICK x \in 0 .. n - 1 : TurnsTo(x, a, j, n)
  BY Turned
<1>4. PICK y \in 0 .. n - 1 : TurnsTo(y, r, b, n)
  BY Turned
<1>5. x = r + h + j \/ x = r + h + j - n \/ x = r + h + j - 2 * n
  BY <1>1, <1>3 DEF TurnsTo
<1>6. y = r + h + j \/ y = r + h + j - n \/ y = r + h + j - 2 * n
  BY <1>2, <1>4 DEF TurnsTo
<1>7. x = y
  <2>1. PICK e \in Int : e = r + h + j
    OBVIOUS
  <2>2. x \in Int /\ y \in Int /\ 0 <= x /\ x < n /\ 0 <= y /\ y < n /\ n \in Int
    OBVIOUS
  <2>3. (x = e \/ x = e - n \/ x = e - 2 * n) /\ (y = e \/ y = e - n \/ y = e - 2 * n)
    BY <2>1, <1>5, <1>6
  <2>4. QED
    BY <2>1, <2>2, <2>3
<1>8. QED
  BY <1>1, <1>2, <1>3, <1>4, <1>7 DEF TurnsTo

(* What NotAfter computes of two slots, from their distances from r. *)
LEMMA Differs ==
  ASSUME NEW n \in Nat \ {0}, NEW r \in 0 .. n - 1, NEW a \in 0 .. n - 1, NEW b \in 0 .. n - 1
  PROVE  /\ b >= a => (Turn(r, b, n) - Turn(r, a, n)) % n = b - a
         /\ b < a => (Turn(r, b, n) - Turn(r, a, n)) % n = b - a + n
<1>1. PICK x \in 0 .. n - 1 : TurnsTo(x, r, a, n)
  BY Turned
<1>2. PICK y \in 0 .. n - 1 : TurnsTo(y, r, b, n)
  BY Turned
<1>3. (y >= x => (y - x) % n = y - x) /\ (y < x => (y - x) % n = y - x + n)
  OBVIOUS
<1>4. /\ b >= a => (y - x) % n = b - a
      /\ b < a => (y - x) % n = b - a + n
  BY <1>1, <1>2, <1>3 DEF TurnsTo
<1>5. QED
  BY <1>1, <1>2, <1>4 DEF TurnsTo

-----------------------------------------------------------------------------
(* The first of the numbers below m that are in T, or m. *)
LEMMA FirstExists ==
  ASSUME NEW m \in Nat, NEW T
  PROVE  \E i \in 0 .. m : (i < m => i \in T) /\ \A j \in 0 .. i - 1 : j \notin T
<1>1. PICK U : U = {i \in 0 .. m : i = m \/ i \in T}
  OBVIOUS
<1>2. U \subseteq Nat /\ U # {}
  BY <1>1
<1>3. PICK i \in U : \A j \in U : i <= j
  BY <1>2, Least
<1>4. i \in 0 .. m /\ (i < m => i \in T)
  BY <1>1, <1>3
<1>5. ASSUME NEW j \in 0 .. i - 1 PROVE j \notin T
  <2>1. j \in 0 .. m /\ j < i
    BY <1>4
  <2>2. QED
    BY <2>1, <1>1, <1>3
<1>6. QED
  BY <1>4, <1>5

-----------------------------------------------------------------------------
(* The entries of a table, and the slot j steps after a key's own one. *)
Entries == [key : Keys \union {NULL}, data : Data \union {NULL}]
Slot(k, j, n) == Turn(Home(k, n), j, n)

(* A key's own slot is one of the table. *)
LEMMA HomeIs ==
  ASSUME NEW k \in Keys, NEW n \in Nat \ {0}
  PROVE  Home(k, n) \in 0 .. n - 1
<1>1. PICK h \in Nat : h = Hash[k]
  OBVIOUS
<1>2. h % n \in 0 .. n - 1
  OBVIOUS
<1>3. QED
  BY <1>1, <1>2 DEF Home

(* So is every slot on its way. *)
LEMMA SlotIs ==
  ASSUME NEW k \in Keys, NEW n \in Nat \ {0}, NEW j \in 0 .. n - 1
  PROVE  Slot(k, j, n) \in 0 .. n - 1
  BY HomeIs, TurnIs DEF Slot

(* Half of the table, rounded down. *)
LEMMA HalfIs ==
  ASSUME NEW n \in Nat \ {0}
  PROVE  n \div 2 \in Nat /\ n \div 2 <= n - 1 /\ 2 * (n \div 2) <= n /\ n <= 2 * (n \div 2) + 1
  OBVIOUS

(* A search for k ends i slots after k's own one. *)
Stops(t, n, k, i) == t[Slot(k, i, n)].key \in {k, NULL}

FindsAt(t, n, k, i) ==
  /\ i \in 0 .. n \div 2
  /\ \A j \in 0 .. i - 1 : ~Stops(t, n, k, j)
  /\ i < n \div 2 => Stops(t, n, k, i) /\ Find(t, n, k) = Slot(k, i, n)
  /\ i = n \div 2 => Find(t, n, k) = -1

(* hashmap_entry_find stops at the first slot of the first half that holds the key or
   nothing, and finds no slot when there is none. *)
LEMMA FindIs ==
  ASSUME NEW n \in Nat \ {0}, NEW t, NEW k \in Keys
  PROVE  \E i : FindsAt(t, n, k, i)
<1>1. PICK m \in Nat : m = n \div 2
  BY HalfIs
<1>2. \E i \in 0 .. m : (i < m => Stops(t, n, k, i)) /\ \A j \in 0 .. i - 1 : ~Stops(t, n, k, j)
  <2>1. PICK T : T = {j \in Nat : Stops(t, n, k, j)}
    OBVIOUS
  <2>2. PICK i \in 0 .. m : (i < m => i \in T) /\ \A j \in 0 .. i - 1 : j \notin T
    BY FirstExists
  <2>3. \A j \in 0 .. i - 1 : j \in Nat
    OBVIOUS
  <2>4. QED
    BY <2>1, <2>2, <2>3
<1>3. PICK i : i = CHOOSE x \in 0 .. m :
        (x < m => Stops(t, n, k, x)) /\ \A j \in 0 .. x - 1 : ~Stops(t, n, k, j)
  OBVIOUS
<1>4. i \in 0 .. m /\ (i < m => Stops(t, n, k, i)) /\ \A j \in 0 .. i - 1 : ~Stops(t, n, k, j)
  BY <1>2, <1>3
<1>5. Find(t, n, k) = IF i = m THEN -1 ELSE Slot(k, i, n)
  BY <1>1, <1>3 DEF Find, First, Stops, Slot, Turn
<1>6. QED
  BY <1>1, <1>4, <1>5 DEF FindsAt

-----------------------------------------------------------------------------
(* A table holds some contents: unused slots are empty, the data is what was stored, no
   stored key is missing, none is there twice, and a search that starts in a key's own
   slot comes to it, over slots in use, within half the table. *)
USE AbsentIs

Contents == [Keys -> Data \union {NULL, Absent}]

Clean(t, n) == \A s \in 0 .. n - 1 : t[s].key = NULL => t[s] = Empty
Agreed(t, n, c) == \A s \in 0 .. n - 1 : t[s].key # NULL => t[s].data = c[t[s].key] /\ t[s].data # Absent
Whole(t, n, c) == \A k \in Keys : c[k] # Absent => \E s \in 0 .. n - 1 : t[s].key = k
Single(t, n) == \A s, u \in 0 .. n - 1 : t[s].key = t[u].key /\ t[s].key # NULL => s = u
Joined(t, n, k, d) == \A j \in 0 .. d : t[Slot(k, j, n)].key # NULL
Reached(t, n) ==
  \A s \in 0 .. n - 1 : t[s].key # NULL =>
    \E d \in 0 .. n \div 2 - 1 : s = Slot(t[s].key, d, n) /\ Joined(t, n, t[s].key, d)

Holds(t, n, c) ==
  /\ t \in [0 .. n - 1 -> Entries]
  /\ Clean(t, n) /\ Agreed(t, n, c) /\ Whole(t, n, c) /\ Single(t, n) /\ Reached(t, n)

(* What hashmap_entry_find finds. *)
Found(t, n, c, k, s) ==
  /\ s = -1 => c[k] = Absent
  /\ s # -1 => /\ s \in 0 .. n - 1
               /\ t[s].key = k \/ (t[s].key = NULL /\ c[k] = Absent)
               /\ \E d \in 0 .. n \div 2 - 1 : s = Slot(k, d, n) /\ Joined(t, n, k, d - 1)

(* In a table that holds c, it finds the key's entry, or an empty slot when c has none. *)
LEMMA FindFinds ==
  ASSUME NEW n \in Nat \ {0}, NEW c \in Contents, NEW t, Holds(t, n, c), NEW k \in Keys
  PROVE  Found(t, n, c, k, Find(t, n, k))
<1>1. PICK m \in Nat : m = n \div 2 /\ m <= n - 1
  BY HalfIs
<1>2. PICK i : FindsAt(t, n, k, i)
  BY FindIs
<1>3. /\ i \in 0 .. m
      /\ \A j \in 0 .. i - 1 : ~Stops(t, n, k, j)
      /\ i < m => Stops(t, n, k, i) /\ Find(t, n, k) = Slot(k, i, n)
      /\ i = m => Find(t, n, k) = -1
  BY <1>1, <1>2 DEF FindsAt
<1>4. c[k] # Absent => i < m /\ t[Slot(k, i, n)].key = k
  <2> SUFFICES ASSUME c[k] # Absent PROVE i < m /\ t[Slot(k, i, n)].key = k
    OBVIOUS
  <2>1. PICK s \in 0 .. n - 1 : t[s].key = k
    BY DEF Holds, Whole
  <2>2. PICK d \in 0 .. m - 1 : s = Slot(k, d, n) /\ Joined(t, n, k, d)
    BY <1>1, <2>1 DEF Holds, Reached
  <2>3. i <= d
    <3>1. Stops(t, n, k, d)
      BY <2>1, <2>2 DEF Stops
    <3>2. d \in 0 .. i - 1 \/ i <= d
      BY <1>3
    <3>3. QED
      BY <1>3, <3>1, <3>2
  <2>4. i \in 0 .. d /\ i < m
    BY <1>3, <2>3
  <2>5. t[Slot(k, i, n)].key # NULL
    BY <2>2, <2>4 DEF Joined
  <2>6. QED
    BY <1>3, <2>4, <2>5 DEF Stops
<1>5. CASE i = m
  BY <1>3, <1>4, <1>5 DEF Found
<1>6. CASE i < m
  <2>1. PICK s : s = Slot(k, i, n)
    OBVIOUS
  <2>2. s \in 0 .. n - 1
    BY <1>1, <1>3, <1>6, <2>1, SlotIs
  <2>3. t[s].key = k \/ (t[s].key = NULL /\ c[k] = Absent)
    BY <1>3, <1>4, <1>6, <2>1 DEF Stops
  <2>4. i \in 0 .. n \div 2 - 1
    BY <1>1, <1>3, <1>6
  <2>5. Joined(t, n, k, i - 1)
    BY <1>3 DEF Joined, Stops
  <2>6. s # -1
    BY <2>2
  <2>7. Find(t, n, k) = s
    BY <1>3, <1>6, <2>1
  <2>8. QED
    BY <2>1, <2>2, <2>3, <2>4, <2>5, <2>6, <2>7 DEF Found
<1>7. QED
  BY <1>3, <1>5, <1>6

(* What hashmap_get gives for a key. *)
Value(c, k) == IF c[k] = Absent THEN NULL ELSE c[k]
Shows(x, c) == \A k \in Keys : x[k] = Value(c, k)

(* hashmap_get gives what is stored under the key, and NULL when nothing is. *)
LEMMA LookupFinds ==
  ASSUME size \in Nat \ {0}, NEW c \in Contents, Holds(table, size, c), NEW k \in Keys
  PROVE  Lookup(k) = Value(c, k)
<1>1. PICK s : s = Find(table, size, k)
  OBVIOUS
<1>2. Found(table, size, c, k, s)
  BY <1>1, FindFinds
<1>3. CASE s = -1
  BY <1>1, <1>2, <1>3 DEF Found, Lookup, Value
<1>4. CASE s # -1
  <2>1. s \in 0 .. size - 1 /\ (table[s].key = k \/ (table[s].key = NULL /\ c[k] = Absent))
    BY <1>2, <1>4 DEF Found
  <2>2. table[s].key = NULL => table[s].data = NULL
    BY <2>1 DEF Holds, Clean, Empty
  <2>3. table[s].key = k => table[s].data = c[k] /\ c[k] # Absent
    BY <2>1 DEF Holds, Agreed
  <2>4. QED
    BY <1>1, <1>4, <2>1, <2>2, <2>3 DEF Lookup, Value
<1>5. QED
  BY <1>3, <1>4

(* An entry stored in the slot that was found for its key. *)
LEMMA StoreHolds ==
  ASSUME NEW n \in Nat \ {0}, NEW c \in Contents, NEW t, Holds(t, n, c),
         NEW k \in Keys, NEW d \in Data \union {NULL}, c[k] = Absent,
         NEW s \in 0 .. n - 1, t[s].key = NULL,
         NEW a \in 0 .. n \div 2 - 1, s = Slot(k, a, n), Joined(t, n, k, a - 1)
  PROVE  Holds([t EXCEPT ![s] = [key |-> k, data |-> d]], n, [c EXCEPT ![k] = d])
<1>0. PICK u : u = [t EXCEPT ![s] = [key |-> k, data |-> d]]
  OBVIOUS
<1>1. PICK b : b = [c EXCEPT ![k] = d]
  OBVIOUS
<1>2. t \in [0 .. n - 1 -> Entries]
  BY DEF Holds
<1>3. PICK x : x = [key |-> k, data |-> d]
  OBVIOUS
<1>4. x \in Entries /\ x.key = k /\ x.data = d
  BY <1>3 DEF Entries
<1>5. /\ u \in [0 .. n - 1 -> Entries] /\ u[s] = x
      /\ \A y \in 0 .. n - 1 : y # s => u[y] = t[y]
  BY <1>0, <1>2, <1>3, <1>4
<1>6. b[k] = d /\ \A l \in Keys : l # k => b[l] = c[l]
  BY <1>1 DEF Contents
<1>7. k # NULL /\ d # Absent
  OBVIOUS
<1>8. \A y \in 0 .. n - 1 : t[y].key # k
  BY <1>7 DEF Holds, Agreed
<1>9. \A y \in 0 .. n - 1 : t[y].key # NULL => u[y].key # NULL /\ u[y] = t[y] /\ t[y].key \in Keys
  BY <1>2, <1>5, <1>7 DEF Entries
<1>10. Clean(u, n)
  BY <1>4, <1>5, <1>7 DEF Holds, Clean
<1>11. Agreed(u, n, b)
  <2> SUFFICES ASSUME NEW y \in 0 .. n - 1, u[y].key # NULL
               PROVE  u[y].data = b[u[y].key] /\ u[y].data # Absent
    BY DEF Agreed
  <2>1. CASE y = s
    BY <2>1, <1>4, <1>5, <1>6, <1>7
  <2>2. CASE y # s
    <3>1. u[y] = t[y] /\ t[y].key \in Keys /\ t[y].key # k
      BY <2>2, <1>5, <1>8, <1>9
    <3>2. t[y].data = c[t[y].key] /\ t[y].data # Absent
      BY <3>1 DEF Holds, Agreed
    <3>3. QED
      BY <3>1, <3>2, <1>6
  <2>3. QED
    BY <2>1, <2>2
<1>12. Whole(u, n, b)
  <2> SUFFICES ASSUME NEW l \in Keys, b[l] # Absent PROVE \E y \in 0 .. n - 1 : u[y].key = l
    BY DEF Whole
  <2>1. CASE l = k
    BY <2>1, <1>4, <1>5
  <2>2. CASE l # k
    <3>1. PICK y \in 0 .. n - 1 : t[y].key = l
      BY <2>2, <1>6 DEF Holds, Whole
    <3>2. y # s
      BY <3>1
    <3>3. QED
      BY <3>1, <3>2, <1>5
  <2>3. QED
    BY <2>1, <2>2
<1>13. Single(u, n)
  BY <1>4, <1>5, <1>7, <1>8 DEF Holds, Single
<1>14. ASSUME NEW l \in Keys, NEW e \in 0 .. n \div 2 - 1, Joined(t, n, l, e)
       PROVE  Joined(u, n, l, e)
  <2> SUFFICES ASSUME NEW j \in 0 .. e PROVE u[Slot(l, j, n)].key # NULL
    BY DEF Joined
  <2>1. j \in 0 .. n - 1
    BY HalfIs
  <2>2. Slot(l, j, n) \in 0 .. n - 1
    BY <2>1, SlotIs
  <2>3. t[Slot(l, j, n)].key # NULL
    BY <1>14 DEF Joined
  <2>4. QED
    BY <2>2, <2>3, <1>9
<1>15. Joined(u, n, k, a)
  <2> SUFFICES ASSUME NEW j \in 0 .. a PROVE u[Slot(k, j, n)].key # NULL
    BY DEF Joined
  <2>1. j = a \/ j \in 0 .. a - 1
    OBVIOUS
  <2>2. j \in 0 .. n - 1
    BY HalfIs
  <2>3. CASE j = a
    BY <2>3, <1>4, <1>5, <1>7
  <2>4. CASE j \in 0 .. a - 1
    BY <2>2, <2>4, <1>9, SlotIs DEF Joined
  <2>5. QED
    BY <2>1, <2>3, <2>4
<1>16. Reached(u, n)
  <2> SUFFICES ASSUME NEW y \in 0 .. n - 1, u[y].key # NULL
               PROVE  \E e \in 0 .. n \div 2 - 1 : y = Slot(u[y].key, e, n) /\ Joined(u, n, u[y].key, e)
    BY DEF Reached
  <2>1. CASE y = s
    BY <2>1, <1>4, <1>5, <1>15
  <2>2. CASE y # s
    <3>1. u[y] = t[y] /\ t[y].key \in Keys
      BY <2>2, <1>5, <1>9
    <3>2. PICK e \in 0 .. n \div 2 - 1 : y = Slot(t[y].key, e, n) /\ Joined(t, n, t[y].key, e)
      BY <3>1 DEF Holds, Reached
    <3>3. QED
      BY <3>1, <3>2, <1>14
  <2>3. QED
    BY <2>1, <2>2
<1>17. Holds(u, n, b)
  BY <1>5, <1>10, <1>11, <1>12, <1>13, <1>16 DEF Holds
<1>18. QED
  BY <1>0, <1>1, <1>17

(* A function defined step by step exists. *)
Steps(g, n, a, F) ==
  g = [i \in 0 .. n |-> IF i = 0 THEN a ELSE F[i][g[i - 1]]]

(* The recursive functions of the map have values: what each step needs is there. *)
LEMMA StepsExist ==
  ASSUME NEW X, NEW a \in X, NEW n \in Nat, NEW F \in [1 .. n -> [X -> X]]
  PROVE  \E g \in [0 .. n -> X] : Steps(g, n, a, F)
<1>1. PICK T : T = {m \in 0 .. n : ~ \E g \in [0 .. m -> X] : Steps(g, m, a, F)}
  OBVIOUS
<1>2. CASE T = {}
  BY <1>1, <1>2
<1>3. CASE T # {}
  <2>1. T \subseteq Nat
    BY <1>1
  <2>2. PICK m \in T : \A l \in T : m <= l
    BY <1>3, <2>1, Least
  <2>3. m \in 0 .. n
    BY <1>1
  <2>4. m # 0
    <3> SUFFICES ASSUME m = 0 PROVE FALSE
      OBVIOUS
    <3>1. PICK g : g = [i \in 0 .. 0 |-> a]
      OBVIOUS
    <3>2. g \in [0 .. 0 -> X] /\ Steps(g, 0, a, F)
      BY <3>1 DEF Steps
    <3>3. QED
      BY <1>1, <3>2
  <2>5. m - 1 \in 0 .. n /\ ~(m <= m - 1)
    BY <2>3, <2>4
  <2>6. PICK h \in [0 .. m - 1 -> X] : Steps(h, m - 1, a, F)
    BY <1>1, <2>2, <2>5
  <2>7. h[0] = a /\ \A i \in 1 .. m - 1 : h[i] = F[i][h[i - 1]]
    BY <2>3, <2>4, <2>6 DEF Steps
  <2>8. PICK y \in X : y = F[m][h[m - 1]]
    BY <2>3, <2>4, <2>6
  <2>9. PICK g : g = [i \in 0 .. m |-> IF i = m THEN y ELSE h[i]]
    OBVIOUS
  <2>10. g \in [0 .. m -> X]
    BY <2>3, <2>4, <2>6, <2>9
  <2>11. g[m] = y /\ \A i \in 0 .. m - 1 : g[i] = h[i]
    BY <2>3, <2>4, <2>9
  <2>12. ASSUME NEW i \in 0 .. m PROVE g[i] = IF i = 0 THEN a ELSE F[i][g[i - 1]]
    <3>1. CASE i = 0
      BY <2>3, <2>4, <2>7, <2>11, <3>1
    <3>2. CASE i = m
      <4>1. m - 1 \in 0 .. m - 1
        BY <2>3, <2>4
      <4>2. QED
        BY <2>4, <2>8, <2>11, <3>2, <4>1
    <3>3. CASE i # 0 /\ i # m
      <4>1. i \in 1 .. m - 1 /\ i \in 0 .. m - 1 /\ i - 1 \in 0 .. m - 1
        BY <2>3, <3>3
      <4>2. QED
        BY <2>7, <2>11, <3>3, <4>1
    <3>4. QED
      BY <3>1, <3>2, <3>3
  <2>13. Steps(g, m, a, F)
    BY <2>10, <2>12 DEF Steps
  <2>14. QED
    BY <1>1, <2>2, <2>10, <2>13
<1>4. QED
  BY <1>2, <1>3

(* The part of c that is in the first i slots of t, but for entries without data. *)
Part(c, t, i) ==
  [k \in Keys |-> IF (\E s \in 0 .. i - 1 : t[s].key = k) /\ c[k] # NULL THEN c[k] ELSE Absent]

(* What hashmap_rehash keeps of the contents. *)
Thin(c) == [k \in Keys |-> IF c[k] = NULL THEN Absent ELSE c[k]]

(* A table of empty entries holds nothing. *)
LEMMA FreshHolds ==
  ASSUME NEW n \in Nat, NEW c \in Contents, \A k \in Keys : c[k] = Absent
  PROVE  Holds(Fresh(n), n, c)
<1>1. PICK t : t = Fresh(n)
  OBVIOUS
<1>2. PICK x : x = Empty
  OBVIOUS
<1>3. x \in Entries /\ x.key = NULL /\ x.data = NULL
  BY <1>2 DEF Empty, Entries
<1>4. t = [s \in 0 .. n - 1 |-> x]
  BY <1>1, <1>2 DEF Fresh
<1>5. t \in [0 .. n - 1 -> Entries] /\ \A s \in 0 .. n - 1 : t[s] = x
  BY <1>3, <1>4
<1>6. Holds(t, n, c)
  BY <1>2, <1>3, <1>5 DEF Holds, Clean, Agreed, Whole, Single, Reached
<1>7. QED
  BY <1>1, <1>6

(* The tables hashmap_rehash goes through. *)
IsRefill(g, t, n, m) ==
  g = [i \in 0 .. n |->
        IF i = 0 THEN Fresh(m)
        ELSE LET e == t[i - 1]
                 s == IF g[i - 1] = <<>> THEN -1 ELSE Find(g[i - 1], m, e.key)
             IN  IF e.data = NULL THEN g[i - 1]
                 ELSE IF s = -1 THEN <<>> ELSE [g[i - 1] EXCEPT ![s] = e]]

Tables(m) == [0 .. m - 1 -> Entries]

(* It is a table. *)
LEMMA FreshIs ==
  ASSUME NEW m \in Nat
  PROVE  Fresh(m) \in Tables(m)
<1>1. Empty \in Entries
  BY DEF Empty, Entries
<1>2. QED
  BY <1>1 DEF Fresh, Tables

(* hashmap_rehash takes the old entries one after another. *)
LEMMA RefillIs ==
  ASSUME NEW n \in Nat, NEW m \in Nat \ {0}, NEW t \in Tables(n)
  PROVE  IsRefill(Refill(t, n, m), t, n, m)
<1>1. PICK X : X = {<<>>} \union Tables(m)
  OBVIOUS
<1>2. PICK F : F = [i \in 1 .. n |-> [x \in X |->
        LET e == t[i - 1]
            s == IF x = <<>> THEN -1 ELSE Find(x, m, e.key)
        IN  IF e.data = NULL THEN x
            ELSE IF s = -1 THEN <<>> ELSE [x EXCEPT ![s] = e]]]
  OBVIOUS
<1>3. F \in [1 .. n -> [X -> X]]
  <2> SUFFICES ASSUME NEW i \in 1 .. n, NEW x \in X, NEW e, e = t[i - 1],
                      NEW s, s = IF x = <<>> THEN -1 ELSE Find(x, m, e.key)
               PROVE  (IF e.data = NULL THEN x
                       ELSE IF s = -1 THEN <<>> ELSE [x EXCEPT ![s] = e]) \in X
    BY <1>2
  <2>1. e \in Entries
    BY DEF Tables
  <2>2. x = <<>> \/ x \in Tables(m)
    BY <1>1
  <2>3. x \in Tables(m) => [x EXCEPT ![s] = e] \in Tables(m)
    BY <2>1 DEF Tables
  <2>4. x = <<>> => s = -1
    OBVIOUS
  <2>5. QED
    BY <1>1, <2>2, <2>3, <2>4
<1>4. Fresh(m) \in X
  BY <1>1, FreshIs
<1>5. PICK g \in [0 .. n -> X] : Steps(g, n, Fresh(m), F)
  BY <1>3, <1>4, StepsExist
<1>6. \A i \in 0 .. n : i # 0 => i \in 1 .. n /\ g[i - 1] \in X
  BY <1>5
<1>7. IsRefill(g, t, n, m)
  BY <1>2, <1>5, <1>6 DEF Steps, IsRefill
<1>8. QED
  BY <1>7 DEF Refill, IsRefill

(* One of its steps: the part of the contents it has been through is in the new table. *)
LEMMA RefillNext ==
  ASSUME NEW n \in Nat \ {0}, NEW m \in Nat \ {0}, NEW c \in Contents, NEW t, Holds(t, n, c),
         NEW g, IsRefill(g, t, n, m), NEW i \in 1 .. n,
         g[i - 1] # <<>> => Holds(g[i - 1], m, Part(c, t, i - 1))
  PROVE  g[i] # <<>> => Holds(g[i], m, Part(c, t, i))
<1> SUFFICES ASSUME g[i] # <<>> PROVE Holds(g[i], m, Part(c, t, i))
  OBVIOUS
<1>1. PICK e : e = t[i - 1]
  OBVIOUS
<1>2. PICK x : x = g[i - 1]
  OBVIOUS
<1>3. PICK s : s = Find(x, m, e.key)
  OBVIOUS
<1>4. g[i] = IF e.data = NULL THEN x
             ELSE IF (IF x = <<>> THEN -1 ELSE s) = -1 THEN <<>> ELSE [x EXCEPT ![s] = e]
  <2>1. i \in 0 .. n /\ i # 0
    OBVIOUS
  <2>2. PICK y : y = IF t[i - 1].data = NULL THEN g[i - 1]
                     ELSE IF (IF g[i - 1] = <<>> THEN -1 ELSE Find(g[i - 1], m, t[i - 1].key)) = -1
                          THEN <<>>
                          ELSE [g[i - 1] EXCEPT ![IF g[i - 1] = <<>> THEN -1
                                                  ELSE Find(g[i - 1], m, t[i - 1].key)] = t[i - 1]]
    OBVIOUS
  <2>3. g[i] = y
    BY <2>1, <2>2 DEF IsRefill
  <2>4. QED
    BY <1>1, <1>2, <1>3, <2>2, <2>3
<1>5. PICK b \in Contents : b = Part(c, t, i - 1)
  BY DEF Part, Contents
<1>6. PICK d \in Contents : d = Part(c, t, i)
  BY DEF Part, Contents
<1>7. i - 1 \in 0 .. n - 1 /\ e \in Entries
  BY <1>1 DEF Holds
<1>8. /\ \A k \in Keys : b[k] = IF (\E y \in 0 .. i - 2 : t[y].key = k) /\ c[k] # NULL THEN c[k] ELSE Absent
      /\ \A k \in Keys : d[k] = IF (\E y \in 0 .. i - 1 : t[y].key = k) /\ c[k] # NULL THEN c[k] ELSE Absent
  BY <1>5, <1>6 DEF Part
<1>9. \A k \in Keys : k # e.key => d[k] = b[k]
  <2> SUFFICES ASSUME NEW k \in Keys, k # e.key PROVE d[k] = b[k]
    OBVIOUS
  <2>1. \A y \in 0 .. i - 1 : y \in 0 .. i - 2 \/ y = i - 1
    BY <1>7
  <2>2. \A y \in 0 .. i - 2 : y \in 0 .. i - 1
    BY <1>7
  <2>3. (\E y \in 0 .. i - 1 : t[y].key = k) <=> (\E y \in 0 .. i - 2 : t[y].key = k)
    BY <1>1, <2>1, <2>2
  <2>4. QED
    BY <1>8, <2>3
<1>10. CASE e.data = NULL
  <2>1. ASSUME NEW k \in Keys, k = e.key PROVE d[k] = b[k]
    <3>1. c[k] = NULL
      BY <1>1, <1>7, <1>10, <2>1 DEF Holds, Agreed
    <3>2. QED
      BY <1>8, <3>1
  <2>2. d = b
    BY <1>9, <2>1 DEF Contents
  <2>3. QED
    BY <1>2, <1>4, <1>5, <1>6, <1>10, <2>2
<1>11. CASE e.data # NULL
  <2>1. e.key # NULL /\ e.key \in Keys /\ e.data \in Data
    BY <1>1, <1>7, <1>11 DEF Holds, Clean, Empty, Entries
  <2>2. PICK k \in Keys : k = e.key
    BY <2>1
  <2>3. x # <<>> /\ s # -1 /\ g[i] = [x EXCEPT ![s] = e]
    BY <1>4, <1>11
  <2>4. Holds(x, m, b)
    BY <1>2, <1>5, <2>3
  <2>5. Found(x, m, b, k, s)
    BY <1>3, <2>2, <2>4, FindFinds
  <2>6. b[k] = Absent
    <3>1. \A y \in 0 .. i - 2 : y \in 0 .. n - 1 /\ y # i - 1
      BY <1>7
    <3>2. \A y \in 0 .. i - 2 : t[y].key # k
      BY <1>1, <1>7, <2>1, <2>2, <3>1 DEF Holds, Single
    <3>3. QED
      BY <1>8, <3>2
  <2>7. PICK a \in 0 .. m \div 2 - 1 : s = Slot(k, a, m) /\ Joined(x, m, k, a - 1)
    BY <2>3, <2>5 DEF Found
  <2>8. s \in 0 .. m - 1 /\ x[s].key = NULL
    <3>1. s \in 0 .. m - 1 /\ (x[s].key = k \/ x[s].key = NULL)
      BY <2>3, <2>5 DEF Found
    <3>2. x[s].key # k
      BY <2>1, <2>2, <2>4, <2>6, <3>1 DEF Holds, Agreed
    <3>3. QED
      BY <3>1, <3>2
  <2>9. e = [key |-> k, data |-> e.data]
    BY <1>7, <2>2 DEF Entries
  <2>10. Holds([x EXCEPT ![s] = [key |-> k, data |-> e.data]], m, [b EXCEPT ![k] = e.data])
    BY <2>1, <2>4, <2>6, <2>7, <2>8, StoreHolds
  <2>11. d = [b EXCEPT ![k] = e.data]
    <3>1. d[k] = e.data
      <4>1. e.data = c[k]
        BY <1>1, <1>7, <2>1, <2>2 DEF Holds, Agreed
      <4>2. i - 1 \in 0 .. i - 1 /\ t[i - 1].key = k
        BY <1>1, <1>7, <2>2
      <4>3. QED
        BY <1>8, <1>11, <4>1, <4>2
    <3>2. PICK v : v = e.data
      OBVIOUS
    <3>3. \A l \in Keys : d[l] = IF l = k THEN v ELSE b[l]
      BY <1>9, <2>2, <3>1, <3>2
    <3>4. d = [b EXCEPT ![k] = v]
      BY <3>3 DEF Contents
    <3>5. QED
      BY <3>2, <3>4
  <2>12. QED
    BY <1>6, <2>3, <2>9, <2>10, <2>11
<1>12. QED
  BY <1>10, <1>11

(* A table that hashmap_rehash has filled holds what the old one held with data. *)
LEMMA RehashHolds ==
  ASSUME NEW n \in Nat \ {0}, NEW m \in Nat \ {0}, NEW c \in Contents, NEW t, Holds(t, n, c),
         Rehash(t, n, m) # <<>>
  PROVE  Holds(Rehash(t, n, m), m, Thin(c))
<1>1. PICK g : g = Refill(t, n, m)
  OBVIOUS
<1>2. IsRefill(g, t, n, m)
  BY <1>1, RefillIs DEF Holds, Tables
<1>3. PICK T : T = {i \in 0 .. n : ~(g[i] # <<>> => Holds(g[i], m, Part(c, t, i)))}
  OBVIOUS
<1>4. CASE T # {}
  <2>1. T \subseteq Nat
    BY <1>3
  <2>2. PICK i \in T : \A j \in T : i <= j
    BY <1>4, <2>1, Least
  <2>3. CASE i = 0
    <3>1. g[0] = Fresh(m)
      BY <1>2 DEF IsRefill
    <3>2. PICK b \in Contents : b = Part(c, t, 0)
      BY DEF Part, Contents
    <3>3. \A k \in Keys : b[k] = Absent
      <4>1. \A s : s \notin 0 .. 0 - 1
        OBVIOUS
      <4>2. QED
        BY <3>2, <4>1 DEF Part
    <3>4. Holds(g[0], m, b)
      BY <3>1, <3>2, <3>3, FreshHolds
    <3>5. QED
      BY <1>3, <2>2, <2>3, <3>2, <3>4
  <2>4. CASE i # 0
    <3>1. i \in 1 .. n /\ i - 1 \in 0 .. n /\ ~(i <= i - 1)
      BY <1>3, <2>2, <2>4
    <3>2. g[i - 1] # <<>> => Holds(g[i - 1], m, Part(c, t, i - 1))
      BY <1>3, <2>2, <3>1
    <3>3. g[i] # <<>> => Holds(g[i], m, Part(c, t, i))
      BY <1>2, <3>1, <3>2, RefillNext
    <3>4. QED
      BY <1>3, <2>2, <3>3
  <2>5. QED
    BY <2>3, <2>4
<1>5. CASE T = {}
  <2>1. n \in 0 .. n
    OBVIOUS
  <2>2. g[n] # <<>> => Holds(g[n], m, Part(c, t, n))
    BY <1>3, <1>5, <2>1
  <2>3. PICK b \in Contents : b = Part(c, t, n)
    BY DEF Part, Contents
  <2>4. \A k \in Keys : b[k] = IF (\E y \in 0 .. n - 1 : t[y].key = k) /\ c[k] # NULL THEN c[k] ELSE Absent
    BY <2>3 DEF Part
  <2>5. \A k \in Keys : b[k] = IF c[k] = NULL THEN Absent ELSE c[k]
    BY <2>4 DEF Holds, Whole
  <2>6. b = Thin(c)
    BY <2>5 DEF Contents, Thin
  <2>7. QED
    BY <1>1, <2>2, <2>3, <2>6 DEF Rehash
<1>6. QED
  BY <1>4, <1>5

(* Slots relative to the one that is emptied first: numbers. *)
Before(n, f, h) == f = h \/ (h - f) % n >= n \div 2

(* A difference modulo n. *)
LEMMA Distance ==
  ASSUME NEW n \in Nat \ {0}, NEW f \in 0 .. n - 1, NEW h \in 0 .. n - 1
  PROVE  (h >= f => (h - f) % n = h - f) /\ (h < f => (h - f) % n = h - f + n)
  OBVIOUS

(* A follower whose own slot does not come after the free one is at least as far from
   its own slot as from the free one, and one whose slot does is nearer. *)
LEMMA MoversAreFar ==
  ASSUME NEW n \in Nat \ {0}, NEW f \in 0 .. n - 1, NEW h \in 0 .. n - 1,
         NEW d \in 0 .. n \div 2 - 1, NEW x \in 1 .. n - 1, f < x, x < n \div 2, x = Turn(h, d, n)
  PROVE  Before(n, f, h) <=> d >= x - f
<1>1. PICK m \in Nat : m = n \div 2 /\ 2 * m <= n /\ n <= 2 * m + 1 /\ m <= n - 1
  BY HalfIs
<1>2. d \in 0 .. m - 1 /\ x < m /\ d \in 0 .. n - 1
  BY <1>1
<1>3. (h + d < n => x = h + d) /\ (h + d >= n => x = h + d - n)
  BY <1>2, TurnIs
<1>4. (h >= f => (h - f) % n = h - f) /\ (h < f => (h - f) % n = h - f + n)
  BY Distance
<1>5. PICK r : r = (h - f) % n
  OBVIOUS
<1>6. (h >= f => r = h - f) /\ (h < f => r = h - f + n)
  BY <1>4, <1>5
<1>7. (f = h \/ r >= m) <=> d >= x - f
  BY <1>1, <1>2, <1>3, <1>6
<1>8. QED
  BY <1>1, <1>5, <1>7 DEF Before

(* e steps lead from h to f, and not through g. *)
Lands(n, h, e, f, g) ==
  e \in 0 .. n \div 2 - 1 /\ f = Turn(h, e, n) /\ \A j \in 0 .. e : Turn(h, j, n) # g

(* One that moves up comes to lie between its own slot and the free one. *)
LEMMA MovedStaysBehind ==
  ASSUME NEW n \in Nat \ {0}, NEW h \in 0 .. n - 1, NEW f \in 0 .. n - 1,
         NEW d \in 0 .. n \div 2 - 1, NEW x \in 1 .. n - 1, f < x, x < n \div 2, x = Turn(h, d, n),
         d >= x - f, NEW g \in x .. n - 1, g < n \div 2
  PROVE  Lands(n, h, d - (x - f), f, g)
<1>1. PICK m \in Nat : m = n \div 2 /\ 2 * m <= n /\ n <= 2 * m + 1 /\ m <= n - 1
  BY HalfIs
<1>2. d \in 0 .. m - 1 /\ x < m /\ g < m /\ d \in 0 .. n - 1
  BY <1>1
<1>3. (h + d < n => x = h + d) /\ (h + d >= n => x = h + d - n)
  BY <1>2, TurnIs
<1>4. PICK e \in 0 .. m - 1 : e = d - (x - f)
  BY <1>2
<1>5. e \in 0 .. n - 1
  BY <1>1
<1>6. Turn(h, e, n) = f
  <2>1. (h + e < n => Turn(h, e, n) = h + e) /\ (h + e >= n => Turn(h, e, n) = h + e - n)
    BY <1>5, TurnIs
  <2>2. QED
    BY <1>1, <1>2, <1>3, <1>4, <2>1
<1>7. ASSUME NEW j \in 0 .. e PROVE Turn(h, j, n) # g
  <2>1. j \in 0 .. n - 1
    BY <1>5
  <2>2. (h + j < n => Turn(h, j, n) = h + j) /\ (h + j >= n => Turn(h, j, n) = h + j - n)
    BY <2>1, TurnIs
  <2>3. h + j # g /\ h + j - n # g
    BY <1>1, <1>2, <1>3, <1>4
  <2>4. QED
    BY <2>2, <2>3
<1>8. Lands(n, h, e, f, g)
  BY <1>1, <1>6, <1>7 DEF Lands
<1>9. QED
  BY <1>4, <1>8

(* One that stays lies behind its own slot and the free one, before any later one. *)
LEMMA StayedIsBehind ==
  ASSUME NEW n \in Nat \ {0}, NEW h \in 0 .. n - 1, NEW f \in 0 .. n - 1,
         NEW d \in 0 .. n \div 2 - 1, NEW x \in 1 .. n - 1, f < x, x < n \div 2, x = Turn(h, d, n),
         ~(d >= x - f), NEW g \in 0 .. n - 1, g < n \div 2, g = f \/ g > x
  PROVE  \A j \in 0 .. d : Turn(h, j, n) # g
<1>1. PICK m \in Nat : m = n \div 2 /\ 2 * m <= n /\ n <= 2 * m + 1 /\ m <= n - 1
  BY HalfIs
<1>2. d \in 0 .. m - 1 /\ x < m /\ g < m /\ d \in 0 .. n - 1
  BY <1>1
<1>3. (h + d < n => x = h + d) /\ (h + d >= n => x = h + d - n)
  BY <1>2, TurnIs
<1>4. SUFFICES ASSUME NEW j \in 0 .. d PROVE Turn(h, j, n) # g
  OBVIOUS
<1>5. (h + j < n => Turn(h, j, n) = h + j) /\ (h + j >= n => Turn(h, j, n) = h + j - n)
  <2>1. j \in 0 .. n - 1
    BY <1>2
  <2>2. QED
    BY <2>1, TurnIs
<1>6. h + j # g /\ h + j - n # g
  BY <1>1, <1>2, <1>3
<1>7. QED
  BY <1>5, <1>6

(* What lies behind the end of the chain has a way that does not lead through it. *)
LEMMA OthersAreBehind ==
  ASSUME NEW n \in Nat \ {0}, NEW h \in 0 .. n - 1, NEW d \in 0 .. n - 1,
         NEW l \in 0 .. n - 1, NEW x \in l + 2 .. n - 1, x = Turn(h, d, n),
         \A j \in 0 .. d : Turn(h, j, n) # l + 1, NEW g \in 0 .. l
  PROVE  \A j \in 0 .. d : Turn(h, j, n) # g
<1>1. (h + d < n => x = h + d) /\ (h + d >= n => x = h + d - n)
  BY TurnIs
<1>2. SUFFICES ASSUME NEW j \in 0 .. d, Turn(h, j, n) = g PROVE FALSE
  OBVIOUS
<1>3. (h + j < n => g = h + j) /\ (h + j >= n => g = h + j - n)
  <2>1. j \in 0 .. n - 1
    OBVIOUS
  <2>2. (h + j < n => Turn(h, j, n) = h + j) /\ (h + j >= n => Turn(h, j, n) = h + j - n)
    BY <2>1, TurnIs
  <2>3. QED
    BY <1>2, <2>2
<1>4. PICK i \in Int : i = j + (l + 1 - g)
  OBVIOUS
<1>5. i \in 0 .. d
  BY <1>1, <1>3, <1>4
<1>6. (h + i < n => Turn(h, i, n) = h + i) /\ (h + i >= n => Turn(h, i, n) = h + i - n)
  <2>1. i \in 0 .. n - 1
    BY <1>5
  <2>2. QED
    BY <2>1, TurnIs
<1>7. (h + i < n => h + i = l + 1) /\ (h + i >= n => h + i - n = l + 1)
  BY <1>1, <1>3, <1>4
<1>8. QED
  BY <1>5, <1>6, <1>7

(* The free slot, as a distance from the slot emptied first, after each follower. *)
IsGap(G, last) ==
  /\ G[0] = 0
  /\ \A x \in 1 .. last : G[x] = x \/ G[x] = G[x - 1]

(* The slot that was free after follower i was filled by one after it. *)
Filled(G, i, x) == \E y \in i + 1 .. x : G[y - 1] = G[i] /\ G[y] = y /\ y <= G[x]

Shape(G, x) ==
  /\ G[x] \in 0 .. x
  /\ G[G[x]] = G[x]
  /\ \A i \in 0 .. x : G[x] = G[i] \/ Filled(G, i, x)

(* The free slot after one more follower: it is free of itself, and either nothing
   moved since follower i or one after i moved into the slot that was free then. *)
LEMMA ShapeNext ==
  ASSUME NEW last \in Nat, NEW G, IsGap(G, last), NEW x \in 1 .. last, Shape(G, x - 1)
  PROVE  Shape(G, x)
<1>1. PICK p \in Nat : p = x - 1 /\ x = p + 1
  OBVIOUS
<1>2. G[p] \in 0 .. p /\ G[G[p]] = G[p] /\ \A i \in 0 .. p : G[p] = G[i] \/ Filled(G, i, p)
  BY <1>1 DEF Shape
<1>3. G[x] = x \/ G[x] = G[p]
  BY <1>1 DEF IsGap
<1>4. G[x] \in 0 .. x /\ G[G[x]] = G[x]
  BY <1>1, <1>2, <1>3
<1>5. ASSUME NEW i \in 0 .. x PROVE G[x] = G[i] \/ Filled(G, i, x)
  <2>1. CASE i = x
    BY <2>1
  <2>2. CASE i # x
    <3>1. i \in 0 .. p
      BY <1>1, <2>2
    <3>2. CASE G[x] = G[p]
      <4>1. CASE G[p] = G[i]
        BY <3>2, <4>1
      <4>2. CASE Filled(G, i, p)
        <5>1. PICK y \in i + 1 .. p : G[y - 1] = G[i] /\ G[y] = y /\ y <= G[p]
          BY <4>2 DEF Filled
        <5>2. y \in i + 1 .. x
          BY <1>1
        <5>3. QED
          BY <3>2, <5>1, <5>2 DEF Filled
      <4>3. QED
        BY <1>2, <3>1, <4>1, <4>2
    <3>3. CASE G[x] = x
      <4>1. CASE G[p] = G[i]
        <5>1. x \in i + 1 .. x /\ G[x - 1] = G[i] /\ x <= G[x]
          BY <1>1, <3>1, <3>3, <4>1
        <5>2. QED
          BY <3>3, <5>1 DEF Filled
      <4>2. CASE Filled(G, i, p)
        <5>1. PICK y \in i + 1 .. p : G[y - 1] = G[i] /\ G[y] = y /\ y <= G[p]
          BY <4>2 DEF Filled
        <5>2. y \in i + 1 .. x /\ y <= G[x]
          BY <1>1, <3>3
        <5>3. QED
          BY <5>1, <5>2 DEF Filled
      <4>3. QED
        BY <1>2, <3>1, <4>1, <4>2
    <3>4. QED
      BY <1>3, <3>2, <3>3
  <2>3. QED
    BY <2>1, <2>2
<1>6. QED
  BY <1>4, <1>5 DEF Shape

(* So after all of them. *)
LEMMA GapShape ==
  ASSUME NEW last \in Nat, NEW G, IsGap(G, last), NEW x \in 0 .. last
  PROVE  Shape(G, x)
<1>1. PICK T : T = {y \in 0 .. last : ~Shape(G, y)}
  OBVIOUS
<1>2. CASE T # {}
  <2>1. T \subseteq Nat
    BY <1>1
  <2>2. PICK y \in T : \A j \in T : y <= j
    BY <1>2, <2>1, Least
  <2>3. y \in 0 .. last
    BY <1>1
  <2>4. CASE y = 0
    <3>1. G[0] = 0
      BY DEF IsGap
    <3>2. \A i \in 0 .. 0 : i = 0
      OBVIOUS
    <3>3. Shape(G, 0)
      BY <3>1, <3>2 DEF Shape
    <3>4. QED
      BY <1>1, <2>2, <2>4, <3>3
  <2>5. CASE y # 0
    <3>1. y \in 1 .. last /\ y - 1 \in 0 .. last /\ ~(y <= y - 1)
      BY <2>3, <2>5
    <3>2. Shape(G, y - 1)
      BY <1>1, <2>2, <3>1
    <3>3. Shape(G, y)
      BY <3>1, <3>2, ShapeNext
    <3>4. QED
      BY <1>1, <2>2, <3>3
  <2>6. QED
    BY <2>4, <2>5
<1>3. QED
  BY <1>1, <1>2

(* Each slot is left free by one follower at most. *)
LEMMA MoversDiffer ==
  ASSUME NEW last \in Nat, NEW G, IsGap(G, last), NEW x \in 1 .. last, NEW y \in 1 .. last,
         G[x] = x, G[x - 1] = G[y - 1]
  PROVE  y <= x
<1>1. SUFFICES ASSUME x < y PROVE FALSE
  OBVIOUS
<1>2. y - 1 \in 0 .. last /\ x \in 0 .. y - 1 /\ x - 1 \in 0 .. last
  BY <1>1
<1>3. Shape(G, y - 1) /\ Shape(G, x - 1)
  BY <1>2, GapShape
<1>4. G[y - 1] = x \/ Filled(G, x, y - 1)
  BY <1>2, <1>3 DEF Shape
<1>5. G[y - 1] >= x
  <2>1. G[y - 1] \in Int
    BY <1>3 DEF Shape
  <2>2. CASE G[y - 1] = x
    BY <2>2
  <2>3. CASE Filled(G, x, y - 1)
    <3>1. PICK z \in x + 1 .. y - 1 : z <= G[y - 1]
      BY <2>3 DEF Filled
    <3>2. QED
      BY <2>1, <3>1
  <2>4. QED
    BY <1>4, <2>2, <2>3
<1>6. G[x - 1] <= x - 1 /\ G[x - 1] \in Int
  BY <1>3 DEF Shape
<1>7. QED
  BY <1>5, <1>6

-----------------------------------------------------------------------------
(* The table u with slot 0 emptied becomes v. *)
Moved(G, last, x) == x \in 1 .. last /\ G[x] # G[x - 1]

Closed(v, u, n, G, last) ==
  \A o \in 0 .. n - 1 :
    /\ o = G[last] => v[o] = Empty
    /\ o # G[last] /\ (\E x : Moved(G, last, x) /\ G[x - 1] = o)
         => \E x : Moved(G, last, x) /\ G[x - 1] = o /\ v[o] = u[x]
    /\ o # G[last] /\ ~(\E x : Moved(G, last, x) /\ G[x - 1] = o) => v[o] = u[o]

(* Whose entry slot o has got: its own, or that of a follower that moved up. *)
From(G, last, o, x) ==
  \/ x = o /\ (o > last \/ (o <= last /\ G[o] # o /\ G[o] = G[o - 1]))
  \/ x \in 1 .. last /\ o < x /\ G[x] = x /\ G[x - 1] = o

(* Each slot but the one that is free in the end has its own entry or that of a follower. *)
LEMMA Sources ==
  ASSUME NEW n \in Nat \ {0}, NEW last \in 0 .. n - 1, NEW G, IsGap(G, last),
         NEW u, NEW v, Closed(v, u, n, G, last), NEW o \in 0 .. n - 1, o # G[last]
  PROVE  \E x \in 1 .. n - 1 : v[o] = u[x] /\ From(G, last, o, x)
<1>0. last \in Nat
  OBVIOUS
<1>1. CASE \E x : Moved(G, last, x) /\ G[x - 1] = o
  <2>1. PICK x : Moved(G, last, x) /\ G[x - 1] = o /\ v[o] = u[x]
    BY <1>1 DEF Closed
  <2>2. x \in 1 .. last /\ G[x] = x /\ x \in 1 .. n - 1 /\ x - 1 \in 0 .. last
    BY <2>1 DEF Moved, IsGap
  <2>3. Shape(G, x - 1)
    BY <1>0, <2>2, GapShape
  <2>4. o < x
    BY <2>1, <2>2, <2>3 DEF Shape
  <2>5. QED
    BY <2>1, <2>2, <2>4 DEF From
<1>2. CASE ~\E x : Moved(G, last, x) /\ G[x - 1] = o
  <2>1. v[o] = u[o]
    BY <1>2 DEF Closed
  <2>2. CASE o > last
    BY <2>1, <2>2 DEF From
  <2>3. CASE o <= last
    <3>1. o \in 0 .. last /\ last \in 0 .. last
      BY <2>3
    <3>2. Shape(G, o) /\ Shape(G, last)
      BY <1>0, <3>1, GapShape
    <3>3. G[o] # o
      <4> SUFFICES ASSUME G[o] = o PROVE FALSE
        OBVIOUS
      <4>1. Filled(G, o, last)
        BY <3>1, <3>2 DEF Shape
      <4>2. PICK y \in o + 1 .. last : G[y - 1] = o /\ G[y] = y
        BY <4>1 DEF Filled
      <4>3. Moved(G, last, y)
        BY <4>2 DEF Moved
      <4>4. QED
        BY <1>2, <4>2, <4>3
    <3>4. o # 0
      BY <3>3 DEF IsGap
    <3>5. o \in 1 .. last /\ o \in 1 .. n - 1
      BY <3>1, <3>4
    <3>6. G[o] = G[o - 1]
      BY <3>3, <3>5 DEF IsGap
    <3>7. QED
      BY <2>1, <2>3, <3>3, <3>5, <3>6 DEF From
  <2>4. QED
    BY <2>2, <2>3
<1>3. QED
  BY <1>1, <1>2

(* Each entry but the removed one is in a slot, its own or one before it. *)
LEMMA Targets ==
  ASSUME NEW n \in Nat \ {0}, NEW last \in 0 .. n - 1, NEW G, IsGap(G, last),
         NEW u, NEW v, Closed(v, u, n, G, last), NEW x \in 1 .. n - 1
  PROVE  \E o \in 0 .. x : o # G[last] /\ v[o] = u[x]
<1>0. last \in Nat /\ last \in 0 .. last
  OBVIOUS
<1>1. Shape(G, last)
  BY <1>0, GapShape
<1>2. CASE x > last
  <2>1. x # G[last] /\ x \in 0 .. n - 1
    BY <1>1, <1>2 DEF Shape
  <2>2. \A y : Moved(G, last, y) => G[y - 1] # x
    <3> SUFFICES ASSUME NEW y \in 1 .. last PROVE G[y - 1] # x
      BY DEF Moved
    <3>1. y - 1 \in 0 .. last
      OBVIOUS
    <3>2. Shape(G, y - 1)
      BY <1>0, <3>1, GapShape
    <3>3. QED
      BY <1>2, <3>2 DEF Shape
  <2>3. v[x] = u[x]
    BY <2>1, <2>2 DEF Closed
  <2>4. QED
    BY <2>1, <2>3
<1>3. CASE x <= last /\ G[x] = x
  <2>1. x \in 1 .. last /\ x - 1 \in 0 .. last
    BY <1>3
  <2>2. PICK o : o = G[x - 1]
    OBVIOUS
  <2>3. o \in 0 .. x - 1
    BY <1>0, <2>1, <2>2, GapShape DEF Shape
  <2>4. Moved(G, last, x)
    BY <1>3, <2>1, <2>2, <2>3 DEF Moved
  <2>5. o # G[last]
    <3>1. G[last] = x \/ Filled(G, x, last)
      BY <1>1, <1>3, <2>1 DEF Shape
    <3>2. G[last] \in Int
      BY <1>1 DEF Shape
    <3>3. G[last] >= x
      <4>1. CASE Filled(G, x, last)
        <5>1. PICK z \in x + 1 .. last : z <= G[last]
          BY <4>1 DEF Filled
        <5>2. QED
          BY <3>2, <5>1
      <4>2. QED
        BY <3>1, <4>1
    <3>4. QED
      BY <2>3, <3>2, <3>3
  <2>6. o \in 0 .. n - 1 /\ o \in 0 .. x
    BY <2>3
  <2>7. PICK y : Moved(G, last, y) /\ G[y - 1] = o /\ v[o] = u[y]
    BY <2>2, <2>4, <2>5, <2>6 DEF Closed
  <2>8. y \in 1 .. last /\ G[y] = y
    BY <2>7 DEF Moved, IsGap
  <2>9. y <= x /\ x <= y
    BY <1>0, <1>3, <2>1, <2>2, <2>7, <2>8, MoversDiffer
  <2>10. y = x
    BY <2>8, <2>9
  <2>11. QED
    BY <2>5, <2>6, <2>7, <2>10
<1>4. CASE x <= last /\ G[x] # x
  <2>1. x # G[last] /\ x \in 0 .. n - 1
    BY <1>1, <1>4 DEF Shape
  <2>2. \A y : Moved(G, last, y) => G[y - 1] # x
    <3> SUFFICES ASSUME NEW y \in 1 .. last PROVE G[y - 1] # x
      BY DEF Moved
    <3>1. y - 1 \in 0 .. last
      OBVIOUS
    <3>2. Shape(G, y - 1)
      BY <1>0, <3>1, GapShape
    <3>3. QED
      BY <1>4, <3>2 DEF Shape
  <2>3. v[x] = u[x]
    BY <2>1, <2>2 DEF Closed
  <2>4. QED
    BY <2>1, <2>3
<1>5. QED
  BY <1>2, <1>3, <1>4

(* The table seen from the emptied slot: every slot on the way from h is in use, and
   every entry is reached from its own slot. *)
Way(u, n, h, d) == \A j \in 0 .. d : u[Turn(h, j, n)].key # NULL

AllReached(u, n, home) ==
  \A s \in 0 .. n - 1 : u[s].key # NULL =>
    \E d \in 0 .. n \div 2 - 1 :
      s = Turn(home[u[s].key], d, n) /\ Way(u, n, home[u[s].key], d)

(* A chain that begins in slot 0 and has last followers, fewer than half the table. *)
Chain(u, n, last) ==
  /\ last \in 0 .. n - 1 /\ last < n \div 2
  /\ \A x \in 0 .. last : u[x].key # NULL
  /\ u[last + 1].key = NULL

(* The free slots as hashmap_entry_remove decides on them. *)
ByHome(G, last, u, n, home) ==
  \A x \in 1 .. last : G[x] = IF Before(n, G[x - 1], home[u[x].key]) THEN x ELSE G[x - 1]

(* The free slots, decided by the followers' own slots, are free slots. *)
LEMMA ByHomeIsGap ==
  ASSUME NEW G, NEW last, NEW u, NEW n, NEW home, ByHome(G, last, u, n, home), G[0] = 0
  PROVE  IsGap(G, last)
  BY DEF ByHome, IsGap

(* No slot but the last free one becomes empty. *)
LEMMA Occupied ==
  ASSUME NEW n \in Nat \ {0}, NEW u, NEW v, NEW last, Chain(u, n, last),
         NEW G, IsGap(G, last), Closed(v, u, n, G, last),
         NEW q \in 0 .. n - 1, q # G[last], u[q].key # NULL
  PROVE  v[q].key # NULL
<1>0. last \in 0 .. n - 1
  BY DEF Chain
<1>1. PICK x \in 1 .. n - 1 : v[q] = u[x] /\ From(G, last, q, x)
  BY <1>0, Sources
<1>2. x = q \/ x \in 1 .. last
  BY <1>1 DEF From
<1>3. x \in 1 .. last => x \in 0 .. last
  BY DEF Chain
<1>4. QED
  BY <1>1, <1>2, <1>3 DEF Chain

(* Every entry of the closed table is reached from its own slot over slots in use. *)
LEMMA ClosedReached ==
  ASSUME NEW n \in Nat \ {0}, NEW u \in Tables(n), NEW v, NEW home \in [Keys -> 0 .. n - 1],
         AllReached(u, n, home), NEW last, Chain(u, n, last),
         NEW G, G[0] = 0, ByHome(G, last, u, n, home), Closed(v, u, n, G, last)
  PROVE  AllReached(v, n, home)
<1>0. IsGap(G, last) /\ last \in Nat /\ last \in 0 .. n - 1 /\ last < n \div 2 /\ last \in 0 .. last
  BY ByHomeIsGap DEF Chain
<1>1. SUFFICES ASSUME NEW o \in 0 .. n - 1, v[o].key # NULL
               PROVE  \E d \in 0 .. n \div 2 - 1 :
                        o = Turn(home[v[o].key], d, n) /\ Way(v, n, home[v[o].key], d)
  BY DEF AllReached
<1>2. o # G[last]
  BY <1>1 DEF Closed, Empty
<1>3. PICK x \in 1 .. n - 1 : v[o] = u[x] /\ From(G, last, o, x)
  BY <1>0, <1>2, Sources
<1>4. PICK k \in Keys : k = u[x].key
  BY <1>1, <1>3 DEF Tables, Entries
<1>5. PICK h \in 0 .. n - 1 : h = home[k]
  OBVIOUS
<1>6. PICK d \in 0 .. n \div 2 - 1 : x = Turn(h, d, n) /\ Way(u, n, h, d)
  BY <1>1, <1>3, <1>4, <1>5 DEF AllReached
<1>7. d \in 0 .. n - 1
  BY HalfIs
<1>8. PICK g \in 0 .. last : g = G[last]
  BY <1>0, GapShape DEF Shape
<1>9. ASSUME NEW e \in 0 .. d, o = Turn(h, e, n), \A j \in 0 .. e : Turn(h, j, n) # g
      PROVE  \E f \in 0 .. n \div 2 - 1 :
               o = Turn(home[v[o].key], f, n) /\ Way(v, n, home[v[o].key], f)
  <2>1. e \in 0 .. n \div 2 - 1
    OBVIOUS
  <2>2. ASSUME NEW j \in 0 .. e PROVE v[Turn(h, j, n)].key # NULL
    <3>1. j \in 0 .. n - 1 /\ j \in 0 .. d
      BY <1>7
    <3>2. Turn(h, j, n) \in 0 .. n - 1
      BY <3>1, TurnIs
    <3>3. u[Turn(h, j, n)].key # NULL
      BY <1>6, <3>1 DEF Way
    <3>4. QED
      BY <1>0, <1>8, <1>9, <3>2, <3>3, Occupied
  <2>3. Way(v, n, h, e)
    BY <2>2 DEF Way
  <2>4. QED
    BY <1>3, <1>4, <1>5, <1>9, <2>1, <2>3
<1>10. CASE x \in 1 .. last /\ o < x /\ G[x] = x /\ G[x - 1] = o
  <2>1. g \in x .. n - 1 /\ g < n \div 2 /\ x < n \div 2
    <3>1. x \in 0 .. last
      BY <1>10
    <3>2. g = x \/ Filled(G, x, last)
      BY <1>0, <1>8, <1>10, <3>1, GapShape DEF Shape
    <3>3. g >= x
      <4>1. CASE Filled(G, x, last)
        <5>1. PICK z \in x + 1 .. last : z <= g
          BY <1>8, <4>1 DEF Filled
        <5>2. QED
          BY <5>1
      <4>2. QED
        BY <3>2, <4>1
    <3>4. QED
      BY <1>0, <1>10, <3>3
  <2>2. Before(n, o, h)
    BY <1>4, <1>5, <1>10 DEF ByHome
  <2>3. d >= x - o
    BY <1>6, <1>10, <2>1, <2>2, MoversAreFar
  <2>4. Lands(n, h, d - (x - o), o, g)
    <3>1. o < x /\ x = Turn(h, d, n)
      BY <1>6, <1>10
    <3>2. x < n \div 2
      BY <2>1
    <3>3. g < n \div 2
      BY <2>1
    <3>4. g \in x .. n - 1
      BY <2>1
    <3>5. QED
      BY <2>3, <3>1, <3>2, <3>3, <3>4, MovedStaysBehind
  <2>5. d - (x - o) \in 0 .. d
    BY <1>10, <2>4 DEF Lands
  <2>6. QED
    BY <1>9, <2>4, <2>5 DEF Lands
<1>11. CASE x = o /\ o <= last /\ G[o] # o /\ G[o] = G[o - 1]
  <2>1. o \in 1 .. last /\ o - 1 \in 0 .. last /\ o \in 0 .. last
    <3>1. o \in 1 .. n - 1
      BY <1>11
    <3>2. QED
      BY <1>0, <1>11, <3>1
  <2>2. PICK f \in 0 .. o - 1 : f = G[o - 1]
    BY <1>0, <2>1, GapShape DEF Shape
  <2>3. f \in 0 .. n - 1 /\ f < x /\ x < n \div 2 /\ g \in 0 .. n - 1 /\ g < n \div 2
    BY <1>0, <1>11, <2>2
  <2>4. ~Before(n, f, h)
    BY <1>4, <1>5, <1>11, <2>1, <2>2 DEF ByHome
  <2>5. ~(d >= x - f)
    BY <1>6, <2>3, <2>4, MoversAreFar
  <2>6. g = f \/ g > x
    <3>1. g = G[o] \/ Filled(G, o, last)
      BY <1>0, <1>8, <2>1, GapShape DEF Shape
    <3>2. CASE Filled(G, o, last)
      <4>1. PICK z \in o + 1 .. last : z <= g
        BY <1>8, <3>2 DEF Filled
      <4>2. QED
        BY <1>11, <4>1
    <3>3. QED
      BY <1>11, <2>2, <3>1, <3>2
  <2>7. \A j \in 0 .. d : Turn(h, j, n) # g
    BY <1>6, <2>3, <2>5, <2>6, StayedIsBehind
  <2>8. d \in 0 .. d /\ o = Turn(h, d, n)
    BY <1>6, <1>11
  <2>9. QED
    BY <1>9, <2>7, <2>8
<1>12. CASE x = o /\ o > last
  <2>1. \A j \in 0 .. d : Turn(h, j, n) # last + 1
    BY <1>6 DEF Way, Chain
  <2>2. x # last + 1
    BY <1>1, <1>3, <1>12 DEF Chain
  <2>3. x \in last + 2 .. n - 1
    BY <1>0, <1>12, <2>2
  <2>4. \A j \in 0 .. d : Turn(h, j, n) # g
    BY <1>0, <1>6, <1>7, <2>1, <2>3, OthersAreBehind
  <2>5. d \in 0 .. d /\ o = Turn(h, d, n)
    BY <1>6, <1>12
  <2>6. QED
    BY <1>9, <2>4, <2>5
<1>13. QED
  BY <1>3, <1>10, <1>11, <1>12 DEF From

(* No key is in the closed table twice. *)
LEMMA ClosedSingle ==
  ASSUME NEW n \in Nat \ {0}, NEW u, NEW v, Single(u, n), NEW last, Chain(u, n, last),
         NEW G, IsGap(G, last), Closed(v, u, n, G, last)
  PROVE  Single(v, n)
<1>1. SUFFICES ASSUME NEW o \in 0 .. n - 1, NEW p \in 0 .. n - 1,
                      v[o].key = v[p].key, v[o].key # NULL
               PROVE  o = p
  BY DEF Single
<1>2. o # G[last] /\ p # G[last] /\ last \in 0 .. n - 1 /\ last \in Nat
  BY <1>1 DEF Closed, Empty, Chain
<1>3. PICK x \in 1 .. n - 1 : v[o] = u[x] /\ From(G, last, o, x)
  BY <1>2, Sources
<1>4. PICK y \in 1 .. n - 1 : v[p] = u[y] /\ From(G, last, p, y)
  BY <1>2, Sources
<1>5. x = y
  <2>1. x \in 0 .. n - 1 /\ y \in 0 .. n - 1
    OBVIOUS
  <2>2. QED
    BY <1>1, <1>3, <1>4, <2>1 DEF Single
<1>6. x \in 1 .. last => x <= last
  BY <1>2
<1>7. CASE x = o
  <2>1. CASE y = p
    BY <1>5, <1>7, <2>1
  <2>2. CASE y \in 1 .. last /\ G[y] = y
    <3>1. o \in 1 .. last /\ G[o] = o /\ ~(o < o)
      BY <1>5, <1>7, <2>2
    <3>2. o <= last
      BY <1>2, <3>1
    <3>3. QED
      BY <1>2, <1>3, <1>7, <3>1, <3>2 DEF From
  <2>3. QED
    BY <1>4, <2>1, <2>2 DEF From
<1>8. CASE x \in 1 .. last /\ G[x] = x /\ G[x - 1] = o
  <2>1. CASE y = p
    <3>1. p \in 1 .. last /\ G[p] = p /\ ~(p < p) /\ y = p
      BY <1>5, <1>8, <2>1
    <3>2. p <= last
      BY <1>2, <3>1
    <3>3. QED
      BY <1>2, <1>4, <3>1, <3>2 DEF From
  <2>2. CASE y \in 1 .. last /\ G[y - 1] = p
    BY <1>5, <1>8, <2>2
  <2>3. QED
    BY <1>4, <2>1, <2>2 DEF From
<1>9. QED
  BY <1>3, <1>7, <1>8 DEF From

(* r's chain has l followers; they end at an empty slot unless they fill the table. *)
Follow(t, n, r, l) ==
  /\ l \in 0 .. n - 1
  /\ Followers(t, n, r) = 1 .. l /\ Cardinality(Followers(t, n, r)) = l
  /\ \A x \in 1 .. l : t[Turn(r, x, n)].key # NULL
  /\ l < n - 1 => t[Turn(r, l + 1, n)].key = NULL

(* Every chain has an end, or fills the table. *)
LEMMA FollowersIs ==
  ASSUME NEW n \in Nat \ {0}, NEW t, NEW r \in 0 .. n - 1
  PROVE  \E l \in 0 .. n - 1 : Follow(t, n, r, l)
<1>1. PICK m \in Nat : m = n - 1
  OBVIOUS
<1>2. \E i \in 0 .. m : /\ i < m => t[(r + 1 + i) % n].key = NULL
                        /\ \A j \in 0 .. i - 1 : ~(t[(r + 1 + j) % n].key = NULL)
  <2>1. PICK T : T = {j \in Nat : t[(r + 1 + j) % n].key = NULL}
    OBVIOUS
  <2>2. PICK i \in 0 .. m : (i < m => i \in T) /\ \A j \in 0 .. i - 1 : j \notin T
    BY FirstExists
  <2>3. \A j \in 0 .. i - 1 : j \in Nat
    OBVIOUS
  <2>4. QED
    BY <2>1, <2>2, <2>3
<1>3. PICK l : l = CHOOSE i \in 0 .. m : /\ i < m => t[(r + 1 + i) % n].key = NULL
                                         /\ \A j \in 0 .. i - 1 : ~(t[(r + 1 + j) % n].key = NULL)
  OBVIOUS
<1>4. /\ l \in 0 .. m
      /\ l < m => t[(r + 1 + l) % n].key = NULL
      /\ \A j \in 0 .. l - 1 : ~(t[(r + 1 + j) % n].key = NULL)
  BY <1>2, <1>3
<1>5. Followers(t, n, r) = 1 .. l
  BY <1>1, <1>3 DEF Followers, First
<1>6. Cardinality(1 .. l) = l
  BY <1>4, FS_Interval
<1>7. ASSUME NEW x \in 1 .. l PROVE t[Turn(r, x, n)].key # NULL
  <2>1. x - 1 \in 0 .. l - 1 /\ r + 1 + (x - 1) = r + x
    BY <1>4
  <2>2. QED
    BY <1>4, <2>1 DEF Turn
<1>8. l < n - 1 => t[Turn(r, l + 1, n)].key = NULL
  <2>1. r + 1 + l = r + (l + 1)
    BY <1>4
  <2>2. QED
    BY <1>1, <1>4, <2>1 DEF Turn
<1>9. Follow(t, n, r, l)
  BY <1>1, <1>4, <1>5, <1>6, <1>7, <1>8 DEF Follow
<1>10. QED
  BY <1>1, <1>4, <1>9

-----------------------------------------------------------------------------
(* The free slot after each follower. *)
GapsAre(g, t, n, r, l) ==
  /\ g \in [0 .. l -> 0 .. n - 1]
  /\ g[0] = r
  /\ \A x \in 1 .. l :
       g[x] = IF NotAfter(g[x - 1], Home(t[Turn(r, x, n)].key, n), n) THEN Turn(r, x, n) ELSE g[x - 1]

(* The free slots hashmap_entry_remove goes through. *)
LEMMA GapsIs ==
  ASSUME NEW n \in Nat \ {0}, NEW t, NEW r \in 0 .. n - 1, NEW l \in 0 .. n - 1, Follow(t, n, r, l)
  PROVE  GapsAre(Gaps(t, n, r), t, n, r, l)
<1>1. PICK X : X = 0 .. n - 1
  OBVIOUS
<1>2. PICK F : F = [x \in 1 .. l |-> [f \in X |->
        IF NotAfter(f, Home(t[(r + x) % n].key, n), n) THEN (r + x) % n ELSE f]]
  OBVIOUS
<1>3. F \in [1 .. l -> [X -> X]]
  <2> SUFFICES ASSUME NEW x \in 1 .. l, NEW f \in X
               PROVE  (IF NotAfter(f, Home(t[(r + x) % n].key, n), n) THEN (r + x) % n ELSE f) \in X
    BY <1>2
  <2>1. x \in 0 .. n - 1
    OBVIOUS
  <2>2. (r + x) % n \in X
    BY <1>1, <2>1, TurnIs DEF Turn
  <2>3. QED
    BY <2>2
<1>4. r \in X /\ l \in Nat
  BY <1>1
<1>5. PICK g \in [0 .. l -> X] : Steps(g, l, r, F)
  BY <1>3, <1>4, StepsExist
<1>6. \A i \in 0 .. l : i # 0 => i \in 1 .. l /\ g[i - 1] \in X
  BY <1>5
<1>7. g = [i \in 0 .. l |->
        IF i = 0 THEN r
        ELSE IF NotAfter(g[i - 1], Home(t[(r + i) % n].key, n), n) THEN (r + i) % n ELSE g[i - 1]]
  BY <1>2, <1>5, <1>6 DEF Steps
<1>8. PICK G : G = Gaps(t, n, r)
  OBVIOUS
<1>9. G = CHOOSE f : f = [i \in 0 .. l |->
        IF i = 0 THEN r
        ELSE IF NotAfter(f[i - 1], Home(t[(r + i) % n].key, n), n) THEN (r + i) % n ELSE f[i - 1]]
  BY <1>8 DEF Gaps, Follow
<1>10. G = [i \in 0 .. l |->
        IF i = 0 THEN r
        ELSE IF NotAfter(G[i - 1], Home(t[(r + i) % n].key, n), n) THEN (r + i) % n ELSE G[i - 1]]
  BY <1>7, <1>9
<1>11. G[0] = r /\ \A x \in 1 .. l :
         G[x] = IF NotAfter(G[x - 1], Home(t[Turn(r, x, n)].key, n), n) THEN Turn(r, x, n) ELSE G[x - 1]
  BY <1>10 DEF Turn
<1>12. ASSUME NEW x \in 0 .. l PROVE G[x] \in 0 .. n - 1
  <2>1. PICK T : T = {y \in 0 .. l : G[y] \notin 0 .. n - 1}
    OBVIOUS
  <2>2. CASE T # {}
    <3>1. T \subseteq Nat
      BY <2>1
    <3>2. PICK y \in T : \A j \in T : y <= j
      BY <2>2, <3>1, Least
    <3>3. y # 0
      BY <1>11, <2>1
    <3>4. y \in 1 .. l /\ y - 1 \in 0 .. l /\ ~(y <= y - 1) /\ y \in 0 .. n - 1
      BY <2>1, <3>3
    <3>5. G[y - 1] \in 0 .. n - 1
      BY <2>1, <3>2, <3>4
    <3>6. Turn(r, y, n) \in 0 .. n - 1
      BY <3>4, TurnIs
    <3>7. QED
      BY <1>11, <2>1, <3>4, <3>5, <3>6
  <2>3. QED
    BY <2>1, <2>2
<1>13. G \in [0 .. l -> 0 .. n - 1]
  BY <1>10, <1>12
<1>14. QED
  BY <1>8, <1>11, <1>13 DEF GapsAre

-----------------------------------------------------------------------------
(* A follower moves into slot s. *)
Leaves(g, l, s) == \E x \in 1 .. l : g[x] # g[x - 1] /\ g[x - 1] = s

Closing(v, t, n, g, l) ==
  /\ v = [s \in 0 .. n - 1 |-> v[s]]
  /\ \A s \in 0 .. n - 1 :
       /\ s = g[l] => v[s] = Empty
       /\ s # g[l] /\ Leaves(g, l, s) =>
            \E x \in 1 .. l : g[x] # g[x - 1] /\ g[x - 1] = s /\ v[s] = t[g[x]]
       /\ s # g[l] /\ ~Leaves(g, l, s) => v[s] = t[s]

(* What it leaves in each slot. *)
LEMMA UnchainIs ==
  ASSUME NEW n \in Nat \ {0}, NEW t, NEW r \in 0 .. n - 1, NEW l \in 0 .. n - 1, Follow(t, n, r, l),
         NEW g, g = Gaps(t, n, r)
  PROVE  Closing(Unchain(t, n, r), t, n, g, l)
<1>1. PICK v : v = Unchain(t, n, r)
  OBVIOUS
<1>2. PICK M : M = {i \in 1 .. l : g[i] # g[i - 1]}
  OBVIOUS
<1>3. v = [s \in 0 .. n - 1 |->
             IF s = g[l] THEN Empty
             ELSE IF \E i \in M : g[i - 1] = s
                  THEN t[g[CHOOSE i \in M : g[i - 1] = s]]
                  ELSE t[s]]
  BY <1>1, <1>2 DEF Unchain, Follow
<1>4. v = [s \in 0 .. n - 1 |-> v[s]]
  BY <1>3
<1>5. ASSUME NEW s \in 0 .. n - 1
      PROVE  /\ s = g[l] => v[s] = Empty
             /\ s # g[l] /\ Leaves(g, l, s) =>
                  \E x \in 1 .. l : g[x] # g[x - 1] /\ g[x - 1] = s /\ v[s] = t[g[x]]
             /\ s # g[l] /\ ~Leaves(g, l, s) => v[s] = t[s]
  <2>1. Leaves(g, l, s) <=> \E i \in M : g[i - 1] = s
    BY <1>2 DEF Leaves
  <2>2. ASSUME s # g[l], Leaves(g, l, s)
        PROVE  \E x \in 1 .. l : g[x] # g[x - 1] /\ g[x - 1] = s /\ v[s] = t[g[x]]
    <3>1. PICK x : x = CHOOSE i \in M : g[i - 1] = s
      OBVIOUS
    <3>2. x \in M /\ g[x - 1] = s
      BY <2>1, <2>2, <3>1
    <3>3. v[s] = t[g[x]]
      BY <1>3, <2>1, <2>2, <3>1
    <3>4. QED
      BY <1>2, <3>2, <3>3
  <2>3. QED
    BY <1>3, <2>1, <2>2
<1>6. Closing(v, t, n, g, l)
  BY <1>4, <1>5 DEF Closing
<1>7. QED
  BY <1>1, <1>6

(* The slots of the closed table hold entries, whatever the chain. *)
LEMMA UnchainTyped ==
  ASSUME NEW n \in Nat \ {0}, NEW t \in Tables(n), NEW r \in 0 .. n - 1
  PROVE  Unchain(t, n, r) \in Tables(n)
<1>1. PICK l \in 0 .. n - 1 : Follow(t, n, r, l)
  BY FollowersIs
<1>2. PICK g : g = Gaps(t, n, r)
  OBVIOUS
<1>3. g \in [0 .. l -> 0 .. n - 1]
  BY <1>1, <1>2, GapsIs DEF GapsAre
<1>4. PICK v : v = Unchain(t, n, r)
  OBVIOUS
<1>5. Closing(v, t, n, g, l)
  BY <1>1, <1>2, <1>4, UnchainIs
<1>6. Empty \in Entries
  BY DEF Empty, Entries
<1>7. ASSUME NEW s \in 0 .. n - 1 PROVE v[s] \in Entries
  <2>1. CASE s # g[l] /\ Leaves(g, l, s)
    <3>1. PICK x \in 1 .. l : v[s] = t[g[x]]
      BY <1>5, <2>1 DEF Closing
    <3>2. QED
      BY <1>3, <3>1 DEF Tables
  <2>2. QED
    BY <1>5, <1>6, <2>1 DEF Closing, Tables
<1>8. QED
  BY <1>4, <1>5, <1>7 DEF Closing, Tables

(* The table as it is seen from slot r, and the keys' own slots. *)
View(t, r, n) == [o \in 0 .. n - 1 |-> t[Turn(r, o, n)]]

HomesFrom(home, r, n) ==
  home \in [Keys -> 0 .. n - 1] /\ \A k \in Keys : Turn(r, home[k], n) = Home(k, n)

(* The keys' own slots as distances from r. *)
LEMMA HomesExist ==
  ASSUME NEW n \in Nat \ {0}, NEW r \in 0 .. n - 1
  PROVE  \E home : HomesFrom(home, r, n)
<1>1. PICK home : home = [k \in Keys |-> CHOOSE o \in 0 .. n - 1 : Turn(r, o, n) = Home(k, n)]
  OBVIOUS
<1>2. ASSUME NEW k \in Keys PROVE home[k] \in 0 .. n - 1 /\ Turn(r, home[k], n) = Home(k, n)
  <2>1. Home(k, n) \in 0 .. n - 1
    BY HomeIs
  <2>2. \E o \in 0 .. n - 1 : Turn(r, o, n) = Home(k, n)
    BY <2>1, Onto
  <2>3. QED
    BY <1>1, <2>2
<1>3. QED
  BY <1>1, <1>2 DEF HomesFrom

(* The table seen from r is a table. *)
LEMMA ViewTyped ==
  ASSUME NEW n \in Nat \ {0}, NEW r \in 0 .. n - 1, NEW t \in Tables(n)
  PROVE  View(t, r, n) \in Tables(n)
<1>1. \A o \in 0 .. n - 1 : Turn(r, o, n) \in 0 .. n - 1
  BY TurnIs
<1>2. \A o \in 0 .. n - 1 : t[Turn(r, o, n)] \in Entries
  BY <1>1 DEF Tables
<1>3. QED
  BY <1>2 DEF View, Tables

(* A slot on a key's way, as a distance from r. *)
LEMMA SlotFrom ==
  ASSUME NEW n \in Nat \ {0}, NEW r \in 0 .. n - 1, NEW home, HomesFrom(home, r, n),
         NEW k \in Keys, NEW j \in 0 .. n - 1
  PROVE  /\ Turn(home[k], j, n) \in 0 .. n - 1
         /\ Slot(k, j, n) = Turn(r, Turn(home[k], j, n), n)
<1>1. PICK h \in 0 .. n - 1 : h = home[k] /\ Turn(r, h, n) = Home(k, n)
  BY DEF HomesFrom
<1>2. Turn(h, j, n) \in 0 .. n - 1
  BY TurnIs
<1>3. Turn(Turn(r, h, n), j, n) = Turn(r, Turn(h, j, n), n)
  BY TurnTwice
<1>4. QED
  BY <1>1, <1>2, <1>3 DEF Slot

(* Reaching an entry is the same wherever the counting begins. *)
LEMMA ViewReached ==
  ASSUME NEW n \in Nat \ {0}, NEW r \in 0 .. n - 1, NEW t \in Tables(n),
         NEW home, HomesFrom(home, r, n)
  PROVE  Reached(t, n) <=> AllReached(View(t, r, n), n, home)
<1>1. PICK u : u = View(t, r, n)
  OBVIOUS
<1>2. \A o \in 0 .. n - 1 : u[o] = t[Turn(r, o, n)]
  BY <1>1 DEF View
<1>3. PICK m \in Nat : m = n \div 2 /\ m <= n - 1
  BY HalfIs
<1>4. ASSUME NEW k \in Keys, NEW d \in 0 .. m - 1
      PROVE  Joined(t, n, k, d) <=> Way(u, n, home[k], d)
  <2>1. ASSUME NEW j \in 0 .. d PROVE t[Slot(k, j, n)] = u[Turn(home[k], j, n)]
    <3>1. j \in 0 .. n - 1
      BY <1>3
    <3>2. Turn(home[k], j, n) \in 0 .. n - 1 /\ Slot(k, j, n) = Turn(r, Turn(home[k], j, n), n)
      BY <3>1, SlotFrom
    <3>3. QED
      BY <1>2, <3>2
  <2>2. QED
    BY <2>1 DEF Joined, Way
<1>5. ASSUME NEW o \in 0 .. n - 1, NEW k \in Keys, NEW d \in 0 .. m - 1
      PROVE  Turn(r, o, n) = Slot(k, d, n) <=> o = Turn(home[k], d, n)
  <2>1. d \in 0 .. n - 1
    BY <1>3
  <2>2. PICK e \in 0 .. n - 1 : e = Turn(home[k], d, n) /\ Slot(k, d, n) = Turn(r, e, n)
    BY <2>1, SlotFrom
  <2>3. Turn(r, o, n) = Turn(r, e, n) => o = e
    BY OneToOne
  <2>4. QED
    BY <2>2, <2>3
<1>6. ASSUME NEW o \in 0 .. n - 1, NEW k \in Keys
      PROVE  (\E d \in 0 .. m - 1 : Turn(r, o, n) = Slot(k, d, n) /\ Joined(t, n, k, d))
               <=> (\E d \in 0 .. m - 1 : o = Turn(home[k], d, n) /\ Way(u, n, home[k], d))
  BY <1>4, <1>5
<1>7. ASSUME Reached(t, n) PROVE AllReached(u, n, home)
  <2>1. SUFFICES ASSUME NEW o \in 0 .. n - 1, u[o].key # NULL
                 PROVE  \E d \in 0 .. m - 1 : o = Turn(home[u[o].key], d, n) /\ Way(u, n, home[u[o].key], d)
    BY <1>3 DEF AllReached
  <2>2. Turn(r, o, n) \in 0 .. n - 1
    BY TurnIs
  <2>3. PICK k \in Keys : k = u[o].key /\ k = t[Turn(r, o, n)].key
    BY <1>2, <2>1, <2>2 DEF Tables, Entries
  <2>4. \E d \in 0 .. m - 1 : Turn(r, o, n) = Slot(k, d, n) /\ Joined(t, n, k, d)
    BY <1>3, <1>7, <2>2, <2>3 DEF Reached
  <2>5. QED
    BY <1>6, <2>3, <2>4
<1>8. ASSUME AllReached(u, n, home) PROVE Reached(t, n)
  <2>1. SUFFICES ASSUME NEW s \in 0 .. n - 1, t[s].key # NULL
                 PROVE  \E d \in 0 .. m - 1 : s = Slot(t[s].key, d, n) /\ Joined(t, n, t[s].key, d)
    BY <1>3 DEF Reached
  <2>2. PICK o \in 0 .. n - 1 : Turn(r, o, n) = s
    BY Onto
  <2>3. PICK k \in Keys : k = t[s].key /\ k = u[o].key
    BY <1>2, <2>1, <2>2 DEF Tables, Entries
  <2>4. \E d \in 0 .. m - 1 : o = Turn(home[k], d, n) /\ Way(u, n, home[k], d)
    BY <1>3, <1>8, <2>1, <2>3 DEF AllReached
  <2>5. QED
    BY <1>6, <2>2, <2>3, <2>4
<1>9. QED
  BY <1>1, <1>7, <1>8

(* So is holding each key once. *)
LEMMA ViewSingle ==
  ASSUME NEW n \in Nat \ {0}, NEW r \in 0 .. n - 1, NEW t
  PROVE  Single(t, n) <=> Single(View(t, r, n), n)
<1>1. PICK u : u = View(t, r, n)
  OBVIOUS
<1>2. \A o \in 0 .. n - 1 : u[o] = t[Turn(r, o, n)]
  BY <1>1 DEF View
<1>3. ASSUME Single(t, n), NEW o \in 0 .. n - 1, NEW p \in 0 .. n - 1, u[o].key = u[p].key, u[o].key # NULL
      PROVE  o = p
  <2>1. Turn(r, o, n) \in 0 .. n - 1 /\ Turn(r, p, n) \in 0 .. n - 1
    BY TurnIs
  <2>2. Turn(r, o, n) = Turn(r, p, n)
    BY <1>2, <1>3, <2>1 DEF Single
  <2>3. QED
    BY <2>2, OneToOne
<1>4. ASSUME Single(u, n), NEW s \in 0 .. n - 1, NEW q \in 0 .. n - 1, t[s].key = t[q].key, t[s].key # NULL
      PROVE  s = q
  <2>1. PICK o \in 0 .. n - 1 : Turn(r, o, n) = s
    BY Onto
  <2>2. PICK p \in 0 .. n - 1 : Turn(r, p, n) = q
    BY Onto
  <2>3. o = p
    BY <1>2, <1>4, <2>1, <2>2 DEF Single
  <2>4. QED
    BY <2>1, <2>2, <2>3
<1>5. Single(t, n) => Single(u, n)
  BY <1>3 DEF Single
<1>6. Single(u, n) => Single(t, n)
  BY <1>4 DEF Single
<1>7. QED
  BY <1>1, <1>5, <1>6

(* NotAfter compares the slots as Before compares their distances from r. *)
LEMMA NotAfterIsBefore ==
  ASSUME NEW n \in Nat \ {0}, NEW r \in 0 .. n - 1, NEW f \in 0 .. n - 1, NEW h \in 0 .. n - 1
  PROVE  NotAfter(Turn(r, f, n), Turn(r, h, n), n) <=> Before(n, f, h)
<1>1. Turn(r, f, n) = Turn(r, h, n) <=> f = h
  BY OneToOne
<1>2. (Turn(r, h, n) - Turn(r, f, n)) % n = (h - f) % n
  <2>1. (h >= f => (h - f) % n = h - f) /\ (h < f => (h - f) % n = h - f + n)
    BY Distance
  <2>2. /\ h >= f => (Turn(r, h, n) - Turn(r, f, n)) % n = h - f
        /\ h < f => (Turn(r, h, n) - Turn(r, f, n)) % n = h - f + n
    BY Differs
  <2>3. QED
    BY <2>1, <2>2
<1>3. QED
  BY <1>1, <1>2 DEF NotAfter, Before

(* The free slots as distances from r. *)
GapsFrom(G, g, r, n, l) ==
  /\ G \in [0 .. l -> 0 .. n - 1]
  /\ \A x \in 0 .. l : Turn(r, G[x], n) = g[x]

(* The free slots have their distances from r. *)
LEMMA GapsFromExist ==
  ASSUME NEW n \in Nat \ {0}, NEW r \in 0 .. n - 1, NEW l \in 0 .. n - 1, NEW g \in [0 .. l -> 0 .. n - 1]
  PROVE  \E G : GapsFrom(G, g, r, n, l)
<1>1. PICK G : G = [x \in 0 .. l |-> CHOOSE o \in 0 .. n - 1 : Turn(r, o, n) = g[x]]
  OBVIOUS
<1>2. ASSUME NEW x \in 0 .. l PROVE G[x] \in 0 .. n - 1 /\ Turn(r, G[x], n) = g[x]
  <2>1. g[x] \in 0 .. n - 1
    OBVIOUS
  <2>2. \E o \in 0 .. n - 1 : Turn(r, o, n) = g[x]
    BY <2>1, Onto
  <2>3. QED
    BY <1>1, <2>2
<1>3. QED
  BY <1>1, <1>2 DEF GapsFrom

(* These are decided by the followers' own slots, as distances too. *)
LEMMA GapsByHome ==
  ASSUME NEW n \in Nat \ {0}, NEW r \in 0 .. n - 1, NEW l \in 0 .. n - 1, NEW t \in Tables(n),
         NEW g, GapsAre(g, t, n, r, l), NEW G, GapsFrom(G, g, r, n, l),
         Follow(t, n, r, l), NEW home, HomesFrom(home, r, n)
  PROVE  G[0] = 0 /\ ByHome(G, l, View(t, r, n), n, home)
<1>1. PICK u : u = View(t, r, n)
  OBVIOUS
<1>2. \A o \in 0 .. n - 1 : u[o] = t[Turn(r, o, n)]
  BY <1>1 DEF View
<1>3. \A x \in 0 .. l : G[x] \in 0 .. n - 1 /\ Turn(r, G[x], n) = g[x]
  BY DEF GapsFrom
<1>4. G[0] = 0
  <2>1. 0 \in 0 .. l /\ 0 \in 0 .. n - 1
    OBVIOUS
  <2>2. Turn(r, 0, n) = r
    BY <2>1, TurnIs
  <2>3. Turn(r, G[0], n) = Turn(r, 0, n) /\ G[0] \in 0 .. n - 1
    BY <1>3, <2>1, <2>2 DEF GapsAre
  <2>4. QED
    BY <2>1, <2>3, OneToOne
<1>5. ASSUME NEW x \in 1 .. l
      PROVE  G[x] = IF Before(n, G[x - 1], home[u[x].key]) THEN x ELSE G[x - 1]
  <2>1. x \in 0 .. l /\ x - 1 \in 0 .. l /\ x \in 0 .. n - 1
    OBVIOUS
  <2>2. PICK f \in 0 .. n - 1 : f = G[x - 1] /\ Turn(r, f, n) = g[x - 1]
    BY <1>3, <2>1
  <2>3. PICK e \in 0 .. n - 1 : e = G[x] /\ Turn(r, e, n) = g[x]
    BY <1>3, <2>1
  <2>4. t[Turn(r, x, n)].key # NULL /\ Turn(r, x, n) \in 0 .. n - 1
    BY <2>1, TurnIs DEF Follow
  <2>5. PICK k \in Keys : k = u[x].key /\ k = t[Turn(r, x, n)].key
    BY <1>2, <2>1, <2>4 DEF Tables, Entries
  <2>6. PICK h \in 0 .. n - 1 : h = home[k] /\ Turn(r, h, n) = Home(k, n)
    BY DEF HomesFrom
  <2>7. Turn(r, e, n) = IF NotAfter(Turn(r, f, n), Turn(r, h, n), n) THEN Turn(r, x, n) ELSE Turn(r, f, n)
    BY <2>2, <2>3, <2>5, <2>6 DEF GapsAre
  <2>8. NotAfter(Turn(r, f, n), Turn(r, h, n), n) <=> Before(n, f, h)
    BY NotAfterIsBefore
  <2>9. CASE Before(n, f, h)
    <3>1. Turn(r, e, n) = Turn(r, x, n)
      BY <2>7, <2>8, <2>9
    <3>2. e = x
      BY <2>1, <3>1, OneToOne
    <3>3. QED
      BY <2>2, <2>3, <2>5, <2>6, <2>9, <3>2
  <2>10. CASE ~Before(n, f, h)
    <3>1. Turn(r, e, n) = Turn(r, f, n)
      BY <2>7, <2>8, <2>10
    <3>2. e = f
      BY <3>1, OneToOne
    <3>3. QED
      BY <2>2, <2>3, <2>5, <2>6, <2>10, <3>2
  <2>11. QED
    BY <2>9, <2>10
<1>6. ByHome(G, l, u, n, home)
  BY <1>5 DEF ByHome
<1>7. QED
  BY <1>1, <1>4, <1>6

(* The table seen from r after the removal. *)
LEMMA ClosingIsClosed ==
  ASSUME NEW n \in Nat \ {0}, NEW r \in 0 .. n - 1, NEW l \in 0 .. n - 1, NEW t, NEW v,
         NEW g, NEW G, GapsFrom(G, g, r, n, l), IsGap(G, l), Closing(v, t, n, g, l)
  PROVE  Closed(View(v, r, n), View(t, r, n), n, G, l)
<1>1. PICK u : u = View(t, r, n)
  OBVIOUS
<1>2. PICK w : w = View(v, r, n)
  OBVIOUS
<1>3. \A o \in 0 .. n - 1 : u[o] = t[Turn(r, o, n)] /\ w[o] = v[Turn(r, o, n)]
  BY <1>1, <1>2 DEF View
<1>4. \A x \in 0 .. l : G[x] \in 0 .. n - 1 /\ Turn(r, G[x], n) = g[x]
  BY DEF GapsFrom
<1>5. ASSUME NEW x \in 0 .. l, NEW o \in 0 .. n - 1
      PROVE  g[x] = Turn(r, o, n) <=> G[x] = o
  <2>1. G[x] \in 0 .. n - 1 /\ Turn(r, G[x], n) = g[x]
    BY <1>4
  <2>2. Turn(r, G[x], n) = Turn(r, o, n) => G[x] = o
    BY <2>1, OneToOne
  <2>3. QED
    BY <2>1, <2>2
<1>6. \A x \in 1 .. l : x \in 0 .. l /\ x - 1 \in 0 .. l /\ x \in 0 .. n - 1
  OBVIOUS
<1>7. ASSUME NEW x \in 1 .. l PROVE g[x] # g[x - 1] <=> G[x] # G[x - 1]
  BY <1>4, <1>5, <1>6
<1>8. ASSUME NEW o \in 0 .. n - 1
      PROVE  /\ o = G[l] => w[o] = Empty
             /\ o # G[l] /\ (\E x : Moved(G, l, x) /\ G[x - 1] = o)
                  => \E x : Moved(G, l, x) /\ G[x - 1] = o /\ w[o] = u[x]
             /\ o # G[l] /\ ~(\E x : Moved(G, l, x) /\ G[x - 1] = o) => w[o] = u[o]
  <2>1. PICK s \in 0 .. n - 1 : s = Turn(r, o, n)
    BY TurnIs
  <2>2. w[o] = v[s] /\ u[o] = t[s]
    BY <1>3, <2>1
  <2>3. s = g[l] <=> o = G[l]
    BY <1>5, <2>1
  <2>4. Leaves(g, l, s) <=> \E x : Moved(G, l, x) /\ G[x - 1] = o
    <3>1. ASSUME NEW x \in 1 .. l PROVE g[x - 1] = s <=> G[x - 1] = o
      BY <1>5, <1>6, <2>1
    <3>2. \A x \in 1 .. l : g[x] # g[x - 1] /\ g[x - 1] = s <=> G[x] # G[x - 1] /\ G[x - 1] = o
      BY <1>7, <3>1
    <3>3. QED
      BY <3>2 DEF Leaves, Moved
  <2>5. ASSUME NEW x \in 1 .. l, g[x] # g[x - 1], g[x - 1] = s, v[s] = t[g[x]]
        PROVE  Moved(G, l, x) /\ G[x - 1] = o /\ w[o] = u[x]
    <3>1. Moved(G, l, x) /\ G[x - 1] = o
      BY <1>5, <1>6, <1>7, <2>1, <2>5 DEF Moved
    <3>2. G[x] = x
      BY <3>1 DEF Moved, IsGap
    <3>3. u[x] = t[g[x]]
      BY <1>3, <1>4, <1>6, <3>2
    <3>4. QED
      BY <2>2, <2>5, <3>1, <3>3
  <2>6. /\ s = g[l] => v[s] = Empty
        /\ s # g[l] /\ Leaves(g, l, s) =>
             \E x \in 1 .. l : g[x] # g[x - 1] /\ g[x - 1] = s /\ v[s] = t[g[x]]
        /\ s # g[l] /\ ~Leaves(g, l, s) => v[s] = t[s]
    BY DEF Closing
  <2>7. s # g[l] /\ Leaves(g, l, s) => \E x : Moved(G, l, x) /\ G[x - 1] = o /\ w[o] = u[x]
    BY <2>5, <2>6
  <2>8. QED
    BY <2>2, <2>3, <2>4, <2>6, <2>7
<1>9. Closed(w, u, n, G, l)
  BY <1>8 DEF Closed
<1>10. QED
  BY <1>1, <1>2, <1>9

(* No slot on from r is r. *)
LEMMA TurnNone ==
  ASSUME NEW n \in Nat \ {0}, NEW r \in 0 .. n - 1
  PROVE  0 \in 0 .. n - 1 /\ Turn(r, 0, n) = r
<1>1. 0 \in 0 .. n - 1 /\ r + 0 < n /\ r + 0 = r
  OBVIOUS
<1>2. r + 0 < n => Turn(r, 0, n) = r + 0
  BY <1>1, TurnIs
<1>3. QED
  BY <1>1, <1>2

(* A table and the same table with the entry of slot r removed. *)
Closes(t, v, n, r, l, G) ==
  /\ IsGap(G, l) /\ G[l] \in 0 .. l
  /\ Closed(View(v, r, n), View(t, r, n), n, G, l)
  /\ v = [s \in 0 .. n - 1 |-> v[s]]

(* All of this together, for any chain. *)
LEMMA UnchainCloses ==
  ASSUME NEW n \in Nat \ {0}, NEW t \in Tables(n), NEW r \in 0 .. n - 1, NEW l \in 0 .. n - 1,
         Follow(t, n, r, l), NEW home, HomesFrom(home, r, n)
  PROVE  \E G : /\ G[0] = 0 /\ ByHome(G, l, View(t, r, n), n, home)
                /\ Closes(t, Unchain(t, n, r), n, r, l, G)
<1>1. PICK g : g = Gaps(t, n, r)
  OBVIOUS
<1>2. GapsAre(g, t, n, r, l)
  BY <1>1, GapsIs
<1>3. g \in [0 .. l -> 0 .. n - 1]
  BY <1>2 DEF GapsAre
<1>4. PICK v : v = Unchain(t, n, r)
  OBVIOUS
<1>5. Closing(v, t, n, g, l)
  BY <1>1, <1>4, UnchainIs
<1>6. PICK G : GapsFrom(G, g, r, n, l)
  BY <1>3, GapsFromExist
<1>7. G[0] = 0 /\ ByHome(G, l, View(t, r, n), n, home)
  BY <1>2, <1>6, GapsByHome
<1>8. IsGap(G, l)
  BY <1>7, ByHomeIsGap
<1>9. Closed(View(v, r, n), View(t, r, n), n, G, l)
  BY <1>5, <1>6, <1>8, ClosingIsClosed
<1>10. G[l] \in 0 .. l
  <2>1. l \in Nat /\ l \in 0 .. l
    OBVIOUS
  <2>2. QED
    BY <1>8, <2>1, GapShape DEF Shape
<1>11. Closes(t, v, n, r, l, G)
  BY <1>5, <1>8, <1>9, <1>10 DEF Closes, Closing
<1>12. QED
  BY <1>4, <1>7, <1>11

(* An entry of the closed table is another one than the removed one. *)
LEMMA ComesFrom ==
  ASSUME NEW n \in Nat \ {0}, NEW t, NEW v, NEW r \in 0 .. n - 1, NEW l \in 0 .. n - 1,
         NEW G, Closes(t, v, n, r, l, G), NEW s \in 0 .. n - 1
  PROVE  v[s] = Empty \/ \E q \in 0 .. n - 1 : q # r /\ v[s] = t[q]
<1>1. PICK o \in 0 .. n - 1 : Turn(r, o, n) = s
  BY Onto
<1>2. PICK u : u = View(t, r, n)
  OBVIOUS
<1>3. PICK w : w = View(v, r, n)
  OBVIOUS
<1>4. IsGap(G, l) /\ Closed(w, u, n, G, l)
  BY <1>2, <1>3 DEF Closes
<1>5. w[o] = v[s]
  BY <1>1, <1>3 DEF View
<1>6. CASE o = G[l]
  BY <1>4, <1>5, <1>6 DEF Closed
<1>7. CASE o # G[l]
  <2>1. PICK x \in 1 .. n - 1 : w[o] = u[x]
    BY <1>4, <1>7, Sources
  <2>2. x \in 0 .. n - 1 /\ 0 \in 0 .. n - 1 /\ x # 0
    OBVIOUS
  <2>3. Turn(r, x, n) \in 0 .. n - 1 /\ Turn(r, 0, n) = r
    BY <2>2, TurnIs, TurnNone
  <2>4. Turn(r, x, n) # r
    BY <2>2, <2>3, OneToOne
  <2>5. u[x] = t[Turn(r, x, n)]
    BY <1>2, <2>2 DEF View
  <2>6. QED
    BY <1>5, <2>1, <2>3, <2>4, <2>5
<1>8. QED
  BY <1>6, <1>7

(* Every other entry stays, and one that lies after r does not come to lie before it. *)
LEMMA GoesTo ==
  ASSUME NEW n \in Nat \ {0}, NEW t, NEW v, NEW r \in 0 .. n - 1, NEW l \in 0 .. n - 1,
         NEW G, Closes(t, v, n, r, l, G), NEW q \in 0 .. n - 1, q # r
  PROVE  \E s \in 0 .. n - 1 : v[s] = t[q] /\ (q >= r => s >= r /\ s <= q)
<1>1. PICK x \in 0 .. n - 1 : Turn(r, x, n) = q
  BY Onto
<1>2. 0 \in 0 .. n - 1 /\ Turn(r, 0, n) = r
  BY TurnNone
<1>3. x \in 1 .. n - 1
  BY <1>1, <1>2
<1>4. PICK u : u = View(t, r, n)
  OBVIOUS
<1>5. PICK w : w = View(v, r, n)
  OBVIOUS
<1>6. IsGap(G, l) /\ Closed(w, u, n, G, l)
  BY <1>4, <1>5 DEF Closes
<1>7. PICK o \in 0 .. x : w[o] = u[x]
  BY <1>3, <1>6, Targets
<1>8. o \in 0 .. n - 1
  OBVIOUS
<1>9. PICK s \in 0 .. n - 1 : TurnsTo(s, r, o, n)
  BY <1>8, Turned
<1>10. PICK p \in 0 .. n - 1 : TurnsTo(p, r, x, n)
  BY Turned
<1>11. p = q
  BY <1>1, <1>10 DEF TurnsTo
<1>12. q >= r => s >= r /\ s <= q
  BY <1>9, <1>10, <1>11 DEF TurnsTo
<1>13. v[s] = t[q]
  BY <1>1, <1>4, <1>5, <1>7, <1>8, <1>9 DEF View, TurnsTo
<1>14. QED
  BY <1>12, <1>13

-----------------------------------------------------------------------------
(* The contents without a key. *)
Without(c, k) == [c EXCEPT ![k] = Absent]

(* hashmap_entry_remove keeps every other entry where a search finds it, when the chain
   has fewer than half the slots of the table. *)
LEMMA UnchainHolds ==
  ASSUME NEW n \in Nat \ {0}, NEW t, NEW c \in Contents, Holds(t, n, c), NEW r \in 0 .. n - 1,
         t[r].key # NULL, Cardinality(Followers(t, n, r)) < n \div 2
  PROVE  Holds(Unchain(t, n, r), n, Without(c, t[r].key))
<1>0. t \in Tables(n) /\ Clean(t, n) /\ Agreed(t, n, c) /\ Whole(t, n, c) /\ Single(t, n) /\ Reached(t, n)
  BY DEF Holds, Tables
<1>1. PICK l \in 0 .. n - 1 : Follow(t, n, r, l)
  BY FollowersIs
<1>2. PICK home : HomesFrom(home, r, n)
  BY HomesExist
<1>3. PICK v : v = Unchain(t, n, r)
  OBVIOUS
<1>4. v \in Tables(n)
  BY <1>0, <1>3, UnchainTyped
<1>5. PICK G : G[0] = 0 /\ ByHome(G, l, View(t, r, n), n, home) /\ Closes(t, v, n, r, l, G)
  BY <1>0, <1>1, <1>2, <1>3, UnchainCloses
<1>6. PICK u \in Tables(n) : u = View(t, r, n)
  BY <1>0, ViewTyped
<1>7. PICK w : w = View(v, r, n)
  OBVIOUS
<1>8. IsGap(G, l) /\ Closed(w, u, n, G, l)
  BY <1>5, <1>6, <1>7 DEF Closes
<1>9. Chain(u, n, l)
  <2>1. l < n \div 2
    BY <1>1 DEF Follow
  <2>2. n \div 2 \in Nat /\ n \div 2 <= n - 1
    BY HalfIs
  <2>3. l < n - 1 /\ l + 1 \in 0 .. n - 1
    BY <2>1, <2>2
  <2>4. \A o \in 0 .. n - 1 : u[o] = t[Turn(r, o, n)]
    BY <1>6 DEF View
  <2>5. u[l + 1].key = NULL
    BY <1>1, <2>3, <2>4 DEF Follow
  <2>6. 0 \in 0 .. n - 1
    OBVIOUS
  <2>7. Turn(r, 0, n) = r
    BY TurnNone
  <2>8. u[0].key # NULL
    BY <2>4, <2>6, <2>7
  <2>9. \A x \in 1 .. l : u[x].key # NULL
    BY <1>1, <2>4 DEF Follow
  <2>10. \A x \in 0 .. l : x = 0 \/ x \in 1 .. l
    OBVIOUS
  <2>11. QED
    BY <2>1, <2>5, <2>8, <2>9, <2>10 DEF Chain
<1>10. AllReached(u, n, home) /\ home \in [Keys -> 0 .. n - 1]
  BY <1>0, <1>2, <1>6, ViewReached DEF HomesFrom
<1>11. AllReached(w, n, home)
  BY <1>5, <1>6, <1>8, <1>9, <1>10, ClosedReached
<1>12. Reached(v, n)
  BY <1>2, <1>4, <1>7, <1>11, ViewReached
<1>13. Single(u, n)
  BY <1>0, <1>6, ViewSingle
<1>14. Single(w, n)
  BY <1>8, <1>9, <1>13, ClosedSingle
<1>15. Single(v, n)
  BY <1>7, <1>14, ViewSingle
<1>16. PICK k \in Keys : k = t[r].key
  BY <1>0 DEF Tables, Entries
<1>17. PICK b \in Contents : b = Without(c, k)
  BY DEF Without, Contents
<1>18. \A i \in Keys : b[i] = IF i = k THEN Absent ELSE c[i]
  BY <1>17 DEF Without, Contents
<1>19. ASSUME NEW s \in 0 .. n - 1
       PROVE  v[s] = Empty \/ \E q \in 0 .. n - 1 : q # r /\ v[s] = t[q]
  <2>1. Closes(t, v, n, r, l, G)
    BY <1>5
  <2>2. QED
    BY <2>1, ComesFrom
<1>20. Clean(v, n)
  BY <1>0, <1>19 DEF Clean
<1>21. Agreed(v, n, b)
  <2>1. SUFFICES ASSUME NEW s \in 0 .. n - 1, v[s].key # NULL
                 PROVE  v[s].data = b[v[s].key] /\ v[s].data # Absent
    BY DEF Agreed
  <2>2. PICK q \in 0 .. n - 1 : q # r /\ v[s] = t[q]
    BY <1>19, <2>1 DEF Empty
  <2>3. t[q].key # k /\ t[q].key \in Keys
    BY <1>0, <1>16, <2>1, <2>2 DEF Single, Tables, Entries
  <2>4. QED
    BY <1>0, <1>18, <2>1, <2>2, <2>3 DEF Agreed
<1>22. Whole(v, n, b)
  <2>1. SUFFICES ASSUME NEW i \in Keys, b[i] # Absent PROVE \E s \in 0 .. n - 1 : v[s].key = i
    BY DEF Whole
  <2>2. i # k /\ c[i] # Absent
    BY <1>18, <2>1
  <2>3. PICK q \in 0 .. n - 1 : t[q].key = i
    BY <1>0, <2>2 DEF Whole
  <2>4. q # r
    BY <1>16, <2>2, <2>3
  <2>5. PICK s \in 0 .. n - 1 : v[s] = t[q]
    BY <1>5, <2>4, GoesTo
  <2>6. QED
    BY <2>3, <2>5
<1>23. Holds(v, n, b)
  BY <1>4, <1>12, <1>15, <1>20, <1>21, <1>22 DEF Holds, Tables
<1>24. QED
  BY <1>3, <1>16, <1>17, <1>23

(* hashmap_destroy leaves a table of no slots. *)
LEMMA EmptyTable ==
  ASSUME NEW X
  PROVE  <<>> \in [0 .. 0 - 1 -> X]
<1>1. <<>> \in [1 .. 0 -> X]
  OBVIOUS
<1>2. 1 .. 0 = 0 .. 0 - 1
  OBVIOUS
<1>3. QED
  BY <1>1, <1>2

(* hashmap_entry_get_populated: the first entry from slot s on. *)
IsFirstFrom(t, n, s, p) ==
  p \in s .. n /\ (p < n => t[p].key # NULL) /\ \A q \in s .. p - 1 : t[q].key = NULL

(* hashmap_entry_get_populated finds the first entry from slot s on, or the end. *)
LEMMA FirstFromIs ==
  ASSUME NEW t, NEW n \in Nat, NEW s \in 0 .. n
  PROVE  IsFirstFrom(t, n, s, FirstFrom(t, n, s))
<1>1. PICK m \in Nat : m = n - s
  OBVIOUS
<1>2. \E i \in 0 .. m : (i < m => t[s + i].key # NULL) /\ \A j \in 0 .. i - 1 : ~(t[s + j].key # NULL)
  <2>1. PICK T : T = {j \in Nat : t[s + j].key # NULL}
    OBVIOUS
  <2>2. PICK i \in 0 .. m : (i < m => i \in T) /\ \A j \in 0 .. i - 1 : j \notin T
    BY FirstExists
  <2>3. \A j \in 0 .. i - 1 : j \in Nat
    OBVIOUS
  <2>4. QED
    BY <2>1, <2>2, <2>3
<1>3. PICK i : i = CHOOSE x \in 0 .. m :
        (x < m => t[s + x].key # NULL) /\ \A j \in 0 .. x - 1 : ~(t[s + j].key # NULL)
  OBVIOUS
<1>4. i \in 0 .. m /\ (i < m => t[s + i].key # NULL) /\ \A j \in 0 .. i - 1 : ~(t[s + j].key # NULL)
  BY <1>2, <1>3
<1>5. FirstFrom(t, n, s) = s + i
  BY <1>1, <1>3 DEF FirstFrom, First
<1>6. PICK p : p = s + i
  OBVIOUS
<1>7. p \in s .. n /\ (p < n => t[p].key # NULL)
  BY <1>1, <1>4, <1>6
<1>8. ASSUME NEW q \in s .. p - 1 PROVE t[q].key = NULL
  <2>1. q - s \in 0 .. i - 1 /\ s + (q - s) = q
    BY <1>4, <1>6
  <2>2. QED
    BY <1>4, <2>1
<1>9. IsFirstFrom(t, n, s, p)
  BY <1>7, <1>8 DEF IsFirstFrom
<1>10. QED
  BY <1>5, <1>6, <1>9

-----------------------------------------------------------------------------
(* The table, the count and the copies that belong to some contents. *)
Stored(c) == {k \in Keys : c[k] # Absent}

Has(c, k)    == IF c[k] = Absent THEN 0 ELSE 1
IsLeft(gone) == gone[1] \in Nat /\ gone[2] \in [Keys -> Nat]

(* Beside the entries they have those that were left out. *)
Kept(t, n, c, q, cp, gone) ==
  /\ n > 0 => Holds(t, n, c)
  /\ n = 0 => \A k \in Keys : c[k] = Absent
  /\ IsFiniteSet(Stored(c)) /\ q = Cardinality(Stored(c)) + gone[1]
  /\ \A k \in Keys : cp[k] = Has(c, k) + gone[2][k]

(* A key has one slot when it is stored and none when it is not. *)
LEMMA SlotsAre ==
  ASSUME NEW n \in Nat, NEW c \in Contents, NEW t, n > 0 => Holds(t, n, c),
         n = 0 => \A l \in Keys : c[l] = Absent, NEW k \in Keys
  PROVE  Cardinality(SlotsOf(t, n, k)) = IF c[k] = Absent THEN 0 ELSE 1
<1>1. CASE n = 0
  <2>1. SlotsOf(t, n, k) = {}
    BY <1>1 DEF SlotsOf
  <2>2. QED
    BY <1>1, <2>1, FS_EmptySet
<1>2. CASE n > 0 /\ c[k] = Absent
  <2>1. SlotsOf(t, n, k) = {}
    BY <1>2 DEF SlotsOf, Holds, Agreed
  <2>2. QED
    BY <1>2, <2>1, FS_EmptySet
<1>3. CASE n > 0 /\ c[k] # Absent
  <2>1. PICK s \in 0 .. n - 1 : t[s].key = k
    BY <1>3 DEF Holds, Whole
  <2>2. SlotsOf(t, n, k) = {s}
    BY <1>3, <2>1 DEF SlotsOf, Holds, Single
  <2>3. QED
    BY <1>3, <2>2, FS_Singleton
<1>4. QED
  BY <1>1, <1>2, <1>3

(* Stored keys have one slot each. *)
LEMMA KeysHaveSlots ==
  ASSUME NEW n \in Nat, NEW c \in Contents, NEW t, n > 0 => Holds(t, n, c),
         n = 0 => \A l \in Keys : c[l] = Absent, IsFiniteSet(Stored(c)),
         NEW K \in SUBSET Stored(c), NEW P, P = {s \in 0 .. n - 1 : t[s].key \in K}
  PROVE  IsFiniteSet(P) /\ Cardinality(P) = Cardinality(K)
<1>1. PICK f : f = [s \in P |-> t[s].key]
  OBVIOUS
<1>2. f \in [P -> K]
  BY <1>1
<1>3. ASSUME NEW k \in K PROVE k \in Keys /\ k # NULL /\ c[k] # Absent
  <2>1. k \in Stored(c)
    OBVIOUS
  <2>2. QED
    BY <2>1 DEF Stored
<1>4. ASSUME NEW s \in P, NEW q \in P, f[s] = f[q] PROVE s = q
  <2>1. s \in 0 .. n - 1 /\ q \in 0 .. n - 1 /\ n > 0
    OBVIOUS
  <2>2. t[s].key = t[q].key /\ t[s].key # NULL
    BY <1>1, <1>3, <1>4
  <2>3. QED
    BY <2>1, <2>2 DEF Holds, Single
<1>5. ASSUME NEW k \in K PROVE \E s \in P : f[s] = k
  <2>1. n # 0
    BY <1>3
  <2>2. PICK s \in 0 .. n - 1 : t[s].key = k
    BY <1>3, <2>1 DEF Holds, Whole
  <2>3. QED
    BY <1>1, <2>2
<1>6. f \in Bijection(P, K)
  BY <1>2, <1>4, <1>5 DEF Bijection, Injection, Surjection, IsInjective
<1>7. P \in SUBSET (0 .. n - 1) /\ IsFiniteSet(0 .. n - 1)
  <2>1. n - 1 \in Int /\ 0 \in Int
    OBVIOUS
  <2>2. IsFiniteSet(0 .. n - 1)
    BY <2>1, FS_Interval
  <2>3. QED
    BY <2>2
<1>8. IsFiniteSet(P)
  BY <1>7, FS_Subset
<1>9. ExistsBijection(P, K)
  BY <1>6 DEF ExistsBijection
<1>10. QED
  BY <1>8, <1>9, FS_Bijection

(* The entries of the table are as many as the stored keys. *)
LEMMA EntriesAre ==
  ASSUME NEW n \in Nat, NEW c \in Contents, NEW t, n > 0 => Holds(t, n, c),
         n = 0 => \A l \in Keys : c[l] = Absent, IsFiniteSet(Stored(c))
  PROVE  Cardinality(Populated(t, n)) = Cardinality(Stored(c))
<1>1. PICK P : P = {s \in 0 .. n - 1 : t[s].key \in Stored(c)}
  OBVIOUS
<1>2. ASSUME NEW s \in 0 .. n - 1 PROVE t[s].key # NULL <=> t[s].key \in Stored(c)
  <2>1. n > 0
    OBVIOUS
  <2>2. t[s].key \in Keys \union {NULL}
    BY <2>1 DEF Holds, Entries
  <2>3. t[s].key # NULL => c[t[s].key] # Absent
    BY <2>1 DEF Holds, Agreed
  <2>4. NULL \notin Stored(c)
    BY DEF Stored
  <2>5. QED
    BY <2>2, <2>3, <2>4 DEF Stored
<1>3. Populated(t, n) = P
  BY <1>1, <1>2 DEF Populated
<1>4. Cardinality(P) = Cardinality(Stored(c))
  BY <1>1, KeysHaveSlots
<1>5. QED
  BY <1>3, <1>4

(* A new entry, in the contents, the table and the copies. *)
Added(c, k, d) == [c EXCEPT ![k] = d]
Inserted(t, s, k, d) == [t EXCEPT ![s] = [key |-> k, data |-> d]]
OneMore(cp, k) == [cp EXCEPT ![k] = @ + 1]

(* A new entry: one more stored key, one more copy of it. *)
LEMMA KeptStored ==
  ASSUME NEW n \in Nat \ {0}, NEW c \in Contents, NEW t, NEW q, NEW cp \in [Keys -> Nat],
         NEW gone, IsLeft(gone), Kept(t, n, c, q, cp, gone),
         NEW k \in Keys, NEW d \in Data \union {NULL}, NEW s, s = Find(t, n, k), s # -1, t[s].key = NULL
  PROVE  /\ Added(c, k, d) \in Contents
         /\ q + 1 \in Nat
         /\ OneMore(cp, k) \in [Keys -> Nat]
         /\ Kept(Inserted(t, s, k, d), n, Added(c, k, d), q + 1, OneMore(cp, k), gone)
<1>1. Holds(t, n, c) /\ IsFiniteSet(Stored(c)) /\ q = Cardinality(Stored(c)) + gone[1]
  BY DEF Kept
<1>2. Found(t, n, c, k, s)
  BY <1>1, FindFinds
<1>3. s \in 0 .. n - 1 /\ c[k] = Absent
  BY <1>2 DEF Found
<1>4. PICK a \in 0 .. n \div 2 - 1 : s = Slot(k, a, n) /\ Joined(t, n, k, a - 1)
  BY <1>2 DEF Found
<1>5. PICK b \in Contents : b = [c EXCEPT ![k] = d]
  BY DEF Contents
<1>7. \A l \in Keys : b[l] = IF l = k THEN d ELSE c[l]
  BY <1>5 DEF Contents
<1>8. PICK u : u = [t EXCEPT ![s] = [key |-> k, data |-> d]]
  OBVIOUS
<1>9. Holds(u, n, b)
  BY <1>1, <1>3, <1>4, <1>5, <1>8, StoreHolds
<1>10. Stored(b) = Stored(c) \union {k} /\ k \notin Stored(c)
  BY <1>3, <1>7 DEF Stored
<1>11. IsFiniteSet(Stored(b)) /\ q + 1 = Cardinality(Stored(b)) + gone[1] /\ q \in Nat
  <2>1. IsFiniteSet(Stored(b)) /\ Cardinality(Stored(b)) = Cardinality(Stored(c)) + 1
    BY <1>1, <1>10, FS_AddElement
  <2>2. Cardinality(Stored(c)) \in Nat /\ gone[1] \in Nat
    BY <1>1, FS_CardinalityType DEF IsLeft
  <2>3. QED
    BY <1>1, <2>1, <2>2
<1>12. PICK e \in [Keys -> Nat] : e = [cp EXCEPT ![k] = @ + 1]
  <2>1. cp[k] + 1 \in Nat
    OBVIOUS
  <2>2. QED
    BY <2>1
<1>13. ASSUME NEW l \in Keys PROVE e[l] = Has(b, l) + gone[2][l]
  <2>1. cp[l] = Has(c, l) + gone[2][l] /\ gone[2][l] \in Nat
    BY DEF Kept, IsLeft
  <2>2. e[l] = IF l = k THEN cp[l] + 1 ELSE cp[l]
    BY <1>12
  <2>3. b[l] = (IF l = k THEN d ELSE c[l]) /\ d # Absent
    BY <1>7
  <2>4. QED
    BY <1>3, <2>1, <2>2, <2>3 DEF Has
<1>14. Kept(u, n, b, q + 1, e, gone)
  BY <1>9, <1>11, <1>13 DEF Kept
<1>15. Added(c, k, d) = b /\ Inserted(t, s, k, d) = u /\ OneMore(cp, k) = e
  BY <1>5, <1>8, <1>12 DEF Added, Inserted, OneMore
<1>16. q + 1 \in Nat
  BY <1>11
<1>17. QED
  BY <1>5, <1>12, <1>14, <1>15, <1>16

(* A removal: one stored key less, and its copy freed; the table holds the others
   unless the chain was too long. *)
LEMMA KeptRemoved ==
  ASSUME NEW n \in Nat \ {0}, NEW c \in Contents, NEW t, NEW q, NEW cp \in [Keys -> Nat],
         NEW gone, IsLeft(gone), Kept(t, n, c, q, cp, gone),
         NEW r \in 0 .. n - 1, t[r].key # NULL
  PROVE  /\ [c EXCEPT ![t[r].key] = Absent] \in Contents
         /\ q - 1 \in Nat
         /\ [cp EXCEPT ![t[r].key] = @ - 1] \in [Keys -> Nat]
         /\ Unchain(t, n, r) \in Tables(n)
         /\ ~(Cardinality(Followers(t, n, r)) >= n \div 2) =>
              Kept(Unchain(t, n, r), n, [c EXCEPT ![t[r].key] = Absent], q - 1,
                   [cp EXCEPT ![t[r].key] = @ - 1], gone)
<1>1. Holds(t, n, c) /\ IsFiniteSet(Stored(c)) /\ q = Cardinality(Stored(c)) + gone[1]
  BY DEF Kept
<1>2. t \in Tables(n)
  BY <1>1 DEF Holds, Tables
<1>3. PICK k \in Keys : k = t[r].key
  BY <1>2 DEF Tables, Entries
<1>4. c[k] # Absent
  BY <1>1, <1>3 DEF Holds, Agreed
<1>5. PICK b \in Contents : b = [c EXCEPT ![k] = Absent]
  BY DEF Contents
<1>6. \A l \in Keys : b[l] = IF l = k THEN Absent ELSE c[l]
  BY <1>5 DEF Contents
<1>7. Stored(b) = Stored(c) \ {k} /\ k \in Stored(c)
  BY <1>4, <1>6 DEF Stored
<1>8. IsFiniteSet(Stored(b)) /\ q - 1 = Cardinality(Stored(b)) + gone[1] /\ q - 1 \in Nat
  <2>1. IsFiniteSet(Stored(b)) /\ Cardinality(Stored(b)) = Cardinality(Stored(c)) - 1
    BY <1>1, <1>7, FS_RemoveElement
  <2>2. Cardinality(Stored(b)) \in Nat /\ Cardinality(Stored(c)) \in Nat /\ gone[1] \in Nat
    BY <1>1, <2>1, FS_CardinalityType DEF IsLeft
  <2>3. QED
    BY <1>1, <2>1, <2>2
<1>9. \A l \in Keys : cp[l] = Has(c, l) + gone[2][l] /\ gone[2][l] \in Nat
  BY DEF Kept, IsLeft
<1>10. PICK e : e = [cp EXCEPT ![k] = @ - 1]
  OBVIOUS
<1>11. \A l \in Keys : e[l] = IF l = k THEN cp[l] - 1 ELSE cp[l]
  BY <1>10
<1>12. ASSUME NEW l \in Keys PROVE e[l] = Has(b, l) + gone[2][l] /\ e[l] \in Nat
  <2>1. cp[l] = Has(c, l) + gone[2][l] /\ gone[2][l] \in Nat
    BY <1>9
  <2>2. e[l] = IF l = k THEN cp[l] - 1 ELSE cp[l]
    BY <1>11
  <2>3. b[l] = IF l = k THEN Absent ELSE c[l]
    BY <1>6
  <2>4. QED
    BY <1>4, <2>1, <2>2, <2>3 DEF Has
<1>13. e \in [Keys -> Nat]
  <2>1. \A l \in Keys : e[l] \in Nat
    BY <1>12
  <2>2. QED
    BY <1>10, <2>1
<1>14. PICK v \in Tables(n) : v = Unchain(t, n, r)
  BY <1>2, UnchainTyped
<1>15. ASSUME ~(Cardinality(Followers(t, n, r)) >= n \div 2)
       PROVE  Kept(v, n, b, q - 1, e, gone)
  <2>1. PICK l \in 0 .. n - 1 : Follow(t, n, r, l)
    BY FollowersIs
  <2>2. Cardinality(Followers(t, n, r)) < n \div 2
    BY <1>15, <2>1, HalfIs DEF Follow
  <2>3. Holds(v, n, b)
    BY <1>1, <1>3, <1>5, <1>14, <2>2, UnchainHolds DEF Without
  <2>4. QED
    BY <1>8, <1>12, <2>3 DEF Kept
<1>16. QED
  BY <1>3, <1>5, <1>8, <1>10, <1>13, <1>14, <1>15

(* The empty map. *)
LEMMA KeptEmptied ==
  ASSUME NEW n \in Nat, NEW c \in Contents, \A k \in Keys : c[k] = Absent,
         NEW t, n > 0 => t = Fresh(n), NEW gone, gone[1] = 0, IsLeft(gone),
         NEW cp, \A k \in Keys : cp[k] = gone[2][k]
  PROVE  Kept(t, n, c, 0, cp, gone)
<1>1. Stored(c) = {}
  BY DEF Stored
<1>2. IsFiniteSet(Stored(c)) /\ Cardinality(Stored(c)) = 0
  BY <1>1, FS_EmptySet
<1>3. n > 0 => Holds(t, n, c)
  BY FreshHolds
<1>4. 0 = Cardinality(Stored(c)) + gone[1]
  BY <1>2
<1>5. \A k \in Keys : cp[k] = Has(c, k) + gone[2][k]
  BY DEF Has, IsLeft
<1>6. QED
  BY <1>2, <1>3, <1>4, <1>5 DEF Kept

(* What hashmap_free_keys leaves of the copies. *)
Freed(t, n, q, cp) ==
  [k \in Keys |-> IF q = 0 THEN cp[k] ELSE cp[k] - Cardinality(SlotsOf(t, n, k))]

(* hashmap_free_keys frees every copy that is not lost, also when the count tells it that
   there is none. *)
LEMMA KeptFreed ==
  ASSUME NEW n \in Nat, NEW c \in Contents, NEW t, NEW q, NEW cp \in [Keys -> Nat],
         NEW gone, IsLeft(gone), Kept(t, n, c, q, cp, gone)
  PROVE  \A k \in Keys : Freed(t, n, q, cp)[k] = gone[2][k]
<1>1. SUFFICES ASSUME NEW k \in Keys PROVE Freed(t, n, q, cp)[k] = gone[2][k]
  OBVIOUS
<1>2. cp[k] = Has(c, k) + gone[2][k] /\ gone[2][k] \in Nat
  BY DEF Kept, IsLeft
<1>3. Freed(t, n, q, cp)[k] = IF q = 0 THEN cp[k] ELSE cp[k] - Cardinality(SlotsOf(t, n, k))
  BY DEF Freed
<1>4. CASE q = 0
  <2>1. Stored(c) = {}
    <3>1. IsFiniteSet(Stored(c)) /\ q = Cardinality(Stored(c)) + gone[1] /\ gone[1] \in Nat
      BY DEF Kept, IsLeft
    <3>2. Cardinality(Stored(c)) \in Nat
      BY <3>1, FS_CardinalityType
    <3>3. Cardinality(Stored(c)) = 0
      BY <1>4, <3>1, <3>2
    <3>4. QED
      BY <3>1, <3>3, FS_EmptySet
  <2>2. c[k] = Absent
    BY <2>1 DEF Stored
  <2>3. QED
    BY <1>2, <1>3, <1>4, <2>2 DEF Has
<1>5. CASE q # 0
  <2>1. Cardinality(SlotsOf(t, n, k)) = IF c[k] = Absent THEN 0 ELSE 1
    <3>1. (n > 0 => Holds(t, n, c)) /\ (n = 0 => \A l \in Keys : c[l] = Absent)
      BY DEF Kept
    <3>2. QED
      BY <3>1, SlotsAre
  <2>2. QED
    BY <1>2, <1>3, <1>5, <2>1 DEF Has
<1>6. QED
  BY <1>4, <1>5

(* hashmap_iter_set_data changes what is stored under one key. *)
LEMMA KeptSet ==
  ASSUME NEW n \in Nat \ {0}, NEW c \in Contents, NEW t, NEW q, NEW cp, NEW gone, Kept(t, n, c, q, cp, gone),
         NEW s \in 0 .. n - 1, t[s].key # NULL, NEW d \in Data \union {NULL}
  PROVE  /\ [c EXCEPT ![t[s].key] = d] \in Contents
         /\ [t EXCEPT ![s].data = d] \in Tables(n)
         /\ Kept([t EXCEPT ![s].data = d], n, [c EXCEPT ![t[s].key] = d], q, cp, gone)
<1>1. Holds(t, n, c)
  BY DEF Kept
<1>2. t \in Tables(n) /\ t[s] \in Entries
  BY <1>1 DEF Holds, Tables
<1>3. PICK k \in Keys : k = t[s].key
  BY <1>2 DEF Entries
<1>4. PICK b \in Contents : b = [c EXCEPT ![k] = d]
  BY DEF Contents
<1>5. \A l \in Keys : b[l] = IF l = k THEN d ELSE c[l]
  BY <1>4 DEF Contents
<1>6. PICK x \in Entries : x = [t[s] EXCEPT !.data = d]
  BY <1>2 DEF Entries
<1>7. x.key = k /\ x.data = d
  BY <1>2, <1>3, <1>6 DEF Entries
<1>8. PICK u : u = [t EXCEPT ![s].data = d]
  OBVIOUS
<1>9. u \in Tables(n) /\ u[s] = x /\ \A y \in 0 .. n - 1 : y # s => u[y] = t[y]
  BY <1>2, <1>6, <1>8 DEF Tables
<1>10. \A y \in 0 .. n - 1 : u[y].key = t[y].key
  BY <1>3, <1>7, <1>9
<1>11. Clean(u, n)
  BY <1>1, <1>3, <1>9, <1>10 DEF Holds, Clean
<1>12. Agreed(u, n, b)
  <2>1. SUFFICES ASSUME NEW y \in 0 .. n - 1, u[y].key # NULL
                 PROVE  u[y].data = b[u[y].key] /\ u[y].data # Absent
    BY DEF Agreed
  <2>2. CASE y = s
    BY <1>3, <1>5, <1>7, <1>9, <2>2
  <2>3. CASE y # s
    <3>1. u[y] = t[y] /\ t[y].key # k /\ t[y].key \in Keys
      BY <1>1, <1>2, <1>3, <1>9, <2>1, <2>3 DEF Holds, Single, Tables, Entries
    <3>2. QED
      BY <1>1, <1>5, <2>1, <3>1 DEF Holds, Agreed
  <2>4. QED
    BY <2>2, <2>3
<1>13. \A l \in Keys : b[l] = Absent <=> c[l] = Absent
  <2>1. c[k] # Absent
    BY <1>1, <1>3 DEF Holds, Agreed
  <2>2. QED
    BY <1>5, <2>1
<1>14. Whole(u, n, b)
  BY <1>1, <1>10, <1>13 DEF Holds, Whole
<1>15. Single(u, n)
  BY <1>1, <1>10 DEF Holds, Single
<1>16. Reached(u, n)
  <2>1. ASSUME NEW l \in Keys, NEW e \in 0 .. n \div 2 - 1, Joined(t, n, l, e)
        PROVE  Joined(u, n, l, e)
    <3>1. SUFFICES ASSUME NEW j \in 0 .. e PROVE u[Slot(l, j, n)].key # NULL
      BY DEF Joined
    <3>2. j \in 0 .. n - 1
      BY HalfIs
    <3>3. Slot(l, j, n) \in 0 .. n - 1
      BY <3>2, SlotIs
    <3>4. QED
      BY <1>10, <2>1, <3>3 DEF Joined
  <2>2. SUFFICES ASSUME NEW y \in 0 .. n - 1, u[y].key # NULL
                 PROVE  \E e \in 0 .. n \div 2 - 1 : y = Slot(u[y].key, e, n) /\ Joined(u, n, u[y].key, e)
    BY DEF Reached
  <2>3. u[y].key = t[y].key /\ t[y].key \in Keys
    BY <1>2, <1>10, <2>2 DEF Tables, Entries
  <2>4. PICK e \in 0 .. n \div 2 - 1 : y = Slot(t[y].key, e, n) /\ Joined(t, n, t[y].key, e)
    BY <1>1, <2>2, <2>3 DEF Holds, Reached
  <2>5. QED
    BY <2>1, <2>3, <2>4
<1>17. Holds(u, n, b)
  BY <1>9, <1>11, <1>12, <1>14, <1>15, <1>16 DEF Holds, Tables
<1>18. Stored(b) = Stored(c)
  BY <1>13 DEF Stored
<1>19. Kept(u, n, b, q, cp, gone)
  BY <1>13, <1>17, <1>18 DEF Kept, Has
<1>20. QED
  BY <1>3, <1>4, <1>8, <1>9, <1>19

(* What hashmap_put works on: the table, as it is or doubled. *)
IsMap(m, c) ==
  /\ m = [table |-> m.table, size |-> m.size, ok |-> m.ok]
  /\ m.size \in 1 .. MaxSize
  /\ Holds(m.table, m.size, c)

(* A table that was doubled holds what had data. *)
IsMapOf(m, n, c) ==
  \/ m.size = n /\ IsMap(m, c)
  \/ m.size > n /\ IsMap(m, Thin(c))

(* A table hashmap_put looked into, doubled or not, holds the contents, or those with
   data. *)
LEMMA RehashedHolds ==
  ASSUME NEW c \in Contents, NEW m, IsMap(m, c), NEW m2 \in Rehashed(m)
  PROVE  \/ m2.size = m.size /\ IsMap(m2, c)
         \/ m2.size > m.size /\ IsMap(m2, Thin(c))
<1>1. PICK n \in 1 .. MaxSize : n = m.size
  BY DEF IsMap
<1>2. PICK t : t = m.table
  OBVIOUS
<1>3. PICK new : new = Rehash(t, n, 2 * n)
  OBVIOUS
<1>4. CASE m2 = [m EXCEPT !.ok = FALSE]
  <2>1. m2 = [table |-> t, size |-> n, ok |-> FALSE]
    BY <1>1, <1>2, <1>4 DEF IsMap
  <2>2. QED
    BY <1>1, <1>2, <2>1 DEF IsMap
<1>5. CASE ~(2 * n > MaxSize) /\ new # <<>> /\ m2 = [table |-> new, size |-> 2 * n, ok |-> TRUE]
  <2>1. 2 * n \in 1 .. MaxSize /\ 2 * n \in Nat \ {0} /\ n \in Nat \ {0} /\ 2 * n > n
    BY <1>5
  <2>2. Holds(t, n, c)
    BY <1>1, <1>2 DEF IsMap
  <2>3. Holds(new, 2 * n, Thin(c))
    BY <1>3, <1>5, <2>1, <2>2, RehashHolds
  <2>4. QED
    BY <1>1, <1>5, <2>1, <2>3 DEF IsMap
<1>6. QED
  BY <1>1, <1>2, <1>3, <1>4, <1>5 DEF Rehashed

(* What was left out once is not there to be left out again. *)
LEMMA ThinTwice ==
  ASSUME NEW c \in Contents
  PROVE  Thin(c) \in Contents /\ Thin(Thin(c)) = Thin(c)
<1>1. PICK b \in Contents : b = Thin(c)
  BY DEF Thin, Contents
<1>2. \A k \in Keys : b[k] = IF c[k] = NULL THEN Absent ELSE c[k]
  BY <1>1 DEF Thin
<1>3. \A k \in Keys : b[k] # NULL
  BY <1>2
<1>4. PICK d \in Contents : d = Thin(b)
  BY DEF Thin, Contents
<1>5. \A k \in Keys : d[k] = b[k]
  BY <1>3, <1>4 DEF Thin
<1>6. d = b
  BY <1>5 DEF Contents
<1>7. QED
  BY <1>1, <1>4, <1>6

(* Doubled once or twice. *)
LEMMA RehashedAgain ==
  ASSUME NEW c \in Contents, NEW n \in 1 .. MaxSize, NEW m, IsMapOf(m, n, c), NEW m2 \in Rehashed(m)
  PROVE  IsMapOf(m2, n, c)
<1>1. m.size \in Nat /\ m.size >= n
  BY DEF IsMapOf, IsMap
<1>2. CASE m.size = n /\ IsMap(m, c)
  BY <1>2, RehashedHolds DEF IsMapOf
<1>3. CASE m.size > n /\ IsMap(m, Thin(c))
  <2>1. Thin(c) \in Contents /\ Thin(Thin(c)) = Thin(c)
    BY ThinTwice
  <2>2. (m2.size = m.size \/ m2.size > m.size) /\ IsMap(m2, Thin(c))
    BY <1>3, <2>1, RehashedHolds
  <2>3. m2.size \in Nat /\ m2.size > n
    BY <1>1, <1>3, <2>2 DEF IsMap
  <2>4. QED
    BY <2>2, <2>3 DEF IsMapOf
<1>4. QED
  BY <1>2, <1>3 DEF IsMapOf

(* The entries without data that doubling leaves out, of all keys and of one. *)
LEMMA OutAre ==
  ASSUME NEW n \in Nat \ {0}, NEW c \in Contents, NEW t, Holds(t, n, c), IsFiniteSet(Stored(c)),
         NEW out, out = WithoutData(t, n)
  PROVE  /\ Cardinality(Stored(c)) = Cardinality(Stored(Thin(c))) + Cardinality(out)
         /\ IsFiniteSet(Stored(Thin(c))) /\ Cardinality(out) \in Nat
         /\ Cardinality(Stored(Thin(c))) \in Nat
         /\ \A k \in Keys : Has(c, k) = Has(Thin(c), k) + Cardinality(out \intersect SlotsOf(t, n, k))
<1>1. PICK K : K = {k \in Keys : c[k] = NULL}
  OBVIOUS
<1>2. K \in SUBSET Stored(c)
  BY <1>1 DEF Stored
<1>3. ASSUME NEW s \in 0 .. n - 1
      PROVE  s \in out <=> t[s].key \in K
  <2>1. t[s].key \in Keys \union {NULL}
    BY DEF Holds, Entries
  <2>2. t[s].key # NULL => t[s].data = c[t[s].key]
    BY DEF Holds, Agreed
  <2>3. QED
    BY <1>1, <2>1, <2>2 DEF WithoutData, Populated
<1>4. out = {s \in 0 .. n - 1 : t[s].key \in K}
  BY <1>3 DEF WithoutData, Populated
<1>5. IsFiniteSet(out) /\ Cardinality(out) = Cardinality(K)
  BY <1>2, <1>4, KeysHaveSlots
<1>6. PICK b \in Contents : b = Thin(c)
  BY ThinTwice
<1>7. \A k \in Keys : b[k] = IF c[k] = NULL THEN Absent ELSE c[k]
  BY <1>6 DEF Thin
<1>8. Stored(b) = Stored(c) \ K /\ Stored(c) \intersect K = K
  BY <1>1, <1>2, <1>7 DEF Stored
<1>9. IsFiniteSet(Stored(b)) /\ Cardinality(Stored(b)) = Cardinality(Stored(c)) - Cardinality(K)
  <2>1. PICK S : S = Stored(c)
    OBVIOUS
  <2>2. IsFiniteSet(S) /\ K \subseteq S
    BY <1>2, <2>1
  <2>3. /\ IsFiniteSet(S \ K) /\ Cardinality(S \ K) = Cardinality(S) - Cardinality(S \intersect K)
    BY <2>2, FS_Difference
  <2>4. S \ K = Stored(b) /\ S \intersect K = K
    BY <1>8, <2>1
  <2>5. QED
    BY <2>1, <2>3, <2>4
<1>10. IsFiniteSet(K)
  BY <1>2, FS_Subset
<1>11. Cardinality(K) \in Nat /\ Cardinality(Stored(b)) \in Nat /\ Cardinality(Stored(c)) \in Nat
  BY <1>9, <1>10, FS_CardinalityType
<1>12. ASSUME NEW k \in Keys
       PROVE  Has(c, k) = Has(b, k) + Cardinality(out \intersect SlotsOf(t, n, k))
  <2>1. Cardinality(SlotsOf(t, n, k)) = IF c[k] = Absent THEN 0 ELSE 1
    BY SlotsAre
  <2>2. CASE c[k] = NULL
    <3>1. out \intersect SlotsOf(t, n, k) = SlotsOf(t, n, k)
      BY <1>1, <1>4, <2>2 DEF SlotsOf
    <3>2. c[k] # Absent /\ b[k] = Absent
      BY <1>7, <2>2
    <3>3. Cardinality(out \intersect SlotsOf(t, n, k)) = 1
      BY <2>1, <3>1, <3>2
    <3>4. Has(c, k) = 1 /\ Has(b, k) = 0
      BY <3>2 DEF Has
    <3>5. QED
      BY <3>3, <3>4
  <2>3. CASE c[k] # NULL
    <3>1. out \intersect SlotsOf(t, n, k) = {}
      BY <1>1, <1>4, <2>3 DEF SlotsOf
    <3>2. Cardinality(out \intersect SlotsOf(t, n, k)) = 0
      BY <3>1, FS_EmptySet
    <3>3. QED
      BY <1>7, <2>3, <3>2 DEF Has
  <2>4. QED
    BY <2>2, <2>3
<1>13. QED
  BY <1>5, <1>6, <1>9, <1>11, <1>12

-----------------------------------------------------------------------------
(* The types of the map and of a walk. *)
Given == [Keys -> Data \union {NULL}]

Typed(n, t, q, cp, x, gone) ==
  /\ n \in 0 .. MaxSize /\ t \in Tables(n) /\ q \in Nat /\ cp \in [Keys -> Nat]
  /\ x \in Given /\ IsLeft(gone)

(* The table, the count, the copies and what was left out belong to contents that show
   as x. *)
Keeps(t, n, x, q, cp, gone) ==
  \E c \in Contents : Shows(x, c) /\ Kept(t, n, c, q, cp, gone)

(* Every key a walk has to meet it has met or will meet, from slot a on. *)
Ahead(t, n, a, dd, ss) == \A k \in dd : k \in ss \/ \E s \in a .. n - 1 : t[s].key = k

(* A walk stands on an entry or at the end, and what it has to meet lies ahead. *)
WalkFine(t, n, w, dd, ss) ==
  w.kind # "none" =>
    /\ n > 0
    /\ w.at < n => t[w.at].key # NULL
    /\ ForeachReach # "any" => Ahead(t, n, w.at, dd, ss)

(* A walk begins on the first entry, with every entry ahead. *)
LEMMA WalkStarts ==
  ASSUME NEW n \in Nat \ {0}, NEW t \in Tables(n), NEW x
  PROVE  /\ FirstFrom(t, n, 0) \in 0 .. n
         /\ KeysOf(t, n) \subseteq Keys
         /\ WalkFine(t, n, [kind |-> x, at |-> FirstFrom(t, n, 0)], KeysOf(t, n), {})
<1>1. PICK p : p = FirstFrom(t, n, 0)
  OBVIOUS
<1>2. 0 \in 0 .. n
  OBVIOUS
<1>3. IsFirstFrom(t, n, 0, p)
  BY <1>1, <1>2, FirstFromIs
<1>4. p \in 0 .. n /\ (p < n => t[p].key # NULL) /\ \A q \in 0 .. p - 1 : t[q].key = NULL
  BY <1>3 DEF IsFirstFrom
<1>5. ASSUME NEW k \in KeysOf(t, n) PROVE k \in Keys /\ \E s \in p .. n - 1 : t[s].key = k
  <2>1. PICK s \in 0 .. n - 1 : t[s].key = k /\ k # NULL
    BY DEF KeysOf, Populated
  <2>2. k \in Keys
    BY <2>1 DEF Tables, Entries
  <2>3. s \in 0 .. p - 1 \/ s \in p .. n - 1
    BY <1>4
  <2>4. QED
    BY <1>4, <2>1, <2>2, <2>3
<1>6. PICK w : w = [kind |-> x, at |-> p]
  OBVIOUS
<1>7. WalkFine(t, n, w, KeysOf(t, n), {})
  BY <1>4, <1>5, <1>6 DEF WalkFine, Ahead
<1>8. KeysOf(t, n) \subseteq Keys
  BY <1>5
<1>9. QED
  BY <1>1, <1>4, <1>6, <1>7, <1>8

(* A walk goes on from slot a in table v; what it has to meet lies there. *)
LEMMA WalkGoes ==
  ASSUME NEW n \in Nat \ {0}, NEW v, NEW a \in 0 .. n, NEW w, NEW dd \in SUBSET Keys, NEW ss,
         w = [kind |-> w.kind, at |-> w.at],
         ForeachReach # "any" => Ahead(v, n, a, dd, ss)
  PROVE  /\ FirstFrom(v, n, a) \in a .. n
         /\ WalkFine(v, n, [w EXCEPT !.at = FirstFrom(v, n, a)], dd, ss)
<1>1. PICK p : p = FirstFrom(v, n, a)
  OBVIOUS
<1>2. IsFirstFrom(v, n, a, p)
  BY <1>1, FirstFromIs
<1>3. p \in a .. n /\ (p < n => v[p].key # NULL) /\ \A q \in a .. p - 1 : v[q].key = NULL
  BY <1>2 DEF IsFirstFrom
<1>4. ASSUME ForeachReach # "any", NEW k \in dd PROVE k \in ss \/ \E s \in p .. n - 1 : v[s].key = k
  <2>1. CASE k \in ss
    BY <2>1
  <2>2. CASE \E s \in a .. n - 1 : v[s].key = k
    <3>1. PICK s \in a .. n - 1 : v[s].key = k
      BY <2>2
    <3>2. s \in a .. p - 1 \/ s \in p .. n - 1
      BY <1>3
    <3>3. k # NULL
      OBVIOUS
    <3>4. QED
      BY <1>3, <3>1, <3>2, <3>3
  <2>3. QED
    BY <1>4, <2>1, <2>2 DEF Ahead
<1>5. PICK x : x = [w EXCEPT !.at = p]
  OBVIOUS
<1>6. x.at = p
  <2>1. x = [kind |-> w.kind, at |-> p]
    BY <1>5
  <2>2. QED
    BY <2>1
<1>7. WalkFine(v, n, x, dd, ss)
  BY <1>3, <1>4, <1>6 DEF WalkFine, Ahead
<1>8. QED
  BY <1>1, <1>3, <1>5, <1>7

(* What lies ahead of a walk after its own entry was met. *)
LEMMA AheadMet ==
  ASSUME NEW n \in Nat \ {0}, NEW t, NEW a \in 0 .. n - 1, NEW dd, NEW ss,
         Ahead(t, n, a, dd, ss)
  PROVE  Ahead(t, n, a + 1, dd, ss \union {t[a].key})
<1>1. \A s \in a .. n - 1 : s = a \/ s \in a + 1 .. n - 1
  OBVIOUS
<1>2. QED
  BY <1>1 DEF Ahead

(* What lies ahead of it after its own entry was removed: nothing moved to before it. *)
LEMMA AheadRemoved ==
  ASSUME NEW n \in Nat \ {0}, NEW t \in Tables(n), NEW a \in 0 .. n - 1, NEW dd, NEW ss,
         Ahead(t, n, a, dd, ss)
  PROVE  Ahead(Unchain(t, n, a), n, a, dd, ss \union {t[a].key})
<1>1. PICK v : v = Unchain(t, n, a)
  OBVIOUS
<1>2. PICK l \in 0 .. n - 1 : Follow(t, n, a, l)
  BY FollowersIs
<1>3. PICK home : HomesFrom(home, a, n)
  BY HomesExist
<1>4. PICK G : Closes(t, v, n, a, l, G)
  BY <1>1, <1>2, <1>3, UnchainCloses
<1>5. SUFFICES ASSUME NEW k \in dd, k \notin ss, k # t[a].key PROVE \E s \in a .. n - 1 : v[s].key = k
  BY <1>1 DEF Ahead
<1>6. PICK q \in a .. n - 1 : t[q].key = k
  BY <1>5 DEF Ahead
<1>7. q \in 0 .. n - 1 /\ q # a /\ q >= a
  BY <1>5, <1>6
<1>8. PICK s \in 0 .. n - 1 : v[s] = t[q] /\ (q >= a => s >= a /\ s <= q)
  BY <1>4, <1>7, GoesTo
<1>9. s \in a .. n - 1
  BY <1>7, <1>8
<1>10. QED
  BY <1>6, <1>8, <1>9

(* The removed key is gone from its slot. *)
LEMMA RemovedIsGone ==
  ASSUME NEW n \in Nat \ {0}, NEW t \in Tables(n), Single(t, n), NEW a \in 0 .. n - 1, t[a].key # NULL
  PROVE  Unchain(t, n, a)[a].key # t[a].key
<1>1. PICK v : v = Unchain(t, n, a)
  OBVIOUS
<1>2. PICK l \in 0 .. n - 1 : Follow(t, n, a, l)
  BY FollowersIs
<1>3. PICK home : HomesFrom(home, a, n)
  BY HomesExist
<1>4. PICK G : Closes(t, v, n, a, l, G)
  BY <1>1, <1>2, <1>3, UnchainCloses
<1>5. v[a] = Empty \/ \E q \in 0 .. n - 1 : q # a /\ v[a] = t[q]
  BY <1>4, ComesFrom
<1>6. QED
  BY <1>1, <1>5 DEF Single, Empty

WalkTyped(n, w, dd, ss) ==
  w \in [kind : {"none", "iter", "foreach"}, at : 0 .. n] /\ dd \in SUBSET Keys /\ ss \in SUBSET Keys

(* The invariant.  After a removal from a chain of more than half the table only the
   types are left of it, and nothing goes on but the end of hashmap_foreach. *)
MapInv ==
  /\ Typed(size, table, num, copies, contents, left)
  /\ WalkTyped(size, walk, due, seen)
  /\ stretched \in BOOLEAN
  /\ ~stretched => /\ Keeps(table, size, contents, num, copies, left)
                   /\ WalkFine(table, size, walk, due, seen)

(* The invariant includes the types. *)
LEMMA InvTypes == MapInv => TypeOK
  BY DEF MapInv, TypeOK, Typed, WalkTyped, Tables, Entries, Given, IsLeft, left

(* No walk. *)
LEMMA NoWalkFine ==
  ASSUME NEW n \in Nat, NEW t
  PROVE  WalkTyped(n, NoWalk, {}, {}) /\ WalkFine(t, n, NoWalk, {}, {})
  BY DEF WalkTyped, WalkFine, NoWalk

(* The empty map, for its callers. *)
LEMMA NothingKept ==
  ASSUME NEW n \in Nat, NEW x, \A k \in Keys : x[k] = NULL,
         NEW t, n > 0 => t = Fresh(n), NEW gone, gone[1] = 0, IsLeft(gone),
         NEW cp, \A k \in Keys : cp[k] = gone[2][k]
  PROVE  Keeps(t, n, x, 0, cp, gone)
<1>1. PICK c \in Contents : c = [k \in Keys |-> Absent]
  BY DEF Contents
<1>2. \A k \in Keys : c[k] = Absent
  BY <1>1
<1>3. Kept(t, n, c, 0, cp, gone)
  BY <1>2, KeptEmptied
<1>4. Shows(x, c)
  BY <1>2 DEF Shows, Value
<1>5. QED
  BY <1>3, <1>4 DEF Keeps

(* hashmap_init. *)
LEMMA MapInit == Init => MapInv
<1> SUFFICES ASSUME Init PROVE MapInv
  OBVIOUS
<1>1. PICK n \in 1 .. MaxSize : n = FirstSize
  OBVIOUS
<1>2. size = n /\ table = Fresh(n) /\ num = 0 /\ walk = NoWalk /\ due = {} /\ seen = {} /\ stretched = FALSE
  BY <1>1 DEF Init
<1>3. contents \in Given /\ \A k \in Keys : contents[k] = NULL
  BY DEF Init, Given
<1>4. copies \in [Keys -> Nat] /\ \A k \in Keys : copies[k] = left[2][k]
  BY DEF Init, left
<1>5. n \in Nat /\ left[1] = 0 /\ IsLeft(left)
  BY DEF Init, left, IsLeft
<1>6. Keeps(table, n, contents, 0, copies, left)
  BY <1>2, <1>3, <1>4, <1>5, NothingKept
<1>7. Fresh(n) \in Tables(n)
  BY <1>5, FreshIs
<1>8. Typed(size, table, num, copies, contents, left)
  BY <1>2, <1>3, <1>4, <1>5, <1>7 DEF Typed
<1>9. QED
  BY <1>2, <1>5, <1>6, <1>8, NoWalkFine DEF MapInv

(* What the calls and the walks rely on before the first removal from too long a chain. *)
LEMMA Live ==
  ASSUME MapInv, Followed
  PROVE  /\ Typed(size, table, num, copies, contents, left)
         /\ WalkTyped(size, walk, due, seen)
         /\ Keeps(table, size, contents, num, copies, left)
         /\ WalkFine(table, size, walk, due, seen)
         /\ stretched = FALSE
  BY DEF MapInv, Followed

-----------------------------------------------------------------------------
(* What doubling leaves out of table t of size n for a table of size m: nothing, or the
   entries without data, counted in gone. *)
LeftBy(t, n, m, old, gone) ==
  \/ (m = n \/ WithoutData(t, n) = {}) /\ gone = old
  \/ /\ m # n
     /\ gone[1] = old[1] + Cardinality(WithoutData(t, n))
     /\ gone[2] = [k \in Keys |-> old[2][k] + Cardinality(WithoutData(t, n) \intersect SlotsOf(t, n, k))]
     /\ gone = <<gone[1], gone[2]>>

(* The table hashmap_put has looked into, and what was left out, belong to contents that
   show as x. *)
Settles(m, x, q, cp, gone) ==
  \E b \in Contents : IsLeft(gone) /\ Shows(x, b) /\ IsMap(m, b) /\ Kept(m.table, m.size, b, q, cp, gone)

(* What doubling leaves out, in the history variables. *)
LEMMA LeavesBy ==
  ASSUME NEW m, size' = m, LeavesOut
  PROVE  LeftBy(table, size, m, left, left')
<1>1. CASE m = size \/ WithoutData(table, size) = {}
  BY <1>1 DEF LeavesOut, LeftBy
<1>2. CASE ~(m = size \/ WithoutData(table, size) = {})
  <2>1. /\ dropped' = dropped + Cardinality(WithoutData(table, size))
        /\ lost' = [k \in Keys |-> lost[k] + Cardinality(WithoutData(table, size) \intersect SlotsOf(table, size, k))]
    BY <1>2 DEF LeavesOut
  <2>2. QED
    BY <1>2, <2>1 DEF LeftBy, left
<1>3. QED
  BY <1>1, <1>2

(* What the tables hold that hashmap_put has looked into, when it is through with them. *)
LEMMA DoublingSettles ==
  ASSUME NEW n \in 1 .. MaxSize, NEW t, NEW c \in Contents, NEW x, Shows(x, c),
         NEW old, IsLeft(old), NEW q \in Nat, NEW cp, Kept(t, n, c, q, cp, old),
         NEW m, IsMapOf(m, n, c), NEW gone, LeftBy(t, n, m.size, old, gone)
  PROVE  Settles(m, x, q, cp, gone)
<1>1. n \in Nat \ {0} /\ Holds(t, n, c) /\ IsFiniteSet(Stored(c))
  BY DEF Kept
<1>2. q = Cardinality(Stored(c)) + old[1] /\ old[1] \in Nat /\ old[2] \in [Keys -> Nat]
  BY DEF Kept, IsLeft
<1>3. m.size \in Nat /\ m.size > 0
  BY DEF IsMapOf, IsMap
<1>4. CASE m.size = n /\ IsMap(m, c)
  <2>1. gone = old
    BY <1>4 DEF LeftBy
  <2>2. Holds(m.table, m.size, c)
    BY <1>4 DEF IsMap
  <2>3. Kept(m.table, m.size, c, q, cp, old)
    BY <1>3, <2>2 DEF Kept
  <2>4. QED
    BY <1>4, <2>1, <2>3 DEF Settles
<1>5. CASE m.size > n /\ IsMap(m, Thin(c))
  <2>1. PICK b \in Contents : b = Thin(c)
    BY ThinTwice
  <2>2. PICK out : out = WithoutData(t, n)
    OBVIOUS
  <2>3. /\ Cardinality(Stored(c)) = Cardinality(Stored(b)) + Cardinality(out)
        /\ IsFiniteSet(Stored(b)) /\ Cardinality(out) \in Nat /\ Cardinality(Stored(b)) \in Nat
    BY <1>1, <2>1, <2>2, OutAre
  <2>4. \A k \in Keys : Has(c, k) = Has(b, k) + Cardinality(out \intersect SlotsOf(t, n, k))
    BY <1>1, <2>1, <2>2, OutAre
  <2>5. ASSUME NEW k \in Keys
        PROVE  cp[k] = Has(c, k) + old[2][k] /\ old[2][k] \in Nat /\ Has(c, k) \in Nat /\ Has(b, k) \in Nat
    <3>1. cp[k] = Has(c, k) + old[2][k]
      BY DEF Kept
    <3>2. Has(c, k) \in Nat /\ Has(b, k) \in Nat
      BY DEF Has
    <3>3. QED
      BY <1>2, <3>1, <3>2
  <2>6. ASSUME NEW k \in Keys PROVE Cardinality(out \intersect SlotsOf(t, n, k)) \in Nat
    <3>1. n - 1 \in Int /\ 0 \in Int
      BY <1>1
    <3>2. IsFiniteSet(0 .. n - 1)
      BY <3>1, FS_Interval
    <3>3. out \intersect SlotsOf(t, n, k) \subseteq 0 .. n - 1
      BY DEF SlotsOf
    <3>4. QED
      BY <3>2, <3>3, FS_Subset, FS_CardinalityType
  <2>7. /\ IsLeft(gone) /\ gone[1] = old[1] + Cardinality(out)
        /\ \A k \in Keys : cp[k] = Has(b, k) + gone[2][k]
    <3>1. CASE out = {} /\ gone = old
      <4>1. Cardinality(out) = 0 /\ \A k \in Keys : Cardinality(out \intersect SlotsOf(t, n, k)) = 0
        <5>1. \A k \in Keys : out \intersect SlotsOf(t, n, k) = {}
          BY <3>1
        <5>2. QED
          BY <3>1, <5>1, FS_EmptySet
      <4>2. ASSUME NEW k \in Keys PROVE cp[k] = Has(b, k) + gone[2][k]
        <5>1. Has(c, k) = Has(b, k) + 0
          BY <2>4, <4>1
        <5>2. cp[k] = Has(c, k) + gone[2][k]
          BY <2>5, <3>1
        <5>3. QED
          BY <2>5, <5>1, <5>2
      <4>3. gone[1] = old[1] + Cardinality(out)
        BY <1>2, <3>1, <4>1
      <4>4. QED
        BY <3>1, <4>2, <4>3
    <3>2. CASE /\ gone[1] = old[1] + Cardinality(out)
               /\ gone[2] = [k \in Keys |-> old[2][k] + Cardinality(out \intersect SlotsOf(t, n, k))]
               /\ gone = <<gone[1], gone[2]>>
      <4>1. ASSUME NEW k \in Keys PROVE cp[k] = Has(b, k) + gone[2][k] /\ gone[2][k] \in Nat
        <5>1. PICK z \in Nat : z = Cardinality(out \intersect SlotsOf(t, n, k))
          BY <2>6
        <5>2. Has(c, k) = Has(b, k) + z
          BY <2>4, <5>1
        <5>3. gone[2][k] = old[2][k] + z
          BY <3>2, <5>1
        <5>4. QED
          BY <2>5, <5>2, <5>3
      <4>2. gone[2] \in [Keys -> Nat]
        BY <3>2, <4>1
      <4>3. gone[1] \in Nat
        BY <1>2, <2>3, <3>2
      <4>4. IsLeft(gone)
        BY <3>2, <4>2, <4>3 DEF IsLeft
      <4>5. QED
        BY <3>2, <4>1, <4>4
    <3>3. QED
      BY <1>1, <1>3, <1>5, <2>2, <3>1, <3>2 DEF LeftBy
  <2>8. q = Cardinality(Stored(b)) + gone[1]
    BY <1>2, <2>3, <2>7
  <2>9. Holds(m.table, m.size, b)
    BY <1>5, <2>1 DEF IsMap
  <2>10. Kept(m.table, m.size, b, q, cp, gone)
    BY <1>3, <2>3, <2>7, <2>8, <2>9 DEF Kept
  <2>11. Shows(x, b)
    <3>1. ASSUME NEW k \in Keys PROVE x[k] = Value(b, k)
      <4>1. b[k] = IF c[k] = NULL THEN Absent ELSE c[k]
        BY <2>1 DEF Thin
      <4>2. QED
        BY <4>1 DEF Shows, Value
    <3>2. QED
      BY <3>1 DEF Shows
  <2>12. IsMap(m, b)
    BY <1>5, <2>1
  <2>13. QED
    BY <2>7, <2>10, <2>11, <2>12 DEF Settles
<1>6. QED
  BY <1>4, <1>5 DEF IsMapOf

(* Data stored under a key shows there. *)
LEMMA ShowsAdded ==
  ASSUME NEW c \in Contents, NEW x \in Given, Shows(x, c), NEW k \in Keys, NEW d \in Data \union {NULL}
  PROVE  [x EXCEPT ![k] = d] \in Given /\ Shows([x EXCEPT ![k] = d], Added(c, k, d))
<1>1. PICK y \in Given : y = [x EXCEPT ![k] = d]
  BY DEF Given
<1>2. PICK b : b = Added(c, k, d)
  OBVIOUS
<1>3. ASSUME NEW l \in Keys PROVE y[l] = Value(b, l)
  <2>1. y[l] = IF l = k THEN d ELSE x[l]
    BY <1>1 DEF Given
  <2>2. b[l] = IF l = k THEN d ELSE c[l]
    BY <1>2 DEF Added, Contents
  <2>3. x[l] = Value(c, l)
    BY DEF Shows
  <2>4. QED
    BY <2>1, <2>2, <2>3 DEF Value
<1>4. QED
  BY <1>1, <1>2, <1>3 DEF Shows

(* hashmap_put with a slot found, whether the copy of the key fails or not. *)
LEMMA StoreStep ==
  ASSUME NEW k \in Keys, NEW d \in Data, NEW m, NEW c \in Contents, IsMap(m, c),
         contents \in Given, Shows(contents, c), NEW gone, gone = left', IsLeft(gone),
         copies \in [Keys -> Nat], num \in Nat, Kept(m.table, m.size, c, num, copies, gone),
         Find(m.table, m.size, k) # -1, Store(m, Find(m.table, m.size, k), k, d)
  PROVE  /\ Typed(size', table', num', copies', contents', left')
         /\ Keeps(table', size', contents', num', copies', left')
<1>1. PICK n \in 1 .. MaxSize : n = m.size
  BY DEF IsMap
<1>2. PICK t : t = m.table
  OBVIOUS
<1>3. PICK s : s = Find(t, n, k)
  OBVIOUS
<1>4. Holds(t, n, c) /\ t \in Tables(n) /\ n \in Nat \ {0}
  BY <1>1, <1>2 DEF IsMap, Holds, Tables
<1>5. Kept(t, n, c, num, copies, gone)
  BY <1>1, <1>2
<1>6. s # -1 /\ Store(m, s, k, d)
  BY <1>1, <1>2, <1>3
<1>7. size' = n
  BY <1>1, <1>6 DEF Store
<1>8. CASE /\ t[s].key = NULL
           /\ table' = [t EXCEPT ![s] = [key |-> k, data |-> d]]
           /\ num' = num + 1 /\ copies' = [copies EXCEPT ![k] = @ + 1]
           /\ contents' = [contents EXCEPT ![k] = d]
  <2>1. t[s].key = NULL /\ s # -1
    BY <1>6, <1>8
  <2>2. /\ Added(c, k, d) \in Contents
        /\ num + 1 \in Nat
        /\ OneMore(copies, k) \in [Keys -> Nat]
        /\ Kept(Inserted(t, s, k, d), n, Added(c, k, d), num + 1, OneMore(copies, k), gone)
    BY <1>3, <1>4, <1>5, <2>1, KeptStored
  <2>3. contents' \in Given /\ Shows(contents', Added(c, k, d))
    BY <1>8, ShowsAdded
  <2>4. /\ num' \in Nat /\ copies' \in [Keys -> Nat]
        /\ Kept(table', n, Added(c, k, d), num', copies', gone)
    BY <1>8, <2>2 DEF Inserted, OneMore
  <2>5. table' \in Tables(n)
    BY <1>4, <2>4 DEF Kept, Holds, Tables
  <2>6. QED
    BY <1>1, <1>5, <1>7, <2>2, <2>3, <2>4, <2>5 DEF Typed, Keeps
<1>9. CASE /\ t[s].key = k /\ t[s].data = NULL
           /\ table' = [t EXCEPT ![s].data = d]
           /\ contents' = [contents EXCEPT ![k] = d]
           /\ UNCHANGED <<num, copies>>
  <2>1. s \in 0 .. n - 1 /\ t[s].key # NULL
    <3>1. Found(t, n, c, k, s)
      BY <1>3, <1>4, FindFinds
    <3>2. QED
      BY <1>6, <1>9, <3>1 DEF Found
  <2>2. /\ [c EXCEPT ![t[s].key] = d] \in Contents
        /\ [t EXCEPT ![s].data = d] \in Tables(n)
        /\ Kept([t EXCEPT ![s].data = d], n, [c EXCEPT ![t[s].key] = d], num, copies, gone)
    BY <1>4, <1>5, <2>1, KeptSet
  <2>3. contents' \in Given /\ Shows(contents', Added(c, k, d))
    BY <1>9, ShowsAdded
  <2>4. /\ Added(c, k, d) \in Contents /\ table' \in Tables(n)
        /\ Kept(table', n, Added(c, k, d), num', copies', gone)
    BY <1>9, <2>2 DEF Added
  <2>5. Keeps(table', n, contents', num', copies', gone)
    BY <2>3, <2>4 DEF Keeps
  <2>6. QED
    BY <1>1, <1>7, <1>9, <2>3, <2>4, <2>5 DEF Typed
<1>10. CASE table' = t /\ UNCHANGED <<num, copies, contents>>
  BY <1>1, <1>4, <1>5, <1>7, <1>10 DEF Typed, Keeps
<1>11. QED
  BY <1>2, <1>6, <1>8, <1>9, <1>10 DEF Store

(* hashmap_put with its rehashings. *)
LEMMA PutStep ==
  ASSUME MapInv, NEW k \in Keys, NEW d \in Data, Put(k, d)
  PROVE  MapInv'
<1>0. size > 0 /\ Followed
  BY DEF Put, Call
<1>1. /\ Typed(size, table, num, copies, contents, left)
      /\ Keeps(table, size, contents, num, copies, left)
      /\ stretched = FALSE
  BY <1>0, Live
<1>2. contents \in Given /\ copies \in [Keys -> Nat] /\ num \in Nat /\ size \in 1 .. MaxSize /\ IsLeft(left)
  BY <1>0, <1>1 DEF Typed
<1>a. PICK c \in Contents : Shows(contents, c) /\ Kept(table, size, c, num, copies, left)
  BY <1>1 DEF Keeps
<1>3. PICK now : now = [table |-> table, size |-> size, ok |-> TRUE]
  OBVIOUS
<1>4. IsMapOf(now, size, c)
  BY <1>0, <1>2, <1>3, <1>a DEF IsMap, IsMapOf, Kept
<1>5. PICK m \in IF size <= MinSize(num) THEN Rehashed(now) ELSE {now} :
        IF Find(m.table, m.size, k) # -1 THEN Store(m, Find(m.table, m.size, k), k, d)
        ELSE \E m2 \in Rehashed(m) :
               IF m2.ok /\ Find(m2.table, m2.size, k) # -1
               THEN Store(m2, Find(m2.table, m2.size, k), k, d)
               ELSE NoRoom(m2)
  BY <1>3 DEF Put
<1>6. m \in Rehashed(now) \/ m = now
  BY <1>5
<1>7. IsMapOf(m, size, c)
  BY <1>2, <1>4, <1>6, RehashedAgain
<1>b. LeavesOut
  BY DEF Put
<1>d. PICK gone : gone = left'
  OBVIOUS
<1>c. ASSUME NEW w, IsMapOf(w, size, c), Find(w.table, w.size, k) # -1,
             Store(w, Find(w.table, w.size, k), k, d)
      PROVE  /\ Typed(size', table', num', copies', contents', left')
             /\ Keeps(table', size', contents', num', copies', left')
  <2>1. size' = w.size
    BY <1>c DEF Store
  <2>2. LeftBy(table, size, w.size, left, gone)
    BY <1>b, <1>d, <2>1, LeavesBy
  <2>3. Settles(w, contents, num, copies, gone)
    BY <1>2, <1>a, <1>c, <2>2, DoublingSettles
  <2>4. PICK b \in Contents : /\ IsLeft(gone) /\ Shows(contents, b) /\ IsMap(w, b)
                             /\ Kept(w.table, w.size, b, num, copies, gone)
    BY <2>3 DEF Settles
  <2>5. QED
    BY <1>2, <1>c, <1>d, <2>4, StoreStep
<1>8. Typed(size', table', num', copies', contents', left') /\ Keeps(table', size', contents', num', copies', left')
  <2>1. CASE Find(m.table, m.size, k) # -1
    BY <1>5, <1>7, <1>c, <2>1
  <2>2. CASE Find(m.table, m.size, k) = -1
    <3>1. PICK m2 \in Rehashed(m) :
            IF m2.ok /\ Find(m2.table, m2.size, k) # -1
            THEN Store(m2, Find(m2.table, m2.size, k), k, d)
            ELSE NoRoom(m2)
      BY <1>5, <2>2
    <3>2. IsMapOf(m2, size, c)
      BY <1>2, <1>7, RehashedAgain
    <3>3. CASE Find(m2.table, m2.size, k) # -1 /\ Store(m2, Find(m2.table, m2.size, k), k, d)
      BY <1>c, <3>2, <3>3
    <3>4. CASE NoRoom(m2)
      <4>1. /\ size' = m2.size /\ table' = m2.table
            /\ num' = num /\ copies' = copies /\ contents' = contents
        BY <3>4 DEF NoRoom
      <4>a. LeftBy(table, size, m2.size, left, gone)
        BY <1>b, <1>d, <4>1, LeavesBy
      <4>b. Settles(m2, contents, num, copies, gone)
        BY <1>2, <1>a, <3>2, <4>a, DoublingSettles
      <4>2. PICK b \in Contents : /\ IsLeft(gone) /\ Shows(contents, b) /\ IsMap(m2, b)
                                 /\ Kept(m2.table, m2.size, b, num, copies, gone)
        BY <4>b DEF Settles
      <4>3. m2.size \in 0 .. MaxSize /\ m2.table \in Tables(m2.size)
        BY <4>2 DEF IsMap, Holds, Tables
      <4>4. QED
        BY <1>2, <1>d, <4>1, <4>2, <4>3 DEF Typed, Keeps
    <3>5. QED
      BY <3>1, <3>3, <3>4
  <2>3. QED
    BY <2>1, <2>2
<1>9. walk' = NoWalk /\ due' = {} /\ seen' = {} /\ stretched' = stretched
  BY DEF Put, Unwalked
<1>10. size' \in Nat
  BY <1>8 DEF Typed
<1>11. WalkTyped(size', walk', due', seen') /\ WalkFine(table', size', walk', due', seen')
  BY <1>9, <1>10, NoWalkFine
<1>12. QED
  BY <1>1, <1>8, <1>9, <1>11 DEF MapInv

(* hashmap_entry_remove from wherever it is called. *)
LEMMA EntryRemoved ==
  ASSUME MapInv, Followed, size > 0, NEW s \in 0 .. size - 1, table[s].key # NULL, RemoveEntry(s)
  PROVE  /\ Typed(size', table', num', copies', contents', left')
         /\ table' = Unchain(table, size, s) /\ size' = size
         /\ stretched' \in BOOLEAN
         /\ ~stretched' => Keeps(table', size', contents', num', copies', left')
<1>1. /\ Typed(size, table, num, copies, contents, left)
      /\ Keeps(table, size, contents, num, copies, left)
      /\ stretched = FALSE
  BY Live
<1>2. PICK n \in Nat \ {0} : n = size /\ n \in 0 .. MaxSize
  BY <1>1 DEF Typed
<1>3. contents \in Given /\ copies \in [Keys -> Nat] /\ IsLeft(left)
  BY <1>1 DEF Typed
<1>a. PICK c \in Contents : Shows(contents, c) /\ Kept(table, n, c, num, copies, left)
  BY <1>1, <1>2 DEF Keeps
<1>4. /\ [c EXCEPT ![table[s].key] = Absent] \in Contents
      /\ num - 1 \in Nat
      /\ [copies EXCEPT ![table[s].key] = @ - 1] \in [Keys -> Nat]
      /\ Unchain(table, n, s) \in Tables(n)
      /\ ~(Cardinality(Followers(table, n, s)) >= n \div 2) =>
           Kept(Unchain(table, n, s), n, [c EXCEPT ![table[s].key] = Absent], num - 1,
                [copies EXCEPT ![table[s].key] = @ - 1], left)
  BY <1>2, <1>3, <1>a, KeptRemoved
<1>5. /\ table' = Unchain(table, n, s) /\ num' = num - 1 /\ size' = n /\ left' = left
      /\ copies' = [copies EXCEPT ![table[s].key] = @ - 1]
      /\ contents' = [contents EXCEPT ![table[s].key] = NULL]
      /\ stretched' = (stretched \/ Cardinality(Followers(table, n, s)) >= n \div 2)
  BY <1>2 DEF RemoveEntry
<1>6. stretched' \in BOOLEAN
  BY <1>5
<1>7. ~stretched' => ~(Cardinality(Followers(table, n, s)) >= n \div 2)
  BY <1>5
<1>b. PICK k \in Keys : k = table[s].key
  BY <1>1, <1>2 DEF Typed, Tables, Entries
<1>c. contents' \in Given /\ Shows(contents', [c EXCEPT ![table[s].key] = Absent])
  <2>1. PICK b : b = [c EXCEPT ![k] = Absent]
    OBVIOUS
  <2>2. PICK x \in Given : x = [contents EXCEPT ![k] = NULL]
    BY <1>3 DEF Given
  <2>3. ASSUME NEW l \in Keys PROVE x[l] = Value(b, l)
    <3>1. x[l] = IF l = k THEN NULL ELSE contents[l]
      BY <1>3, <2>2 DEF Given
    <3>2. b[l] = IF l = k THEN Absent ELSE c[l]
      BY <2>1 DEF Contents
    <3>3. contents[l] = Value(c, l)
      BY <1>a DEF Shows
    <3>4. QED
      BY <3>1, <3>2, <3>3 DEF Value
  <2>4. QED
    BY <1>5, <1>b, <2>1, <2>2, <2>3 DEF Shows
<1>8. ~stretched' => Keeps(table', size', contents', num', copies', left')
  BY <1>4, <1>5, <1>7, <1>c DEF Keeps
<1>9. QED
  BY <1>2, <1>3, <1>4, <1>5, <1>6, <1>8, <1>c DEF Typed

(* hashmap_remove. *)
LEMMA RemoveStep ==
  ASSUME MapInv, NEW k \in Keys, Remove(k)
  PROVE  MapInv'
<1>1. size > 0 /\ Followed
  BY DEF Remove, Call
<1>2. /\ Typed(size, table, num, copies, contents, left)
      /\ Keeps(table, size, contents, num, copies, left)
  BY <1>1, Live
<1>3. PICK s : s = Find(table, size, k) /\ s # -1 /\ table[s].key = k /\ RemoveEntry(s)
  BY DEF Remove
<1>4. PICK c \in Contents : size \in Nat \ {0} /\ Holds(table, size, c)
  BY <1>1, <1>2 DEF Typed, Keeps, Kept
<1>5. Found(table, size, c, k, s)
  BY <1>3, <1>4, FindFinds
<1>6. s \in 0 .. size - 1 /\ table[s].key # NULL
  BY <1>3, <1>5 DEF Found
<1>7. /\ Typed(size', table', num', copies', contents', left')
      /\ stretched' \in BOOLEAN
      /\ ~stretched' => Keeps(table', size', contents', num', copies', left')
  BY <1>1, <1>3, <1>6, EntryRemoved
<1>8. walk' = NoWalk /\ due' = {} /\ seen' = {}
  BY DEF Remove, Unwalked
<1>9. size' \in Nat
  BY <1>7 DEF Typed
<1>10. WalkTyped(size', walk', due', seen') /\ WalkFine(table', size', walk', due', seen')
  BY <1>8, <1>9, NoWalkFine
<1>11. QED
  BY <1>7, <1>10 DEF MapInv

-----------------------------------------------------------------------------
(* The calls that empty the map. *)
LEMMA EmptiedStep ==
  ASSUME MapInv, Followed, FreeKeys, NEW n \in 0 .. MaxSize, size' = n, table' \in Tables(n),
         n > 0 => table' = Fresh(n), num' = 0
  PROVE  MapInv'
<1>1. /\ Typed(size, table, num, copies, contents, left)
      /\ Keeps(table, size, contents, num, copies, left)
      /\ stretched = FALSE
  BY Live
<1>2. size \in Nat /\ copies \in [Keys -> Nat] /\ IsLeft(left)
  BY <1>1 DEF Typed
<1>a. PICK c \in Contents : Kept(table, size, c, num, copies, left)
  BY <1>1 DEF Keeps
<1>3. copies' = Freed(table, size, num, copies)
  BY DEF FreeKeys, Freed
<1>b. left'[1] = 0 /\ left'[2] = left[2] /\ IsLeft(left')
  <2>1. lost' = lost /\ dropped' = 0
    BY DEF FreeKeys
  <2>2. PICK gone : gone = <<0, lost>>
    OBVIOUS
  <2>3. left' = gone
    BY <2>1, <2>2 DEF left
  <2>4. left[2] = lost /\ lost \in [Keys -> Nat]
    BY <1>2 DEF IsLeft, left
  <2>5. gone[1] = 0 /\ gone[2] = left[2] /\ IsLeft(gone)
    BY <2>2, <2>4 DEF IsLeft
  <2>6. QED
    BY <2>3, <2>5
<1>4. \A k \in Keys : copies'[k] = left'[2][k] /\ left'[2][k] \in Nat
  <2>a. PICK gone : gone = left
    OBVIOUS
  <2>b. IsLeft(gone) /\ Kept(table, size, c, num, copies, gone)
    BY <1>2, <1>a, <2>a
  <2>c. \A k \in Keys : Freed(table, size, num, copies)[k] = gone[2][k]
    BY <1>2, <2>b, KeptFreed
  <2>1. \A k \in Keys : Freed(table, size, num, copies)[k] = left[2][k]
    BY <2>a, <2>c
  <2>2. QED
    BY <1>3, <1>b, <2>1 DEF IsLeft
<1>5. copies' \in [Keys -> Nat]
  BY <1>3, <1>4 DEF Freed
<1>6. contents' \in Given /\ \A k \in Keys : contents'[k] = NULL
  BY DEF FreeKeys, Given
<1>7. n \in Nat
  OBVIOUS
<1>8. Keeps(table', n, contents', 0, copies', left')
  BY <1>4, <1>6, <1>7, <1>b, NothingKept
<1>9. walk' = NoWalk /\ due' = {} /\ seen' = {} /\ stretched' = stretched
  BY DEF FreeKeys, Unwalked
<1>10. WalkTyped(size', walk', due', seen') /\ WalkFine(table', size', walk', due', seen')
  BY <1>7, <1>9, NoWalkFine
<1>11. Typed(size', table', num', copies', contents', left')
  BY <1>5, <1>6, <1>b DEF Typed
<1>12. QED
  BY <1>1, <1>8, <1>9, <1>10, <1>11 DEF MapInv

(* hashmap_clear. *)
LEMMA ClearStep == ASSUME MapInv, Clear PROVE MapInv'
<1>1. size > 0 /\ Followed /\ FreeKeys /\ table' = Fresh(size) /\ num' = 0 /\ size' = size
  BY DEF Clear, Call
<1>2. size \in 0 .. MaxSize /\ size \in Nat
  BY DEF MapInv, Typed
<1>3. Fresh(size) \in Tables(size)
  BY <1>2, FreshIs
<1>4. QED
  BY <1>1, <1>2, <1>3, EmptiedStep

(* hashmap_reset. *)
LEMMA ResetStep == ASSUME MapInv, Reset PROVE MapInv'
<1>1. PICK n \in {size, FirstSize} : table' = Fresh(n) /\ size' = n
  BY DEF Reset
<1>2. Followed /\ FreeKeys /\ num' = 0
  BY DEF Reset, Call
<1>3. n \in 0 .. MaxSize /\ n \in Nat
  BY <1>1 DEF MapInv, Typed
<1>4. Fresh(n) \in Tables(n)
  BY <1>3, FreshIs
<1>5. QED
  BY <1>1, <1>2, <1>3, <1>4, EmptiedStep

(* hashmap_destroy. *)
LEMMA DestroyStep == ASSUME MapInv, Destroy PROVE MapInv'
<1>1. Followed /\ FreeKeys /\ num' = 0 /\ size' = 0 /\ table' = <<>>
  BY DEF Destroy, Call
<1>2. table' \in Tables(0)
  BY <1>1, EmptyTable DEF Tables
<1>3. 0 \in 0 .. MaxSize /\ ~(0 > 0)
  OBVIOUS
<1>4. QED
  BY <1>1, <1>2, <1>3, EmptiedStep

-----------------------------------------------------------------------------
(* hashmap_iter and the beginning of hashmap_foreach. *)
LEMMA BeginStep ==
  ASSUME MapInv, NEW kind \in {"iter", "foreach"}, NEW call, Begin(kind, call)
  PROVE  MapInv'
<1>1. size > 0 /\ Followed
  BY DEF Begin, Call
<1>2. /\ Typed(size, table, num, copies, contents, left)
      /\ Keeps(table, size, contents, num, copies, left)
      /\ stretched = FALSE
  BY <1>1, Live
<1>3. size \in Nat \ {0} /\ table \in Tables(size)
  BY <1>1, <1>2 DEF Typed
<1>4. PICK p : p = FirstFrom(table, size, 0)
  OBVIOUS
<1>5. /\ p \in 0 .. size /\ KeysOf(table, size) \subseteq Keys
      /\ WalkFine(table, size, [kind |-> kind, at |-> p], KeysOf(table, size), {})
  BY <1>3, <1>4, WalkStarts
<1>6. /\ walk' = [kind |-> kind, at |-> p] /\ due' = KeysOf(table, size) /\ seen' = {}
      /\ UNCHANGED <<size, table, num, copies, contents, left, stretched>>
  BY <1>4 DEF Begin
<1>7. WalkTyped(size, walk', due', seen')
  BY <1>5, <1>6 DEF WalkTyped
<1>8. QED
  BY <1>2, <1>5, <1>6, <1>7 DEF MapInv

(* A walk stands on an entry, and what is due lies ahead. *)
LEMMA Standing ==
  ASSUME MapInv, NEW kind \in {"iter", "foreach"}, On(kind)
  PROVE  /\ Followed /\ size \in Nat \ {0} /\ walk.at \in 0 .. size - 1 /\ table[walk.at].key # NULL
         /\ walk = [kind |-> walk.kind, at |-> walk.at]
         /\ walk.kind \in {"none", "iter", "foreach"}
         /\ due \in SUBSET Keys /\ seen \in SUBSET Keys
         /\ table \in Tables(size) /\ table[walk.at].key \in Keys
         /\ Single(table, size)
         /\ ForeachReach # "any" => Ahead(table, size, walk.at, due, seen)
<1>1. walk.kind = kind /\ walk.at < size /\ Followed
  BY DEF On
<1>2. /\ Typed(size, table, num, copies, contents, left)
      /\ WalkTyped(size, walk, due, seen)
      /\ Keeps(table, size, contents, num, copies, left)
      /\ WalkFine(table, size, walk, due, seen)
  BY <1>1, Live
<1>3. /\ size > 0 /\ table[walk.at].key # NULL
      /\ ForeachReach # "any" => Ahead(table, size, walk.at, due, seen)
  BY <1>1, <1>2 DEF WalkFine
<1>4. size \in Nat \ {0} /\ table \in Tables(size)
  BY <1>2, <1>3 DEF Typed
<1>5. walk.at \in 0 .. size - 1 /\ walk = [kind |-> walk.kind, at |-> walk.at]
      /\ walk.kind \in {"none", "iter", "foreach"}
  BY <1>1, <1>2, <1>4 DEF WalkTyped
<1>6. table[walk.at].key \in Keys
  BY <1>3, <1>4, <1>5 DEF Tables, Entries
<1>7. QED
  BY <1>1, <1>2, <1>3, <1>4, <1>5, <1>6 DEF Keeps, Kept, Holds, WalkTyped

(* A walk goes on from slot a of the table as it is after a step. *)
LEMMA GoesOn ==
  ASSUME MapInv, NEW kind \in {"iter", "foreach"}, On(kind),
         Typed(size', table', num', copies', contents', left'), size' = size,
         stretched' \in BOOLEAN,
         ~stretched' => Keeps(table', size', contents', num', copies', left'),
         NEW a \in 0 .. size, walk' = [walk EXCEPT !.at = FirstFrom(table', size, a)],
         seen' = seen \union {table[walk.at].key}, due' \subseteq due,
         ForeachReach # "any" => Ahead(table', size, a, due', seen')
  PROVE  MapInv'
<1>1. /\ size \in Nat \ {0} /\ walk.at \in 0 .. size - 1
      /\ walk = [kind |-> walk.kind, at |-> walk.at] /\ walk.kind \in {"none", "iter", "foreach"}
      /\ due \in SUBSET Keys /\ seen \in SUBSET Keys
      /\ table[walk.at].key \in Keys
  BY Standing
<1>2. due' \in SUBSET Keys /\ seen' \in SUBSET Keys
  BY <1>1
<1>3. PICK v : v = table'
  OBVIOUS
<1>4. PICK w : w = walk
  OBVIOUS
<1>5. PICK dd \in SUBSET Keys : dd = due'
  BY <1>2
<1>6. PICK ss \in SUBSET Keys : ss = seen'
  BY <1>2
<1>7. ForeachReach # "any" => Ahead(v, size, a, dd, ss)
  BY <1>3, <1>5, <1>6
<1>8. w = [kind |-> w.kind, at |-> w.at]
  BY <1>1, <1>4
<1>9. /\ FirstFrom(v, size, a) \in a .. size
      /\ WalkFine(v, size, [w EXCEPT !.at = FirstFrom(v, size, a)], dd, ss)
  BY <1>1, <1>7, <1>8, WalkGoes
<1>10. WalkFine(table', size', walk', due', seen')
  BY <1>3, <1>4, <1>5, <1>6, <1>9
<1>11. walk' \in [kind : {"none", "iter", "foreach"}, at : 0 .. size]
  <2>1. walk' = [kind |-> walk.kind, at |-> FirstFrom(v, size, a)]
    BY <1>1, <1>3
  <2>2. FirstFrom(v, size, a) \in 0 .. size
    BY <1>1, <1>9
  <2>3. QED
    BY <1>1, <2>1, <2>2
<1>12. WalkTyped(size', walk', due', seen')
  BY <1>2, <1>11 DEF WalkTyped
<1>13. QED
  BY <1>10, <1>12 DEF MapInv

(* hashmap_iter_next. *)
LEMMA IterNextStep == ASSUME MapInv, IterNext PROVE MapInv'
<1>1. /\ On("iter") /\ Followed
      /\ walk' = [walk EXCEPT !.at = FirstFrom(table, size, walk.at + 1)]
      /\ seen' = seen \union {table[walk.at].key}
      /\ UNCHANGED <<size, table, num, copies, contents, left, due, stretched>>
  BY DEF IterNext, Meet, On
<1>2. PICK a \in 0 .. size : a = walk.at + 1
  BY <1>1, Standing
<1>3. /\ Typed(size, table, num, copies, contents, left)
      /\ Keeps(table, size, contents, num, copies, left) /\ stretched = FALSE
  BY <1>1, Live
<1>4. ForeachReach # "any" => Ahead(table, size, a, due, seen \union {table[walk.at].key})
  BY <1>1, <1>2, Standing, AheadMet
<1>5. QED
  BY <1>1, <1>2, <1>3, <1>4, GoesOn

(* hashmap_iter_remove, which stays at its slot. *)
LEMMA IterRemoveStep == ASSUME MapInv, IterRemove PROVE MapInv'
<1>1. /\ On("iter") /\ Followed /\ RemoveEntry(walk.at)
      /\ walk' = [walk EXCEPT !.at = FirstFrom(table', size, walk.at)]
      /\ seen' = seen \union {table[walk.at].key} /\ due' = due
  BY DEF IterRemove, Meet, On
<1>2. /\ size \in Nat \ {0} /\ walk.at \in 0 .. size - 1 /\ table[walk.at].key # NULL
      /\ table \in Tables(size)
      /\ ForeachReach # "any" => Ahead(table, size, walk.at, due, seen)
  BY <1>1, Standing
<1>3. /\ Typed(size', table', num', copies', contents', left')
      /\ table' = Unchain(table, size, walk.at) /\ size' = size /\ stretched' \in BOOLEAN
      /\ ~stretched' => Keeps(table', size', contents', num', copies', left')
  BY <1>1, <1>2, EntryRemoved
<1>4. ForeachReach # "any" => Ahead(table', size, walk.at, due, seen \union {table[walk.at].key})
  BY <1>2, <1>3, AheadRemoved
<1>5. walk.at \in 0 .. size
  BY <1>2
<1>6. QED
  BY <1>1, <1>3, <1>4, <1>5, GoesOn

(* hashmap_iter_set_data. *)
LEMMA IterSetDataStep == ASSUME MapInv, NEW d \in Data, IterSetData(d) PROVE MapInv'
<1>1. /\ On("iter") /\ Followed
      /\ table' = [table EXCEPT ![walk.at].data = d]
      /\ contents' = [contents EXCEPT ![table[walk.at].key] = d]
      /\ UNCHANGED <<size, num, copies, left, walk, due, seen, stretched>>
  BY DEF IterSetData, On
<1>2. /\ size \in Nat \ {0} /\ walk.at \in 0 .. size - 1 /\ table[walk.at].key # NULL
      /\ table \in Tables(size)
  BY <1>1, Standing
<1>3. /\ Typed(size, table, num, copies, contents, left)
      /\ WalkTyped(size, walk, due, seen)
      /\ Keeps(table, size, contents, num, copies, left)
      /\ WalkFine(table, size, walk, due, seen)
      /\ stretched = FALSE
  BY <1>1, Live
<1>4. PICK t : t = table
  OBVIOUS
<1>5. PICK c \in Contents : Shows(contents, c) /\ Kept(table, size, c, num, copies, left)
  BY <1>3 DEF Keeps
<1>6. PICK at \in 0 .. size - 1 : at = walk.at
  BY <1>2
<1>7. /\ [c EXCEPT ![t[at].key] = d] \in Contents
      /\ [t EXCEPT ![at].data = d] \in Tables(size)
      /\ Kept([t EXCEPT ![at].data = d], size, [c EXCEPT ![t[at].key] = d], num, copies, left)
  BY <1>2, <1>4, <1>5, <1>6, KeptSet
<1>a. contents' \in Given /\ Shows(contents', [c EXCEPT ![t[at].key] = d])
  <2>1. contents \in Given /\ t[at].key \in Keys
    BY <1>2, <1>3, <1>4, <1>6 DEF Typed, Tables, Entries
  <2>2. QED
    BY <1>1, <1>4, <1>5, <1>6, <2>1, ShowsAdded DEF Added
<1>8. contents' \in Given /\ table' \in Tables(size) /\ Keeps(table', size', contents', num', copies', left')
  BY <1>1, <1>4, <1>6, <1>7, <1>a DEF Keeps
<1>9. \A s \in 0 .. size - 1 : table'[s].key = table[s].key
  <2>1. \A s \in 0 .. size - 1 : table[s] \in Entries
    BY <1>2 DEF Tables
  <2>2. \A s \in 0 .. size - 1 : table'[s] = IF s = walk.at THEN [table[s] EXCEPT !.data = d] ELSE table[s]
    BY <1>1, <1>2 DEF Tables
  <2>3. QED
    BY <2>1, <2>2 DEF Entries
<1>10. WalkFine(table', size, walk, due, seen)
  <2>1. \A s \in walk.at .. size - 1 : s \in 0 .. size - 1
    BY <1>2
  <2>2. QED
    BY <1>2, <1>3, <1>9, <2>1 DEF WalkFine, Ahead
<1>11. Typed(size', table', num', copies', contents', left')
  BY <1>1, <1>3, <1>8 DEF Typed
<1>12. QED
  BY <1>1, <1>3, <1>8, <1>10, <1>11 DEF MapInv

(* hashmap_foreach when func removed nothing. *)
LEMMA FuncKeepsStep == ASSUME MapInv, FuncKeeps PROVE MapInv'
<1>1. /\ On("foreach") /\ Followed
      /\ seen' = seen \union {table[walk.at].key}
      /\ UNCHANGED <<size, table, num, copies, contents, left, due, stretched>>
  BY DEF FuncKeeps, Meet, On
<1>2. walk' = [walk EXCEPT !.at = FirstFrom(table, size, walk.at + 1)]
  BY <1>1 DEF FuncKeeps, GoOn
<1>3. PICK a \in 0 .. size : a = walk.at + 1
  BY <1>1, Standing
<1>4. /\ Typed(size, table, num, copies, contents, left)
      /\ Keeps(table, size, contents, num, copies, left) /\ stretched = FALSE
  BY <1>1, Live
<1>5. ForeachReach # "any" => Ahead(table, size, a, due, seen \union {table[walk.at].key})
  BY <1>1, <1>3, Standing, AheadMet
<1>6. QED
  BY <1>1, <1>2, <1>3, <1>4, <1>5, GoesOn

(* hashmap_foreach when func removed an entry: its own is gone from the slot, and so the
   walk stays there. *)
LEMMA FuncRemovesStep == ASSUME MapInv, FuncRemoves PROVE MapInv'
<1>1. On("foreach") /\ Followed /\ seen' = seen \union {table[walk.at].key} /\ GoOn
  BY DEF FuncRemoves, Meet, On
<1>2. /\ size \in Nat \ {0} /\ walk.at \in 0 .. size - 1 /\ table[walk.at].key # NULL
      /\ table \in Tables(size) /\ Single(table, size)
      /\ ForeachReach # "any" => Ahead(table, size, walk.at, due, seen)
  BY <1>1, Standing
<1>3. PICK s \in IF ForeachReach = "any" THEN Populated(table, size)
                 ELSE IF ForeachReach = "own" THEN {walk.at} ELSE {} :
        RemoveEntry(s) /\ due' = IF s = walk.at THEN due ELSE due \ {table[s].key}
  BY DEF FuncRemoves
<1>4. s \in 0 .. size - 1 /\ table[s].key # NULL
  BY <1>2, <1>3 DEF Populated
<1>5. /\ Typed(size', table', num', copies', contents', left')
      /\ table' = Unchain(table, size, s) /\ size' = size /\ stretched' \in BOOLEAN
      /\ ~stretched' => Keeps(table', size', contents', num', copies', left')
  BY <1>1, <1>2, <1>3, <1>4, EntryRemoved
<1>6. PICK a : /\ a = IF table'[walk.at].key = table[walk.at].key THEN walk.at + 1 ELSE walk.at
               /\ walk' = [walk EXCEPT !.at = FirstFrom(table', size, a)]
  BY <1>1, <1>5 DEF GoOn
<1>7. a \in 0 .. size
  BY <1>2, <1>6
<1>8. ForeachReach # "any" => Ahead(table', size, a, due', seen')
  <2>1. SUFFICES ASSUME ForeachReach # "any"
                 PROVE  Ahead(table', size, a, due', seen')
    OBVIOUS
  <2>2. s = walk.at /\ due' = due
    BY <1>3, <2>1
  <2>3. table'[walk.at].key # table[walk.at].key
    BY <1>2, <1>5, <2>2, RemovedIsGone
  <2>4. a = walk.at
    BY <1>6, <2>3
  <2>5. Ahead(table', size, walk.at, due, seen \union {table[walk.at].key})
    BY <1>2, <1>5, <2>1, <2>2, AheadRemoved
  <2>6. QED
    BY <1>1, <2>2, <2>4, <2>5
<1>9. due' \subseteq due
  BY <1>3
<1>10. QED
  BY <1>1, <1>5, <1>6, <1>7, <1>8, <1>9, GoesOn

(* The end of hashmap_foreach. *)
LEMMA ForeachEndsStep == ASSUME MapInv, ForeachEnds PROVE MapInv'
<1>1. /\ walk' = NoWalk /\ due' = {} /\ seen' = {}
      /\ UNCHANGED <<size, table, num, copies, contents, left, stretched>>
  BY DEF ForeachEnds, Unwalked
<1>2. size \in Nat
  BY DEF MapInv, Typed
<1>3. WalkTyped(size', walk', due', seen') /\ WalkFine(table', size', walk', due', seen')
  BY <1>1, <1>2, NoWalkFine
<1>4. QED
  BY <1>1, <1>3 DEF MapInv

(* Every step keeps the invariant. *)
LEMMA MapNext == MapInv /\ [Next]_vars => MapInv'
<1> SUFFICES ASSUME MapInv, [Next]_vars PROVE MapInv'
  OBVIOUS
<1>1. ASSUME NEW k \in Keys, NEW d \in Data, Put(k, d) PROVE MapInv'
  BY <1>1, PutStep
<1>2. ASSUME NEW k \in Keys, Remove(k) PROVE MapInv'
  BY <1>2, RemoveStep
<1>3. CASE Clear
  BY <1>3, ClearStep
<1>4. CASE Reset
  BY <1>4, ResetStep
<1>5. CASE Destroy
  BY <1>5, DestroyStep
<1>6. CASE Iter
  BY <1>6, BeginStep DEF Iter
<1>7. CASE Foreach
  BY <1>7, BeginStep DEF Foreach
<1>8. CASE IterNext
  BY <1>8, IterNextStep
<1>9. CASE IterRemove
  BY <1>9, IterRemoveStep
<1>10. ASSUME NEW d \in Data, IterSetData(d) PROVE MapInv'
  BY <1>10, IterSetDataStep
<1>11. CASE FuncKeeps
  BY <1>11, FuncKeepsStep
<1>12. CASE FuncRemoves
  BY <1>12, FuncRemovesStep
<1>13. CASE ForeachEnds
  BY <1>13, ForeachEndsStep
<1>14. CASE UNCHANGED vars
  BY <1>14 DEF vars, left, MapInv
<1>15. QED
  BY <1>1, <1>2, <1>3, <1>4, <1>5, <1>6, <1>7, <1>8, <1>9, <1>10, <1>11, <1>12, <1>13, <1>14
     DEF Next

(* The invariant of the map, for any keys, hash function and sizes: until the first
   removal from a chain of more than half the table, the table holds the contents with
   every entry reached from its own slot over slots in use, the count and the copies
   agree with it, and what a walk has to meet lies ahead of it. *)
THEOREM MapInvariance == Spec => []MapInv
<1>1. Init => MapInv
  BY MapInit
<1>2. MapInv /\ [Next]_vars => MapInv'
  BY MapNext
<1>3. QED
  BY <1>1, <1>2, PTL DEF Spec

(* The count and the copies of keys agree with the table, but for the entries without data
   that doubling has left out: hashmap_free_keys frees each of the other copies once, and
   hashmap_put doubles too early by just those entries. *)
THEOREM TableSound == Spec => []TableIsSound
<1>1. ASSUME MapInv PROVE TableIsSound
  <2>1. TypeOK
    BY <1>1, InvTypes
  <2>2. ASSUME ~stretched
        PROVE  /\ num = Cardinality(Populated(table, size)) + dropped
               /\ \A k \in Keys : copies[k] = Cardinality(SlotsOf(table, size, k)) + lost[k]
    <3>1. /\ Typed(size, table, num, copies, contents, left)
          /\ Keeps(table, size, contents, num, copies, left)
      BY <1>1, <2>2 DEF MapInv
    <3>2. PICK n \in Nat : n = size
      BY <3>1 DEF Typed
    <3>3. PICK c \in Contents : Kept(table, n, c, num, copies, left)
      BY <3>1, <3>2 DEF Keeps
    <3>4. /\ n > 0 => Holds(table, n, c)
          /\ n = 0 => \A k \in Keys : c[k] = Absent
          /\ IsFiniteSet(Stored(c)) /\ num = Cardinality(Stored(c)) + dropped
          /\ \A k \in Keys : copies[k] = Has(c, k) + lost[k]
      BY <3>3 DEF Kept, left
    <3>5. Cardinality(Populated(table, n)) = Cardinality(Stored(c))
      BY <3>4, EntriesAre
    <3>6. ASSUME NEW k \in Keys PROVE Cardinality(SlotsOf(table, n, k)) = Has(c, k)
      BY <3>4, SlotsAre, SMTT(30) DEF Has
    <3>7. QED
      BY <3>2, <3>4, <3>5, <3>6
  <2>3. QED
    BY <2>1, <2>2 DEF TableIsSound, CountIsEntries, KeysAreOwned
<1>2. QED
  BY <1>1, MapInvariance, PTL

(* hashmap_get finds what was put under a key and not removed since, after any mix of
   puts, removals, doublings, clears and resets with any allocation failing. *)
THEOREM GetFinds == Spec => []GetFindsWhatWasPut
<1>1. ASSUME MapInv PROVE GetFindsWhatWasPut
  <2>1. SUFFICES ASSUME ~stretched, size > 0, NEW k \in Keys PROVE Lookup(k) = contents[k]
    BY DEF GetFindsWhatWasPut
  <2>2. /\ Typed(size, table, num, copies, contents, left)
        /\ Keeps(table, size, contents, num, copies, left)
    BY <1>1, <2>1 DEF MapInv
  <2>3. PICK c \in Contents : size \in Nat \ {0} /\ Holds(table, size, c) /\ Shows(contents, c)
    BY <2>1, <2>2 DEF Typed, Keeps, Kept
  <2>4. Lookup(k) = Value(c, k)
    BY <2>3, LookupFinds
  <2>5. QED
    BY <2>3, <2>4 DEF Shows
<1>2. QED
  BY <1>1, MapInvariance, PTL

(* A walk that comes to the end has met every entry that was there when it began, when
   func and the iterator remove no entry but the one they stand on. *)
THEOREM WalksMeetAll ==
  ASSUME ForeachReach # "any"
  PROVE  Spec => []NothingIsSkipped
<1>1. ASSUME MapInv PROVE NothingIsSkipped
  <2>1. SUFFICES ASSUME ~stretched, walk.kind # "none", walk.at = size, NEW k \in due PROVE k \in seen
    BY DEF NothingIsSkipped
  <2>2. Typed(size, table, num, copies, contents, left) /\ WalkFine(table, size, walk, due, seen)
    BY <1>1, <2>1 DEF MapInv
  <2>3. k \in seen \/ \E s \in size .. size - 1 : table[s].key = k
    BY <2>1, <2>2 DEF WalkFine, Ahead
  <2>4. size \in Nat
    BY <2>2 DEF Typed
  <2>5. QED
    BY <2>3, <2>4
<1>2. QED
  BY <1>1, MapInvariance, PTL
==============================================================================
