-------------------------------- MODULE HashMap --------------------------------
(***************************************************************************)
(* The osi library's hash map: linear probing over at most half of the     *)
(* table, no tombstones (a removal closes the gap in its chain), doubling  *)
(* of the table, and two ways to walk over the entries, an iterator and    *)
(* hashmap_foreach.  Keys are copied and freed by the map, as with         *)
(* hashmap_alloc_key_string and free; any allocation may fail.             *)
(***************************************************************************)
EXTENDS Integers, FiniteSets, FiniteSetsExt

CONSTANTS
  Keys,
  Hash,            (* the value of the hash function for each key                     *)
  Data, NULL,      (* the data callers store, NULL among it if they do                *)
  HASHMAP_SIZE_MIN, HASHMAP_SIZE_DEFAULT,
  InitialSize,     (* the initial_size given to hashmap_init                          *)
  MaxSize,         (* bound: the largest table calloc can give                        *)
  MaxLost,         (* bound: the copies of keys that are lost                         *)
  Calls,           (* the calls in use, among AllCalls                                *)
  ForeachReach     (* whose entries hashmap_foreach's func removes: "none", "own" key *)
                   (* or "any"                                                        *)

AllCalls == {"put", "remove", "clear", "reset", "destroy", "iter", "foreach"}

ASSUME HashAssumption  == Hash \in [Keys -> Nat]
ASSUME NullAssumption  == NULL \notin Keys
ASSUME SizeAssumption  ==
  /\ {HASHMAP_SIZE_MIN, HASHMAP_SIZE_DEFAULT} \subseteq {2 ^ i : i \in 1 .. 10}
  /\ InitialSize \in Nat
ASSUME CallsAssumption == Calls \subseteq AllCalls /\ ForeachReach \in {"none", "own", "any"}
ASSUME LostAssumption  == MaxLost \in Nat

VARIABLES
  size,        (* table_size; 0 after hashmap_destroy                               *)
  table,       (* the entries                                                       *)
  num,         (* num_entries                                                       *)
  copies,      (* the copies of each key that are allocated                         *)
  walk,        (* the walk under way, "iter", "foreach" or "none", and the slot of
                  its entry; the slot is size when there are no more entries        *)
  contents,    (* history: the data of each key the map should hold                 *)
  dropped,     (* history: the entries the map has left out when it was doubled,
                  since it was emptied                                              *)
  lost,        (* history: the copies of each key that were left out with them      *)
  due, seen,   (* history: the keys the walk has to meet, and has met               *)
  stretched    (* history: an entry was removed from a chain of more than size/2    *)

left == <<dropped, lost>>
vars == <<size, table, num, copies, walk, contents, left, due, seen, stretched>>

Empty  == [key |-> NULL, data |-> NULL]
NoWalk == [kind |-> "none", at |-> 0]
Fresh(n) == [s \in 0 .. n - 1 |-> Empty]

Populated(t, n) == {s \in 0 .. n - 1 : t[s].key # NULL}
KeysOf(t, n)    == {t[s].key : s \in Populated(t, n)}
WithoutData(t, n) == {s \in Populated(t, n) : t[s].data = NULL}
SlotsOf(t, n, k)  == {s \in 0 .. n - 1 : t[s].key = k}

(* Types: the table has table_size entries, a walk stands on one of them or at the end. *)
TypeOK ==
  /\ size \in 0 .. MaxSize
  /\ table \in [0 .. size - 1 -> [key : Keys \union {NULL}, data : Data \union {NULL}]]
  /\ num \in Nat
  /\ copies \in [Keys -> Nat]
  /\ walk \in [kind : {"none", "iter", "foreach"}, at : 0 .. size]
  /\ contents \in [Keys -> Data \union {NULL}]
  /\ dropped \in Nat /\ lost \in [Keys -> Nat]
  /\ due \subseteq Keys /\ seen \subseteq Keys
  /\ stretched \in BOOLEAN

-----------------------------------------------------------------------------
(* Sizes, probing, the chain. *)

MinSize(entries) == entries + entries \div 3

TableSize(entries) ==
  Min({m \in {HASHMAP_SIZE_MIN * 2 ^ i : i \in 0 .. entries} : m >= MinSize(entries)})

(* The size of the table hashmap_init makes; it has found the memory. *)
FirstSize == IF InitialSize = 0 THEN HASHMAP_SIZE_DEFAULT ELSE TableSize(InitialSize)

(* The bound on the sizes followed admits the first table. *)
ASSUME RoomAssumption == MaxSize \in Nat /\ FirstSize \in 1 .. MaxSize

Home(k, n) == Hash[k] % n

(* The first i below n with P(i), and n when there is none. *)
First(n, P(_)) == CHOOSE i \in 0 .. n : (i < n => P(i)) /\ \A j \in 0 .. i - 1 : ~P(j)

(* Does slot b come before slot a, or is it a, on the half circle that ends in a? *)
NotAfter(a, b, n) == a = b \/ (b - a) % n >= n \div 2

(* hashmap_entry_find: the first slot that holds k or nothing; -1 after half a table. *)
Find(t, n, k) ==
  LET stops(i) == t[(Home(k, n) + i) % n].key \in {k, NULL}
      i == First(n \div 2, stops)
  IN  IF i = n \div 2 THEN -1 ELSE (Home(k, n) + i) % n

Lookup(k) ==
  LET s == Find(table, size, k)
  IN  IF s = -1 THEN NULL ELSE table[s].data

(* The slots of r's chain after r, as distances from r. *)
Followers(t, n, r) ==
  LET ends(i) == t[(r + 1 + i) % n].key = NULL
  IN  1 .. First(n - 1, ends)

(* A slip of Unchain: nothing moves into the free slot. *)
UnchainNot(t, n, r) == [t EXCEPT ![r] = Empty]

(* The free slot after i followers of r were looked at; a follower that moves into it
   leaves its own. *)
Gaps(t, n, r) ==
  LET gap[i \in 0 .. Cardinality(Followers(t, n, r))] ==
        IF i = 0 THEN r
        ELSE LET free == gap[i - 1]
             IN  IF NotAfter(free, Home(t[(r + i) % n].key, n), n) THEN (r + i) % n ELSE free
  IN  gap

(* hashmap_entry_remove. *)
Unchain(t, n, r) ==
  LET gap   == Gaps(t, n, r)
      last  == Cardinality(Followers(t, n, r))
      moves == {i \in 1 .. last : gap[i] # gap[i - 1]}
  IN  [s \in 0 .. n - 1 |->
         IF s = gap[last] THEN Empty
         ELSE IF \E i \in moves : gap[i - 1] = s
              THEN t[gap[CHOOSE i \in moves : gap[i - 1] = s]]
              ELSE t[s]]

(* The table of size m after the first i entries of the old one found a slot in it; none
   after one that found no slot.  An entry without data is left out. *)
Refill(t, n, m) ==
  LET new[i \in 0 .. n] ==
        IF i = 0 THEN Fresh(m)
        ELSE LET e == t[i - 1]
                 s == IF new[i - 1] = <<>> THEN -1 ELSE Find(new[i - 1], m, e.key)
             IN  IF e.data = NULL THEN new[i - 1]
                 ELSE IF s = -1 THEN <<>> ELSE [new[i - 1] EXCEPT ![s] = e]
  IN  new

Rehash(t, n, m) == Refill(t, n, m)[n]

(* hashmap_rehash to twice the size: what it may leave, and whether it went well. *)
Rehashed(m) ==
  LET new == Rehash(m.table, m.size, 2 * m.size)
  IN  {[m EXCEPT !.ok = FALSE]} \union
        (IF 2 * m.size > MaxSize \/ new = <<>> THEN {}
         ELSE {[table |-> new, size |-> 2 * m.size, ok |-> TRUE]})

Init ==
  /\ size = FirstSize
  /\ table = Fresh(size) /\ num = 0
  /\ copies = [k \in Keys |-> 0]
  /\ walk = NoWalk
  /\ contents = [k \in Keys |-> NULL] /\ due = {} /\ seen = {} /\ stretched = FALSE
  /\ dropped = 0 /\ lost = [k \in Keys |-> 0]

(* Bounds: the map is followed up to the first removal from too long a chain, and until
   more is lost than MaxLost copies of MaxLost keys. *)
Followed ==
  ~stretched /\ Cardinality({k \in Keys : lost[k] > 0}) <= MaxLost /\ \A k \in Keys : lost[k] <= MaxLost
Call(c)  == c \in Calls /\ size > 0 /\ Followed

(* A put or a remove makes iterators invalid. *)
Unwalked == walk' = NoWalk /\ due' = {} /\ seen' = {}
Idle     == walk.kind # "foreach"

-----------------------------------------------------------------------------
(* hashmap_put. *)

(* A slip of Store: the key is copied before the slot is looked at. *)
StoreCopiesFirst(m, s, k, d) ==
  /\ size' = m.size /\ copies' = [copies EXCEPT ![k] = @ + 1]
  /\ \/ /\ m.table[s].data = NULL
        /\ table' = [m.table EXCEPT ![s] = [key |-> k, data |-> d]]
        /\ num' = IF m.table[s].key = NULL THEN num + 1 ELSE num
        /\ contents' = [contents EXCEPT ![k] = d]
     \/ m.table[s].data # NULL /\ table' = m.table /\ UNCHANGED <<num, contents>>

(* The slot is known: a new entry unless the copy of the key fails, or an entry that has
   the key; data that is there stays. *)
Store(m, s, k, d) ==
  /\ size' = m.size
  /\ \/ /\ m.table[s].key = NULL
        /\ table' = [m.table EXCEPT ![s] = [key |-> k, data |-> d]]
        /\ num' = num + 1 /\ copies' = [copies EXCEPT ![k] = @ + 1]
        /\ contents' = [contents EXCEPT ![k] = d]
     \/ /\ m.table[s].key = k /\ m.table[s].data = NULL
        /\ table' = [m.table EXCEPT ![s].data = d]
        /\ contents' = [contents EXCEPT ![k] = d]
        /\ UNCHANGED <<num, copies>>
     \/ /\ m.table[s].key = NULL \/ m.table[s].data # NULL
        /\ table' = m.table /\ UNCHANGED <<num, copies, contents>>

NoRoom(m) == table' = m.table /\ size' = m.size /\ UNCHANGED <<num, copies, contents>>

(* Doubling leaves out the entries without data. *)
LeavesOut ==
  LET out == WithoutData(table, size)
  IN  IF size' = size \/ out = {} THEN UNCHANGED left
      ELSE /\ dropped' = dropped + Cardinality(out)
           /\ lost' = [k \in Keys |-> lost[k] + Cardinality(out \intersect SlotsOf(table, size, k))]

Put(k, d) ==
  /\ Call("put") /\ Idle
  /\ LET now == [table |-> table, size |-> size, ok |-> TRUE]
     IN  \E m \in IF size <= MinSize(num) THEN Rehashed(now) ELSE {now} :
           IF Find(m.table, m.size, k) # -1 THEN Store(m, Find(m.table, m.size, k), k, d)
           ELSE \E m2 \in Rehashed(m) :
                  IF m2.ok /\ Find(m2.table, m2.size, k) # -1
                  THEN Store(m2, Find(m2.table, m2.size, k), k, d)
                  ELSE NoRoom(m2)
  /\ LeavesOut
  /\ Unwalked /\ UNCHANGED stretched

-----------------------------------------------------------------------------
(* hashmap_remove and the calls that empty the map. *)

(* hashmap_entry_remove of the entry in slot s, with its key. *)
RemoveEntry(s) ==
  /\ table' = Unchain(table, size, s)
  /\ num' = num - 1
  /\ copies' = [copies EXCEPT ![table[s].key] = @ - 1]
  /\ contents' = [contents EXCEPT ![table[s].key] = NULL]
  /\ stretched' = (stretched \/ Cardinality(Followers(table, size, s)) >= size \div 2)
  /\ UNCHANGED <<size, left>>

Remove(k) ==
  /\ Call("remove") /\ Idle
  /\ LET s == Find(table, size, k)
     IN  s # -1 /\ table[s].key = k /\ RemoveEntry(s)
  /\ Unwalked

(* hashmap_free_keys, whose iterator sees nothing when num_entries is 0. *)
FreeKeys ==
  /\ copies' = [k \in Keys |->
       IF num = 0 THEN copies[k]
       ELSE copies[k] - Cardinality(SlotsOf(table, size, k))]
  /\ contents' = [k \in Keys |-> NULL] /\ dropped' = 0
  /\ Unwalked /\ UNCHANGED <<lost, stretched>>

Clear ==
  /\ Call("clear") /\ Idle
  /\ table' = Fresh(size) /\ num' = 0 /\ UNCHANGED size
  /\ FreeKeys

(* hashmap_reset: clears, and goes back to the initial size unless realloc fails. *)
Reset ==
  /\ Call("reset") /\ Idle
  /\ \E n \in {size, FirstSize} :
       table' = Fresh(n) /\ size' = n
  /\ num' = 0
  /\ FreeKeys

Destroy ==
  /\ Call("destroy") /\ Idle
  /\ table' = <<>> /\ size' = 0 /\ num' = 0
  /\ FreeKeys

-----------------------------------------------------------------------------
(* Walks. *)

(* hashmap_entry_get_populated from slot s on. *)
FirstFrom(t, n, s) ==
  LET holds(i) == t[s + i].key # NULL
  IN  s + First(n - s, holds)

Begin(kind, call) ==
  /\ Call(call) /\ Idle
  /\ walk' = [kind |-> kind, at |-> FirstFrom(table, size, 0)]
  /\ due' = KeysOf(table, size) /\ seen' = {}
  /\ UNCHANGED <<size, table, num, copies, contents, left, stretched>>

Iter    == num # 0 /\ Begin("iter", "iter")
Foreach == Begin("foreach", "foreach")

On(kind) == walk.kind = kind /\ walk.at < size /\ Followed
Meet     == seen' = seen \union {table[walk.at].key}

IterNext ==
  /\ On("iter")
  /\ walk' = [walk EXCEPT !.at = FirstFrom(table, size, walk.at + 1)]
  /\ Meet
  /\ UNCHANGED <<size, table, num, copies, contents, left, due, stretched>>

(* A slip of IterRemove: it goes on after the slot it has just filled again. *)
IterRemoveSkips ==
  /\ On("iter")
  /\ RemoveEntry(walk.at)
  /\ walk' = [walk EXCEPT !.at = FirstFrom(table', size, walk.at + 1)]
  /\ Meet /\ UNCHANGED due

IterRemove ==
  /\ On("iter")
  /\ RemoveEntry(walk.at)
  /\ walk' = [walk EXCEPT !.at = FirstFrom(table', size, walk.at)]
  /\ Meet /\ UNCHANGED due

IterSetData(d) ==
  /\ On("iter")
  /\ table' = [table EXCEPT ![walk.at].data = d]
  /\ contents' = [contents EXCEPT ![table[walk.at].key] = d]
  /\ UNCHANGED <<size, num, copies, left, walk, due, seen, stretched>>

(* func returned 0: hashmap_foreach goes on, at the same slot if its key is another
   one or gone. *)
GoOn ==
  walk' = [walk EXCEPT !.at =
    FirstFrom(table', size,
              IF table'[walk.at].key = table[walk.at].key THEN walk.at + 1 ELSE walk.at)]

FuncKeeps ==
  /\ On("foreach")
  /\ UNCHANGED <<size, table, num, copies, contents, left, due, stretched>>
  /\ Meet /\ GoOn

FuncRemoves ==
  /\ On("foreach")
  /\ \E s \in IF ForeachReach = "any" THEN Populated(table, size)
              ELSE IF ForeachReach = "own" THEN {walk.at} ELSE {} :
       /\ RemoveEntry(s)
       /\ due' = IF s = walk.at THEN due ELSE due \ {table[s].key}
  /\ Meet /\ GoOn

(* func returned something else, or hashmap_foreach is through. *)
ForeachEnds ==
  /\ walk.kind = "foreach"
  /\ Unwalked /\ UNCHANGED <<size, table, num, copies, contents, left, stretched>>

Next ==
  \/ \E k \in Keys, d \in Data : Put(k, d)
  \/ \E k \in Keys : Remove(k)
  \/ Clear \/ Reset \/ Destroy
  \/ Iter \/ IterNext \/ IterRemove \/ \E d \in Data : IterSetData(d)
  \/ Foreach \/ FuncKeeps \/ FuncRemoves \/ ForeachEnds

Spec == Init /\ [][Next]_vars

-----------------------------------------------------------------------------
(* Properties.  They hold as long as nothing was removed from a chain of more than half
   the table, for NotAfter only sees half a circle. *)

(* hashmap_get finds for every key what was put under it and not removed since, however
   the table was probed, closed up, doubled and cleared. *)
GetFindsWhatWasPut ==
  ~stretched /\ size > 0 => \A k \in Keys : Lookup(k) = contents[k]

(* num_entries, which decides on doubling and is what hashmap_size returns, is the number
   of entries in the table, but for those without data that were left out when the map
   was doubled: each counts on until the map is emptied. *)
CountIsEntries ==
  ~stretched => num = Cardinality(Populated(table, size)) + dropped

(* Every copy of a key is in one slot of the table or was left out with an entry without
   data: no other leaks, and none is freed twice. *)
KeysAreOwned ==
  ~stretched =>
    \A k \in Keys : copies[k] = Cardinality(SlotsOf(table, size, k)) + lost[k]

(* Table, count and copies agree.  hashmap_free_keys stops at once when num_entries is 0,
   so that a count that is off leaks keys or makes the table double too late. *)
TableIsSound == TypeOK /\ CountIsEntries /\ KeysAreOwned

(* A walk that has come to the end has met every entry that was there when it began,
   also when it removed some on its way and others moved up. *)
NothingIsSkipped ==
  ~stretched /\ walk.kind # "none" /\ walk.at = size => due \subseteq seen

(* A claim of the repository the code does not keep, the subject of a finding: a removal
   keeps the chain continuous, so that the other keys are still found. *)
RemovalKeepsOthers ==
  size > 0 => \A k \in Keys : contents[k] # NULL => Lookup(k) = contents[k]
=============================================================================
