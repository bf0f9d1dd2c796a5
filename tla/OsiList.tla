------------------------------- MODULE OsiList -------------------------------
(***************************************************************************)
(* The doubly linked list of osi/src/list.c: items on the heap, a head, a  *)
(* tail and a size.  chain is a history variable, the items in the order   *)
(* of the list; no action reads it.                                        *)
(***************************************************************************)
EXTENDS Integers, Sequences

CONSTANTS
  Data, NoData,   (* the callers' data pointers; what out holds before the first pop *)
  Items, NULL     (* the items MALLOC can return; the null pointer                   *)

ASSUME DataAssumption  == NoData \notin Data
ASSUME ItemsAssumption == NULL \notin Items

VARIABLES
  head, tail, size,   (* the fields of stList_t                              *)
  item,               (* the heap: prev, next and data of every item         *)
  allocated,          (* the items between their MALLOC and their FREE       *)
  out,                (* what the last pop or peek stored through data       *)
  phase,              (* "open", "destroy", "ended" or "crashed"             *)
  pi,                 (* local pi of list_destroy                            *)
  chain               (* history: the items of the list, front first         *)

listVars == <<head, tail, size, item>>
list     == <<listVars, allocated, out, phase, pi, chain>>

Pointers == Items \union {NULL}

(* Types: every link is an item or NULL, and a call returns data or nothing. *)
ListTypeOK ==
  /\ head \in Pointers /\ tail \in Pointers /\ pi \in Pointers
  /\ size \in Int
  /\ item \in [Items -> [prev : Pointers, next : Pointers, data : Data \union {NoData}]]
  /\ allocated \in SUBSET Items
  /\ out \in Data \union {NoData}
  /\ phase \in {"open", "destroy", "ended", "crashed"}
  /\ chain \in Seq(Items)

(* list_init; what the heap holds before a MALLOC is never read. *)
ListInit ==
  /\ head = NULL /\ tail = NULL /\ size = 0
  /\ item = [n \in Items |-> [prev |-> NULL, next |-> NULL, data |-> NoData]]
  /\ allocated = {} /\ out = NoData
  /\ phase = "open" /\ pi = NULL /\ chain = <<>>

Fresh(n) == n \notin allocated /\ allocated' = allocated \union {n}

PushFront(n, d) ==
  /\ phase = "open" /\ Fresh(n)
  /\ item' = [m \in Items |->
                IF m = n THEN [prev |-> NULL, next |-> head, data |-> d]
                ELSE IF m = head THEN [item[m] EXCEPT !.prev = n]
                ELSE item[m]]
  /\ head' = n
  /\ tail' = IF tail = NULL THEN n ELSE tail
  /\ size' = size + 1
  /\ chain' = <<n>> \o chain
  /\ UNCHANGED <<out, phase, pi>>

PushBack(n, d) ==
  /\ phase = "open" /\ Fresh(n)
  /\ item' = [m \in Items |->
                IF m = n THEN [prev |-> tail, next |-> NULL, data |-> d]
                ELSE IF m = tail THEN [item[m] EXCEPT !.next = n]
                ELSE item[m]]
  /\ head' = IF head = NULL THEN n ELSE head
  /\ tail' = n
  /\ size' = size + 1
  /\ chain' = Append(chain, n)
  /\ UNCHANGED <<out, phase, pi>>

(* The list after its first item, or its last, was unlinked. *)
WithoutFront ==
  /\ head' = item[head].next
  /\ item' = [m \in Items |-> IF m = head' THEN [item[m] EXCEPT !.prev = NULL] ELSE item[m]]
  /\ size' = size - 1
  /\ tail' = IF size' = 0 THEN NULL ELSE tail
  /\ chain' = SubSeq(chain, 2, Len(chain))

(* A slip of WithoutBack: the new last item still points to the freed one. *)
WithoutBackDangling ==
  /\ tail' = item[tail].prev
  /\ size' = size - 1
  /\ head' = IF size' = 0 THEN NULL ELSE head
  /\ chain' = SubSeq(chain, 1, Len(chain) - 1)
  /\ UNCHANGED item

WithoutBack ==
  /\ tail' = item[tail].prev
  /\ item' = [m \in Items |-> IF m = tail' THEN [item[m] EXCEPT !.next = NULL] ELSE item[m]]
  /\ size' = size - 1
  /\ head' = IF size' = 0 THEN NULL ELSE head
  /\ chain' = SubSeq(chain, 1, Len(chain) - 1)

PopFront ==
  /\ phase = "open" /\ size > 0
  /\ WithoutFront
  /\ out' = item[head].data
  /\ allocated' = allocated \ {head}
  /\ UNCHANGED <<phase, pi>>

(* A slip of PopBack: the first item's data is given. *)
PopBackOfFront ==
  /\ phase = "open" /\ size > 0
  /\ WithoutBack
  /\ out' = item[head].data
  /\ allocated' = allocated \ {tail}
  /\ UNCHANGED <<phase, pi>>

PopBack ==
  /\ phase = "open" /\ size > 0
  /\ WithoutBack
  /\ out' = item[tail].data
  /\ allocated' = allocated \ {tail}
  /\ UNCHANGED <<phase, pi>>

PeekFront ==
  /\ phase = "open" /\ size > 0
  /\ out' = item[head].data
  /\ UNCHANGED <<listVars, allocated, phase, pi, chain>>

PeekBack ==
  /\ phase = "open" /\ size > 0
  /\ out' = item[tail].data
  /\ UNCHANGED <<listVars, allocated, phase, pi, chain>>

(* list_destroy allocates an item, forgets it, and starts at the head. *)
Destroy ==
  /\ phase = "open" /\ phase' = "destroy"
  /\ (\E n \in Items : Fresh(n)) \/ UNCHANGED allocated
  /\ pi' = head
  /\ UNCHANGED <<listVars, out, chain>>

(* One round of its loop.  The head is already the next item when the loop reads
   l->head->next: it skips that item, or reads through NULL. *)
DestroyItem ==
  /\ phase = "destroy" /\ pi # NULL
  /\ head' = item[pi].next
  /\ allocated' = allocated \ {pi}
  /\ size' = size - 1
  /\ IF head' = NULL THEN phase' = "crashed" /\ UNCHANGED pi
                     ELSE pi' = item[head'].next /\ UNCHANGED phase
  /\ UNCHANGED <<tail, item, out, chain>>

(* After the loop, where the assertions are. *)
DestroyEnd ==
  /\ phase = "destroy" /\ pi = NULL
  /\ tail' = head
  /\ phase' = "ended"
  /\ UNCHANGED <<head, size, item, allocated, out, pi, chain>>

ListNext ==
  \/ \E n \in Items, d \in Data : PushFront(n, d) \/ PushBack(n, d)
  \/ PopFront \/ PopBack \/ PeekFront \/ PeekBack
  \/ Destroy \/ DestroyItem \/ DestroyEnd

ListSpec == ListInit /\ [][ListNext]_list

-----------------------------------------------------------------------------
(* Properties. *)

(* The list behaves as a queue with two ends, up to its destruction. *)
AsDeque == INSTANCE Deque WITH
  queue <- [i \in DOMAIN chain |-> item[chain[i]].data]
IsDeque == AsDeque!Spec

(* Both ways through the list meet the same items: next and prev are inverse, they end
   at NULL, and head, tail and size agree with them. *)
LinksAgree ==
  phase = "open" =>
    /\ Len(chain) = size
    /\ head = IF chain = <<>> THEN NULL ELSE chain[1]
    /\ tail = IF chain = <<>> THEN NULL ELSE chain[Len(chain)]
    /\ \A i \in DOMAIN chain :
         /\ item[chain[i]].next = IF i = Len(chain) THEN NULL ELSE chain[i + 1]
         /\ item[chain[i]].prev = IF i = 1 THEN NULL ELSE chain[i - 1]

(* The list holds every allocated item once, and no freed one. *)
HoldsAllocated ==
  phase = "open" =>
    /\ {chain[i] : i \in DOMAIN chain} = allocated
    /\ \A i, j \in DOMAIN chain : chain[i] = chain[j] => i = j

(* The list is sound: its links agree and it holds what is allocated. *)
ListIsWhole == LinksAgree /\ HoldsAllocated
=============================================================================
