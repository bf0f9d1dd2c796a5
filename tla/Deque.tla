-------------------------------- MODULE Deque --------------------------------
(* What list.c of osi promises its callers: a queue with two ends. *)
EXTENDS Sequences, Integers

CONSTANTS Data, NoData

VARIABLES
  queue,   (* the elements, front first              *)
  out      (* what the last pop or peek gave the caller *)

vars == <<queue, out>>

(* Types: the items in the queue and the one the latest call returned. *)
TypeOK == queue \in Seq(Data) /\ out \in Data \union {NoData}

Init == queue = <<>> /\ out = NoData

PushFront(d) == queue' = <<d>> \o queue /\ UNCHANGED out
PushBack(d)  == queue' = Append(queue, d) /\ UNCHANGED out

PeekFront == queue # <<>> /\ out' = queue[1] /\ UNCHANGED queue
PeekBack  == queue # <<>> /\ out' = queue[Len(queue)] /\ UNCHANGED queue

PopFront == queue # <<>> /\ out' = queue[1] /\ queue' = SubSeq(queue, 2, Len(queue))
PopBack  ==
  queue # <<>> /\ out' = queue[Len(queue)] /\ queue' = SubSeq(queue, 1, Len(queue) - 1)

Next ==
  \/ \E d \in Data : PushFront(d) \/ PushBack(d)
  \/ PeekFront \/ PeekBack \/ PopFront \/ PopBack

Spec == Init /\ [][Next]_vars
=============================================================================
