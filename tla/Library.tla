------------------------------- MODULE Library -------------------------------
(* The functions without threads: what the manager encrypts and sends, the codings and
   parsers, the streams, the linked list and the input and output functions of the test
   target's library.  They share no state: a behaviour is about one part, a text that grows
   by a character at a time and is given to the functions of its kind, a stream, a list, or
   the calls of a caller. *)
EXTENDS Cipher, Conversions, Streams, OsiList, OsiIo

VARIABLE part

vars == <<part, text, stream, list, io>>

Idle     == kind = "none" /\ at = 0 /\ fed = <<>> /\ pieces = 0 /\ frames = <<>> /\ astray = FALSE
IdleIo   == IoInit /\ input = 0 /\ ~hungUp

Init ==
  \/ part = "text" /\ TextInit /\ Idle /\ ListInit /\ IdleIo
  \/ part = "stream" /\ text = NoText /\ StreamInit /\ ListInit /\ IdleIo
  \/ part = "list" /\ text = NoText /\ Idle /\ ListInit /\ IdleIo
  \/ part = "io" /\ text = NoText /\ Idle /\ ListInit /\ IoInit

Next ==
  \/ part = "text" /\ TextGrows /\ UNCHANGED <<part, stream, list, io>>
  \/ part = "stream" /\ StreamNext /\ UNCHANGED <<part, text, list, io>>
  \/ part = "list" /\ ListNext /\ UNCHANGED <<part, text, stream, io>>
  \/ part = "io" /\ IoNext /\ UNCHANGED <<part, text, stream, list>>

(* Signals do not come for ever: the system answers the calls it is asked. *)
Fairness == WF_vars(part = "io" /\ Answer /\ UNCHANGED <<part, text, stream, list>>)

Spec == Init /\ [][Next]_vars /\ Fairness
=============================================================================
