-------------------------------- MODULE Texts --------------------------------
(* The texts that functions without state are given: one of some kind, which grows by a
   character at a time. *)
EXTENDS Integers, Sequences

CONSTANTS
  Letters(_, _),   \* what a text of some kind may have at some place
  Longest          \* bound on the length of a text, by kind

VARIABLE text

NoText == [kind |-> "none", chars |-> <<>>]

TextInit == text \in [kind : DOMAIN Longest, chars : {<<>>}]

TextGrows ==
  /\ Len(text.chars) < Longest[text.kind]
  /\ \E c \in Letters(text.kind, Len(text.chars) + 1) : text' = [text EXCEPT !.chars = Append(@, c)]

TextSpec == TextInit /\ [][TextGrows]_text
=============================================================================
