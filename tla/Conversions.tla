---------------------------- MODULE Conversions ----------------------------
(* The codings and the parsers, given texts of their kinds. *)
EXTENDS Texts, Codecs, Parsers

CONSTANTS
  Trees,           \* sets of ways: those that exist, those that cannot be made
  ArgvLens         \* sizes of the array of arguments

(* A char is a byte, and a NUL ends a text. *)
ASSUME LettersAssumption ==
  \A kindOf \in {"data", "argv", "path", "address"} \cap DOMAIN Longest :
    /\ Longest[kindOf] \in Nat
    /\ \A n \in 1 .. Longest[kindOf] :
         Letters(kindOf, n) \subseteq IF kindOf = "data" THEN 0 .. 255 ELSE 1 .. 255
ASSUME SizesAssumption == ArgvLens \subseteq Nat

(* What base64.c, hex.c and the URL coding write they read back, parse_argv splits into the
   words of the text, the paths of file_io.c fit together and leave the directories they
   promise, and the address checks accept what has the right form. *)
ConversionsAgree ==
  CASE text.kind = "data"    -> Decodes(text.chars)
    [] text.kind = "argv"    -> \A n \in ArgvLens : SplitsWords(n, text.chars)
    [] text.kind = "path"    -> \A dirs, denied \in Trees : PathsFit(text.chars, dirs, denied)
    [] text.kind = "address" -> TakesAddresses(text.chars)
    [] OTHER -> TRUE
=============================================================================
