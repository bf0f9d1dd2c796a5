------------------------------- MODULE Parsers -------------------------------
(* The functions that take texts apart: parse_argv.c and the path functions of file_io.c
   in the test target's library, and the address checks of the manager's dialogs in
   main.cpp.  Characters are their codes; a text in a buffer ends with a NUL. *)
EXTENDS Integers, Sequences, SequencesExt

Blanks == {32, 9}
Quotes == {34, 39}
Slash  == 47
Dot    == 46
Digits == 48 .. 57

-----------------------------------------------------------------------------
(* parse_argv: cp reads and dest writes, in one buffer. *)

StringAt(buf, p) ==
  LET nul == CHOOSE i \in p .. Len(buf) : buf[i] = 0 /\ \A j \in p .. i - 1 : buf[j] # 0
  IN SubSeq(buf, p, nul - 1)

(* A slip of CopyArg: inside a quote the other kind of mark ends it too. *)
CopyArgAnyQuote(arg, c) ==
  IF c = 0 \/ (arg.quote = 0 /\ c \in Blanks)
  THEN [arg EXCEPT !.buf[arg.dest] = 0, !.cp = @ + 1, !.open = FALSE, !.done = c = 0]
  ELSE IF c \in Quotes THEN [arg EXCEPT !.cp = @ + 1, !.quote = IF @ = 0 THEN c ELSE 0]
  ELSE [arg EXCEPT !.buf[arg.dest] = c, !.cp = @ + 1, !.dest = @ + 1]

(* A character of an argument, or what ends it. *)
CopyArg(arg, c) ==
  IF c = 0 \/ (arg.quote = 0 /\ c \in Blanks)
  THEN [arg EXCEPT !.buf[arg.dest] = 0, !.cp = @ + 1, !.open = FALSE, !.done = c = 0]
  ELSE IF arg.quote = 0 /\ c \in Quotes THEN [arg EXCEPT !.cp = @ + 1, !.quote = c]
  ELSE IF arg.quote # 0 /\ c = arg.quote THEN [arg EXCEPT !.cp = @ + 1, !.quote = 0]
  ELSE [arg EXCEPT !.buf[arg.dest] = c, !.cp = @ + 1, !.dest = @ + 1]

(* A turn reads a character, in an argument (open) or before one. *)
ArgvTurn(argv_len, was) ==
  LET c == was.buf[was.cp]
      starts == [was EXCEPT !.argv = Append(@, was.cp), !.dest = was.cp, !.open = TRUE]
  IN IF was.done THEN was
     ELSE IF was.open THEN CopyArg(was, c)
     ELSE IF Len(was.argv) = argv_len \/ c = 0 THEN [was EXCEPT !.done = TRUE]
     ELSE IF c \in Blanks THEN [was EXCEPT !.cp = @ + 1]
     ELSE CopyArg(starts, c)

(* The arguments as their reader finds them once the whole buffer has been rewritten. *)
ParseArgv(argv_len, text) ==
  LET turn[n \in 0 .. Len(text) + 1] ==
        IF n = 0 THEN [buf |-> Append(text, 0), cp |-> 1, dest |-> 1, quote |-> 0,
                       argv |-> <<>>, open |-> FALSE, done |-> FALSE]
        ELSE ArgvTurn(argv_len, turn[n - 1])
      parsed == turn[Len(text) + 1]
  IN [i \in DOMAIN parsed.argv |-> StringAt(parsed.buf, parsed.argv[i])]

-----------------------------------------------------------------------------
(* file_io.c.  NoName is the answer of file_get_name for the current directory. *)

NoName == <<0>>
Cut(s, size) == SubSeq(s, 1, Min({Len(s), size - 1}))   \* snprintf of s

(* strrchr, 0 if there is none. *)
LastSlash(s) ==
  LET slashes == {i \in DOMAIN s : s[i] = Slash}
  IN IF slashes = {} THEN 0 ELSE Max(slashes)

FileGetDir(path, size) ==
  LET dest  == Cut(path, size)
      slash == LastSlash(dest)
  IN CASE slash = 0 -> Cut(<<Dot>>, size)
       [] slash = 1 -> Cut(<<Slash>>, size)
       [] OTHER -> SubSeq(dest, 1, slash - 1)

FileGetName(path) ==
  IF path = <<Dot>> THEN NoName ELSE SubSeq(path, LastSlash(path) + 1, Len(path))

FileCleanPath(path) ==
  IF Len(path) > 1 /\ path[Len(path)] = Slash THEN SubSeq(path, 1, Len(path) - 1) ELSE path

(* What the system takes a path for: the names on the way, without the empty ones. *)
WayTurn(path, i, way) ==
  CASE path[i] = Slash -> way
    [] path[i] # Slash /\ (i = 1 \/ path[i - 1] = Slash) -> Append(way, <<path[i]>>)
    [] OTHER -> [way EXCEPT ![Len(way)] = Append(@, path[i])]

Way(path) ==
  LET way[n \in 0 .. Len(path)] == IF n = 0 THEN <<>> ELSE WayTurn(path, n, way[n - 1])
  IN  way[Len(path)]

(* access and mkdir; dirs is the set of ways that exist, denied those that cannot be
   made.  The way of no name is the root or the current directory. *)
Exists(dirs, path) == path # <<>> /\ (Way(path) = <<>> \/ Way(path) \in dirs)
Mkdir(dirs, denied, path) ==
  LET way == Way(path)
  IN IF way # <<>> /\ way \notin dirs \cup denied
        /\ (Len(way) = 1 \/ SubSeq(way, 1, Len(way) - 1) \in dirs)
     THEN [ret |-> 0, dirs |-> dirs \cup {way}] ELSE [ret |-> -1, dirs |-> dirs]

Ensured(denied, was, dir) ==
  IF was.ret = 0 /\ ~Exists(was.dirs, dir) THEN Mkdir(was.dirs, denied, dir) ELSE was

(* Everything before a slash that is not the first character, then the path. *)
FileCreateDir(dirs, denied, path) ==
  LET walk[n \in 0 .. Len(path)] ==
        IF n = 0 THEN [ret |-> 0, dirs |-> dirs]
        ELSE IF n > 1 /\ path[n] = Slash
        THEN Ensured(denied, walk[n - 1], SubSeq(path, 1, n - 1)) ELSE walk[n - 1]
  IN Ensured(denied, walk[Len(path)], path)

-----------------------------------------------------------------------------
(* main.cpp.  The first character that is no small digit ends the loop; a capital one has
   been overwritten with its value by then, in the caller's buffer. *)
SmallDigits == Digits \cup 97 .. 102
ValidMac(mac) ==
  LET others == {i \in DOMAIN mac : mac[i] \notin SmallDigits}
      first  == Min(others)
  IN IF Len(mac) # 16 \/ others = {} THEN [ok |-> Len(mac) = 16, mac |-> mac]
     ELSE [ok  |-> FALSE,
           mac |-> IF mac[first] \in 65 .. 70 THEN [mac EXCEPT ![first] = @ - 65 + 10] ELSE mac]

(* The next dot from the place s on, 0 if there is none. *)
NextDot(dots, s) ==
  LET later == {i \in dots : i >= s}
  IN IF later = {} THEN 0 ELSE Min(later)

(* Three times the text up to the next dot, then the rest; none may be empty. *)
ValidIp(ip) ==
  LET dots == {i \in DOMAIN ip : ip[i] = Dot}
      dot1 == NextDot(dots, 1)
      dot2 == NextDot(dots, dot1 + 1)
      dot3 == NextDot(dots, dot2 + 1)
  IN /\ Len(ip) \in 7 .. 17
     /\ \A i \in DOMAIN ip : ip[i] \in Digits \cup {Dot}
     /\ Cardinality(dots) < 4
     /\ dot1 > 1 /\ dot2 > dot1 + 1 /\ dot3 > dot2 + 1 /\ dot3 < Len(ip)

-----------------------------------------------------------------------------
(* References: what the functions are there for. *)

(* The words of a text: what stands between blanks outside quotes, without the marks. *)
WordTurn(was, c) ==
  LET now == IF was.open THEN was ELSE [was EXCEPT !.words = Append(@, <<>>), !.open = TRUE]
  IN IF was.quote = 0 /\ c \in Blanks THEN [was EXCEPT !.open = FALSE]
     ELSE IF was.quote = 0 /\ c \in Quotes THEN [now EXCEPT !.quote = c]
     ELSE IF c = was.quote THEN [now EXCEPT !.quote = 0]
     ELSE [now EXCEPT !.words[Len(now.words)] = Append(@, c)]

Words(text) ==
  LET seen[n \in 0 .. Len(text)] ==
        IF n = 0 THEN [words |-> <<>>, quote |-> 0, open |-> FALSE]
        ELSE WordTurn(seen[n - 1], text[n])
  IN  seen[Len(text)].words

(* The arguments are the first words of the text, however much of it is rewritten. *)
SplitsWords(argv_len, text) ==
  ParseArgv(argv_len, text) =
    LET words == Words(text) IN SubSeq(words, 1, Min({Len(words), argv_len}))

(* Directory and name make up the path again; a directory is made with all above it and
   nothing else, and a refusal means that one of them cannot be. *)
PathsFit(path, dirs, denied) ==
  LET dir  == FileGetDir(path, Len(path) + 2)
      name == FileGetName(path)
      made == FileCreateDir(dirs, denied, path)
      way  == Way(path)
      above == {SubSeq(way, 1, n) : n \in 1 .. Len(way)}
  IN /\ name # NoName => /\ path \in {name, dir \o name, dir \o <<Slash>> \o name}
                         /\ \A i \in DOMAIN name : name[i] # Slash
     /\ Way(FileCleanPath(path)) = way
     /\ dirs \subseteq made.dirs /\ made.dirs \subseteq dirs \cup above
     /\ made.ret = 0 <=> path # <<>> /\ above \subseteq made.dirs
     /\ \A new \in made.dirs \ dirs : Len(new) = 1 \/ SubSeq(new, 1, Len(new) - 1) \in made.dirs
     /\ made.ret # 0 => path = <<>> \/ above \cap (denied \ dirs) # {}

(* An IP address is accepted exactly if three dots part it into four numbers, a MAC address
   if its digits are small ones; the text is left as it was unless a capital digit is
   refused. *)
TakesAddresses(chars) ==
  LET dots  == {i \in DOMAIN chars : chars[i] = Dot}
      mac   == chars \o [i \in 1 .. 16 - Len(chars) |-> 97]
      valid == ValidMac(mac)
  IN /\ ValidIp(chars) <=>
          /\ Len(chars) \in 7 .. 17 /\ \A i \in DOMAIN chars \ dots : chars[i] \in Digits
          /\ \E p, q, r \in dots :
               dots = {p, q, r} /\ 1 < p /\ p + 1 < q /\ q + 1 < r /\ r < Len(chars)
     /\ valid.ok <=> Len(mac) = 16 /\ \A i \in DOMAIN mac : mac[i] \in SmallDigits
     /\ valid.mac # mac => ~valid.ok /\ \E i \in DOMAIN mac : mac[i] \in 65 .. 70
=============================================================================
