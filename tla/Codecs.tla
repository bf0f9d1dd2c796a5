------------------------------- MODULE Codecs -------------------------------
(* The codings of the test target's library, base64.c, hex.c and the URL coding of its
   des.cpp.  Characters are their codes; Fail stands for a negative result. *)
EXTENDS Integers, Sequences, SequencesExt

Fail == [fails |-> TRUE]

At(s, i) == IF i \in DOMAIN s THEN s[i] ELSE 0   \* the NUL at the end

Digit(c) == c \in 48 .. 57

-----------------------------------------------------------------------------
(* base64.c, on symbols as in Cipher: 0 .. 63, or a larger number for any other. *)

Sextets(a, b, c) ==
  << a \div 4, (a % 4) * 16 + (b \div 16), (b % 16) * 4 + (c \div 64), c % 64 >>

(* The string and the result, which counts the NUL. *)
Base64encode(data) ==
  LET byte(i) == At(data, i)
      n == Len(data)
      group(i) == Sextets(byte(3 * i - 2), byte(3 * i - 1), byte(3 * i))
      text == FlattenSeq([i \in 1 .. n \div 3 |-> group(i)])
                \o CASE n % 3 = 0 -> <<>>
                     [] n % 3 = 1 -> SubSeq(group((n \div 3) + 1), 1, 2) \o <<64, 64>>
                     [] n % 3 = 2 -> SubSeq(group((n \div 3) + 1), 1, 3) \o <<64>>
  IN [text |-> text, ret |-> Len(text) + 1]

Base64encode_len(len) == ((len + 2) \div 3) * 4 + 1

(* The symbols before the first that is none. *)
Coded(text) ==
  LET others == {i \in DOMAIN text : text[i] > 63}
  IN IF others = {} THEN text ELSE SubSeq(text, 1, Min(others) - 1)

Base64decode_len(text) == ((Len(Coded(text)) + 3) \div 4) * 3 + 1

(* A slip of Base64decode: the last group is taken by the loop too, which leaves nothing
   to say how much of it counts. *)
Base64decodeWhole(text) ==
  LET n == Len(Coded(text))
      c(i) == At(Coded(text), i)
      group(i) == << c(4 * i - 3) * 4 + (c(4 * i - 2) \div 16),
                     (c(4 * i - 2) % 16) * 16 + (c(4 * i - 1) \div 4),
                     (c(4 * i - 1) % 4) * 64 + c(4 * i) >>
  IN [data |-> FlattenSeq([i \in 1 .. (n + 3) \div 4 |-> group(i)]),
      ret  |-> ((n + 3) \div 4) * 3]

(* Groups of four while more than four are left; the rest, at most four, by cases. *)
Base64decode(text) ==
  LET n == Len(Coded(text))
      whole == IF n > 4 THEN (n - 1) \div 4 ELSE 0
      left  == n - 4 * whole
      c(i)  == At(Coded(text), i)
      group(i) == << c(4 * i - 3) * 4 + (c(4 * i - 2) \div 16),
                     (c(4 * i - 2) % 16) * 16 + (c(4 * i - 1) \div 4),
                     (c(4 * i - 1) % 4) * 64 + c(4 * i) >>
  IN [data |-> FlattenSeq([i \in 1 .. whole |-> group(i)])
                 \o SubSeq(group(whole + 1), 1, left - 1),
      ret  |-> ((n + 3) \div 4) * 3 - ((4 - left) % 4)]

-----------------------------------------------------------------------------
(* hex.c. *)

HexDigit(nibble, upper) ==
  IF nibble < 10 THEN 48 + nibble ELSE nibble - 10 + IF upper THEN 65 ELSE 97

Nibble(c) ==
  CASE c \in 48 .. 57  -> c - 48
    [] c \in 65 .. 70  -> c - 65 + 10
    [] c \in 97 .. 102 -> c - 97 + 10
    [] OTHER -> -1

(* No data and a delimiter: data_len - 1 wraps around, and no buffer is large enough. *)
HexString(size, data, upper, delim) ==
  LET len == 2 * Len(data) + IF delim = 0 THEN 0 ELSE Len(data) - 1
      byte(i) == << HexDigit(data[i] \div 16, upper), HexDigit(data[i] % 16, upper) >>
                   \o IF delim # 0 /\ i < Len(data) THEN <<delim>> ELSE <<>>
  IN IF size <= len \/ len < 0 THEN Fail
     ELSE [fails |-> FALSE, text |-> FlattenSeq([i \in DOMAIN data |-> byte(i)])]

(* hex_parse_n: the third character is taken for a delimiter if it is no digit. *)
HexParse(size, text) ==
  LET len   == Len(text)
      delim == IF len > 4 /\ Nibble(text[3]) < 0 THEN text[3] ELSE 0
      step  == IF delim = 0 THEN 2 ELSE 3
      n     == (len + step - 2) \div step
      high(i) == Nibble(At(text, step * (i - 1) + 1))
      low(i)  == Nibble(At(text, step * (i - 1) + 2))
  IN IF /\ len >= 2
        /\ (len + step - 2) % step = 0 /\ size >= n
        /\ \A i \in 1 .. n :
             /\ high(i) >= 0 /\ low(i) >= 0
             /\ i < n /\ delim # 0 => text[step * i] = delim
     THEN [fails |-> FALSE, delim |-> delim,
           data |-> [i \in 1 .. n |-> high(i) * 16 + low(i)]]
     ELSE Fail

-----------------------------------------------------------------------------
(* URL coding, des.cpp. *)

IsPlain(c) == Digit(c) \/ c \in 65 .. 90 \/ c \in 97 .. 122 \/ c \in {45, 95, 46, 126}
ToHex(x)   == IF x > 9 THEN x + 55 ELSE x + 48
FromHex(x) == CASE x \in 65 .. 90  -> x - 65 + 10
                [] x \in 97 .. 122 -> x - 97 + 10
                [] Digit(x) -> x - 48
                [] OTHER -> 0

UrlEncode(s) ==
  LET code(c) == IF IsPlain(c) THEN <<c>>
                 ELSE IF c = 32 THEN <<43>>
                 ELSE <<37, ToHex(c \div 16), ToHex(c % 16)>>
  IN FlattenSeq([i \in DOMAIN s |-> code(s[i])])

(* A turn of the loop of UrlDecode, from the place i. *)
UrlTurn(s, was) ==
  LET i == was.i
      c == At(s, i)
  IN IF i > Len(s) THEN was
     ELSE IF c = 37
     THEN [i   |-> i + 3,
           out |-> Append(was.out, (FromHex(At(s, i + 1)) * 16 + FromHex(At(s, i + 2))) % 256)]
     ELSE [i |-> i + 1, out |-> Append(was.out, IF c = 43 THEN 32 ELSE c)]

(* Every turn reads a character or more, so that there are enough of them. *)
UrlDecode(s) ==
  LET turn[n \in 0 .. Len(s)] ==
        IF n = 0 THEN [i |-> 1, out |-> <<>>] ELSE UrlTurn(s, turn[n - 1])
  IN  turn[Len(s)].out

-----------------------------------------------------------------------------
(* Every decoder gives back what its encoder was given and says how much that is; the
   buffers the length functions announce suffice, and a hexadecimal string is refused only
   where its buffer does not. *)
Decodes(data) ==
  LET coded == Base64encode(data)
      plain == Base64decode(coded.text)
      Room(delim) == IF delim = 0 THEN 2 * Len(data) ELSE 3 * Len(data) - 1
  IN /\ plain.data = data /\ plain.ret = Len(data)
     /\ coded.ret = Base64encode_len(Len(data))
     /\ plain.ret < Base64decode_len(coded.text)
     /\ UrlDecode(UrlEncode(data)) = data
     /\ \A upper \in BOOLEAN, delim \in {0, 58}, size \in 0 .. 3 * Len(data) + 1 :
          LET hex == HexString(size, data, upper, delim)
          IN IF hex.fails
             THEN size <= Room(delim) \/ data = <<>>
             ELSE data = <<>> \/ HexParse(Len(data), hex.text) =
                                   [fails |-> FALSE, data |-> data,
                                    delim |-> IF Len(data) = 1 THEN 0 ELSE delim]
=============================================================================
