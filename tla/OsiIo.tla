-------------------------------- MODULE OsiIo --------------------------------
(* The input and output functions of the test target's library: tcp.c, udp.c and serial.c.
   A caller makes one call at a time; the system answers each of its system calls.  A
   call that a signal interrupts starts the same system call again: nothing changes, and
   there is no step for it but in tcp_send, which counts.  Bytes are counted only. *)
EXTENDS Integers, FiniteSets

CONSTANTS
  Size,        \* bytes the caller asks for or gives
  MaxInput     \* bound on the bytes that arrive

ASSUME IoAssumption == Size \in Nat \ {0} /\ MaxInput \in Nat

VARIABLES
  fn,          \* the function called last
  pc,          \* "returned" or the system call it is about to make
  fd,          \* the descriptor it works on
  ret,         \* its result; while it cleans up, the result to be
  tries,       \* try_count of tcp_send
  moved,       \* bytes it has taken from the system or given to it
  input,       \* bytes the other side will still send
  hungUp,      \* the other side closes after them
  open,        \* what each descriptor is open for, or "closed"
  held         \* descriptors the caller has been given and has not given back

io == <<fn, pc, fd, ret, tries, moved, input, hungUp, open, held>>

Fds       == {0, 3}              \* 0 is one a process without standard input gets
Closed    == {d \in Fds : open[d] = "closed"}
Creates   == {"tcp_client", "tcp_server", "udp_create", "serial_open"}
Reads     == {"tcp_recv", "udp_recv", "serial_read", "serial_flush"}
Writes    == {"tcp_send", "udp_send", "serial_write"}
Destroys  == {"tcp_destroy", "udp_destroy", "serial_close"}
TcpCalls  == {"tcp_recv", "tcp_send", "tcp_destroy"}
Serial    == {"serial_read", "serial_flush"}

Use(f) == CASE f \in TcpCalls -> {"connected"}
            [] f = "tcp_accept" -> {"listening"}
            [] f \in {"udp_recv", "udp_send", "udp_destroy"} -> {"udp"}
            [] OTHER -> {"serial"}

Wanted == IF fn = "serial_flush" THEN 1 ELSE Size

Returns(result) == pc' = "returned" /\ ret' = result
OnlyMoves(n)    == moved' = moved + n /\ UNCHANGED <<fn, fd, tries, hungUp, open, held>>
Same            == UNCHANGED <<fn, fd, tries, moved, input, hungUp, open, held>>

IoInit ==
  /\ fn = "none" /\ pc = "returned" /\ fd = -1 /\ ret = 0 /\ tries = 0 /\ moved = 0
  /\ input \in 0 .. MaxInput /\ hungUp \in BOOLEAN
  /\ open = [d \in Fds |-> "closed"] /\ held = {}

-----------------------------------------------------------------------------
(* tcp_create, udp_create, serial_open. *)

Create(f) ==
  /\ pc = "returned" /\ fn' = f /\ moved' = 0 /\ tries' = 0
  /\ \/ Returns(-1) /\ UNCHANGED <<fd, open>>
     \/ \E d \in Closed : /\ fd' = d /\ open' = [open EXCEPT ![d] = "fresh"]
                          /\ pc' = "set up" /\ UNCHANGED ret
  /\ UNCHANGED <<input, hungUp, held>>

SetUp ==
  /\ pc = "set up" /\ Returns(fd) /\ held' = held \cup {fd}
  /\ open' = [open EXCEPT ![fd] = CASE fn = "tcp_client"  -> "connected"
                                    [] fn = "tcp_server"  -> "listening"
                                    [] fn = "udp_create"  -> "udp"
                                    [] fn = "serial_open" -> "serial"]
  /\ UNCHANGED <<fn, fd, tries, moved, input, hungUp>>

(* A slip of SetUpFails: a descriptor whose connect or bind failed is forgotten. *)
SetUpFailsOpen ==
  /\ pc = "set up"
  /\ ret' \in CASE fn = "tcp_client" -> {-2} [] fn = "tcp_server" -> {-3, -4} [] OTHER -> {-2}
  /\ pc' = "returned"
  /\ UNCHANGED <<fn, fd, tries, moved, input, hungUp, open, held>>

(* connect, bind or listen, bind, tcsetattr; the descriptor is closed again, in tcp.c by
   tcp_destroy, which leaves 0 open, as udp_destroy does. *)
SetUpFails ==
  /\ pc = "set up"
  /\ ret' \in CASE fn = "tcp_client" -> {-2} [] fn = "tcp_server" -> {-3, -4} [] OTHER -> {-2}
  /\ pc' = IF fn \in {"tcp_client", "tcp_server"} /\ fd > 0 THEN "drain" ELSE "returned"
  /\ open' = IF fn = "serial_open" \/ (fn = "udp_create" /\ fd > 0)
             THEN [open EXCEPT ![fd] = "closed"] ELSE open
  /\ UNCHANGED <<fn, fd, tries, moved, input, hungUp, held>>

-----------------------------------------------------------------------------
(* tcp_destroy, udp_destroy, serial_close; the caller's descriptor is gone either way. *)

Release(f, d) ==
  /\ pc = "returned" /\ fn' = f /\ fd' = d /\ held' = held \ {d} /\ moved' = 0 /\ tries' = 0
  /\ ret' = 0 /\ pc' = IF f = "tcp_destroy" /\ d > 0 THEN "drain" ELSE "returned"
  /\ open' = IF f # "tcp_destroy" /\ d > 0 THEN [open EXCEPT ![d] = "closed"] ELSE open
  /\ UNCHANGED <<input, hungUp>>

(* After the shutdown recv gives what has arrived, then 0. *)
DrainTakes ==
  /\ pc = "drain" /\ open[fd] = "connected"
  /\ \E n \in 1 .. input : input' = input - n
  /\ UNCHANGED <<fn, pc, fd, ret, tries, moved, hungUp, open, held>>

(* A socket that listened has forgotten the shutdown: recv gives ENOTCONN each time. *)
Spins == pc = "drain" /\ open[fd] = "listening"
DrainSpins == Spins /\ UNCHANGED io

DrainEnds ==
  /\ pc = "drain" /\ ~Spins
  /\ pc' = "returned" /\ open' = [open EXCEPT ![fd] = "closed"]
  /\ UNCHANGED <<fn, fd, ret, tries, moved, input, hungUp, held>>

-----------------------------------------------------------------------------
(* The calls that wait.  tcp.c refuses descriptor 0, but not in tcp_accept. *)

Start(f, d) ==
  /\ pc = "returned" /\ fn' = f /\ fd' = d /\ moved' = 0
  /\ tries' = IF f = "tcp_send" THEN 5 ELSE 0
  /\ IF f \in TcpCalls /\ d = 0 THEN Returns(-1) ELSE pc' = "select" /\ UNCHANGED ret
  /\ UNCHANGED <<input, hungUp, open, held>>

SelectFails ==
  /\ pc = "select"
  /\ Returns(CASE fn = "tcp_accept" -> -1 [] fn = "serial_read" -> -3
               [] fn = "serial_flush" -> 0 [] OTHER -> -2)
  /\ Same

(* A slip of SelectTimesOut: serial_flush goes on after a timeout. *)
SelectTimesOutOnce ==
  /\ pc = "select"
  /\ IF fn = "serial_flush" THEN UNCHANGED <<pc, ret>>
     ELSE Returns(IF fn = "serial_read" THEN moved ELSE 0)
  /\ Same

SelectTimesOut ==
  /\ pc = "select"
  /\ Returns(IF fn = "serial_read" THEN moved ELSE 0)
  /\ Same

SelectReady ==
  /\ pc = "select"
  /\ fn \in Reads => input > 0 \/ hungUp
  /\ pc' = "call" /\ UNCHANGED ret /\ Same

(* recv, recvfrom, read, send, sendto, write or accept fails. *)
CallFails ==
  /\ pc = "call"
  /\ Returns(CASE fn = "tcp_accept" -> -2 [] fn = "serial_read" -> -4
               [] fn = "serial_flush" -> 0 [] OTHER -> -3)
  /\ Same

(* EAGAIN or EINTR in tcp_send: six times it is tried again. *)
SendAgain ==
  /\ pc = "call" /\ fn = "tcp_send" /\ tries >= 0
  /\ tries' = tries - 1
  /\ UNCHANGED <<fn, pc, fd, ret, moved, input, hungUp, open, held>>

StreamEnds ==
  /\ pc = "call" /\ fn \in Reads \ {"udp_recv"} /\ input = 0
  /\ Returns(CASE fn = "tcp_recv" -> -4 [] fn = "serial_read" -> -5 [] fn = "serial_flush" -> 0)
  /\ Same

TcpTakes ==
  /\ pc = "call" /\ fn = "tcp_recv"
  /\ \E n \in 1 .. input : n <= Size /\ Returns(n) /\ OnlyMoves(n) /\ input' = input - n

(* A datagram of n bytes, of which the caller gets what it has room for; one without any
   is an error. *)
UdpTakes ==
  /\ pc = "call" /\ fn = "udp_recv"
  /\ \E n \in 0 .. input :
       /\ Returns(CASE n = 0 -> -4 [] n \in 1 .. Size -> n [] OTHER -> Size)
       /\ OnlyMoves(n) /\ input' = input - n

(* _read takes one byte; serial_read goes on until it has all, serial_flush until there is
   none. *)
SerialTakes ==
  /\ pc = "call" /\ fn \in Serial /\ input > 0
  /\ IF fn = "serial_read" /\ moved + 1 = Wanted THEN Returns(Wanted)
     ELSE pc' = "select" /\ UNCHANGED ret
  /\ OnlyMoves(1) /\ input' = input - 1

(* A short write is an error, with the bytes on their way; a datagram goes whole. *)
Gives ==
  /\ pc = "call" /\ fn \in Writes
  /\ \E n \in 1 .. Size : /\ fn = "udp_send" => n = Size
                          /\ Returns(IF n = Size THEN n ELSE -4) /\ OnlyMoves(n)
  /\ UNCHANGED input

(* The caller cannot tell descriptor 0 from a timeout. *)
Accepts ==
  /\ pc = "call" /\ fn = "tcp_accept"
  /\ \E d \in Closed : /\ Returns(d) /\ open' = [open EXCEPT ![d] = "connected"]
                       /\ held' = held \cup ({d} \ {0})
  /\ UNCHANGED <<fn, fd, tries, moved, input, hungUp>>

-----------------------------------------------------------------------------
Caller ==
  \/ \E f \in Creates : Create(f)
  \/ \E d \in held :
       \/ \E f \in Destroys :
            (open[d] \in Use(f) \/ (f = "tcp_destroy" /\ open[d] = "listening")) /\ Release(f, d)
       \/ \E f \in Reads \cup Writes \cup {"tcp_accept"} : open[d] \in Use(f) /\ Start(f, d)

(* What the system does sooner or later if signals do not come for ever. *)
Answer ==
  \/ SetUp \/ SetUpFails \/ DrainTakes \/ DrainEnds
  \/ SelectTimesOut \/ SelectReady
  \/ CallFails \/ SendAgain \/ StreamEnds
  \/ TcpTakes \/ UdpTakes \/ SerialTakes \/ Gives \/ Accepts

IoNext == Caller \/ Answer \/ SelectFails \/ DrainSpins

IoSpec == IoInit /\ [][IoNext]_io

-----------------------------------------------------------------------------
(* What a result says is true: a count is of the bytes that moved, but for a datagram cut
   to the caller's room, and no other result hides a byte but those of a short write, of
   an empty datagram's error and of a serial line that fails midway.  Descriptors are open
   exactly as long as the caller has them; only 0 can be left behind. *)
IoTellsTruth ==
  /\ pc = "returned" =>
       /\ fn \in {"tcp_recv", "serial_read"} /\ ret >= 0 => moved = ret
       /\ fn = "udp_recv" /\ ret > 0 => moved = ret \/ (moved > ret /\ ret = Size)
       /\ fn \in Writes /\ ret >= 0 => ret \in {0, Size} /\ moved = ret
       /\ ret < 0 /\ moved > 0 => /\ fn \in {"serial_read"} \cup Writes
                                  /\ moved < Size /\ (fn \in Writes => ret = -4)
       /\ \A d \in Fds \ {0} : d \in held <=> open[d] # "closed"
  /\ \A d \in held : open[d] \notin {"closed", "fresh"}

(* Every call returns, but tcp_destroy of a socket that listened. *)
IoReturns == pc # "returned" ~> pc = "returned" \/ Spins
=============================================================================
