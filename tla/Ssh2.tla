-------------------------------- MODULE Ssh2 --------------------------------
(***************************************************************************)
(* libssh2_main of ssh2.cpp: one exchange over ssh, called by every thread *)
(* of the device dialog and by the shell and NTP dialogs, at the same      *)
(* time.  A step is one call to libssh2 or to the sockets library with the *)
(* goto that follows its failure.  A loop on LIBSSH2_ERROR_EAGAIN is a     *)
(* step that is not taken yet.                                             *)
(***************************************************************************)
EXTENDS Integers, FiniteSets

CONSTANTS
  Callers,   (* the threads that call libssh2_main            *)
  MaxUsers   (* bound: no new call once so many users counted *)

ASSUME CallersAssumption == IsFiniteSet(Callers)
ASSUME UsersAssumption   == MaxUsers \in Nat \ {0}

VARIABLES
  pc,      (* the call each thread is at, "idle" or "returned"              *)
  held,    (* what its call has acquired and not released                   *)
  ret,     (* local ret, or the value of the return that goes without it    *)
  users,   (* libssh2's global count: inits less exits                      *)
  seen,    (* the count as a thread inside libssh2_init or _exit has read it *)
  raced    (* history: the threads another one has found inside one of the two *)

sshVars == <<pc, held, ret, users, seen, raced>>

Resources == {"library", "socket", "session", "hosts", "channel"}

(* One row per call between libssh2_init and libssh2_exit: what it       *)
(* acquires and releases, where the code goes next, and its failures: ret *)
(* and the label of the goto.                                            *)
Row(gets, frees, next, fails) == [gets |-> gets, frees |-> frees, next |-> next, fails |-> fails]

Calls ==
  [connect    |-> Row({}, {}, "session",       {<<-3, "closesocket">>}),
   session    |-> Row({"session"}, {}, "handshake", {<<-4, "exit">>}),
   handshake  |-> Row({}, {}, "knownhost",     {<<-5, "free">>}),
   knownhost  |-> Row({"hosts"}, {}, "hostkey", {<<-6, "disconnect">>}),
   hostkey    |-> Row({}, {"hosts"}, "auth",   {<<-7, "disconnect">>}),
   auth       |-> Row({}, {}, "open",          {<<-8, "disconnect">>, <<-9, "disconnect">>}),
   open       |-> Row({"channel"}, {}, "exec", {<<-10, "disconnect">>}),
   exec       |-> Row({}, {}, "read",          {<<-11, "returned">>}),
   read       |-> Row({}, {}, "close",         {}),
   close      |-> Row({}, {"channel"}, "disconnect", {}),
   disconnect |-> Row({}, {}, "free",          {}),
   free       |-> Row({}, {"session"}, "exit", {}),
   closesocket |-> Row({}, {"socket"}, "returned", {})]

Places == DOMAIN Calls \union
          {"idle", "startup", "init", "initialising", "socket", "exit", "exiting", "returned"}

SshTypeOK ==
  /\ pc \in [Callers -> Places]
  /\ held \in [Callers -> SUBSET Resources]
  /\ ret \in [Callers -> -11 .. -1]
  /\ users \in Nat
  /\ seen \in [Callers -> Nat]
  /\ raced \in SUBSET Callers

SshInit ==
  /\ pc = [t \in Callers |-> "idle"]
  /\ held = [t \in Callers |-> {}]
  /\ ret = [t \in Callers |-> -1]
  /\ users = 0
  /\ seen = [t \in Callers |-> 0]
  /\ raced = {}

GoTo(t, place) == pc' = [pc EXCEPT ![t] = place]

(* A caller comes back; what its last call lost stays lost. *)
Call(t) ==
  /\ pc[t] \in {"idle", "returned"} /\ users < MaxUsers
  /\ GoTo(t, "startup")
  /\ held' = [held EXCEPT ![t] = {}]
  /\ ret' = [ret EXCEPT ![t] = -1]
  /\ UNCHANGED <<users, seen, raced>>

(* WSAStartup; its failure returns the ret that success returns too. *)
Startup(t) ==
  /\ pc[t] = "startup"
  /\ GoTo(t, "init") \/ GoTo(t, "returned")
  /\ UNCHANGED <<held, ret, users, seen, raced>>

(* The calls of the library that use its global count. *)
Counting == {"initialising", "exiting"}

ReadCount(t, place) ==
  /\ GoTo(t, place)
  /\ seen' = [seen EXCEPT ![t] = users]
  /\ raced' = raced \union {u \in Callers \ {t} : pc[u] \in Counting}
  /\ UNCHANGED <<held, ret, users>>

InitReads(t) == pc[t] = "init" /\ ReadCount(t, "initialising")

InitWrites(t) ==
  /\ pc[t] = "initialising"
  /\ users' = seen[t] + 1
  /\ held' = [held EXCEPT ![t] = @ \union {"library"}]
  /\ GoTo(t, "socket")
  /\ UNCHANGED <<ret, seen, raced>>

(* A slip of InitFails: it goes to failed_session_init, which exits the library. *)
InitFailsToExit(t) ==
  /\ pc[t] = "initialising"
  /\ ret' = [ret EXCEPT ![t] = -2]
  /\ GoTo(t, "exit")
  /\ UNCHANGED <<held, users, seen, raced>>

InitFails(t) ==
  /\ pc[t] = "initialising"
  /\ ret' = [ret EXCEPT ![t] = -2]
  /\ GoTo(t, "returned")
  /\ UNCHANGED <<held, users, seen, raced>>

(* socket(); its result is not checked, connect fails without one. *)
OpenSocket(t) ==
  /\ pc[t] = "socket"
  /\ \E got \in SUBSET {"socket"} : held' = [held EXCEPT ![t] = @ \union got]
  /\ GoTo(t, "connect")
  /\ UNCHANGED <<ret, users, seen, raced>>

(* A slip of Succeed: the known hosts are not freed after the check. *)
SucceedKeepsHosts(t) ==
  /\ pc[t] \in DOMAIN Calls
  /\ pc[t] = "connect" => "socket" \in held[t]
  /\ LET step == Calls[pc[t]] IN
       /\ held' = [held EXCEPT ![t] = (@ \union step.gets) \ (step.frees \ {"hosts"})]
       /\ GoTo(t, step.next)
  /\ UNCHANGED <<ret, users, seen, raced>>

Succeed(t) ==
  /\ pc[t] \in DOMAIN Calls
  /\ pc[t] = "connect" => "socket" \in held[t]
  /\ LET step == Calls[pc[t]] IN
       /\ held' = [held EXCEPT ![t] = (@ \union step.gets) \ step.frees]
       /\ GoTo(t, step.next)
  /\ UNCHANGED <<ret, users, seen, raced>>

(* A slip of Fail: failed_session_init stands before libssh2_session_free. *)
FailOneLabelHigh(t) ==
  /\ pc[t] \in DOMAIN Calls
  /\ \E fail \in Calls[pc[t]].fails :
       /\ ret' = [ret EXCEPT ![t] = fail[1]]
       /\ GoTo(t, IF fail[2] = "exit" THEN "free" ELSE fail[2])
  /\ UNCHANGED <<held, users, seen, raced>>

Fail(t) ==
  /\ pc[t] \in DOMAIN Calls
  /\ \E fail \in Calls[pc[t]].fails :
       /\ ret' = [ret EXCEPT ![t] = fail[1]]
       /\ GoTo(t, fail[2])
  /\ UNCHANGED <<held, users, seen, raced>>

(* The session does not block: libssh2_channel_free and                  *)
(* libssh2_session_free may answer LIBSSH2_ERROR_EAGAIN, which the code  *)
(* does not look at.                                                     *)
StayBusy(t) ==
  /\ pc[t] \in {"close", "free"}
  /\ GoTo(t, Calls[pc[t]].next)
  /\ UNCHANGED <<held, ret, users, seen, raced>>

ExitReads(t) == pc[t] = "exit" /\ ReadCount(t, "exiting")

(* libssh2_exit does nothing when nobody is counted. *)
ExitWrites(t) ==
  /\ pc[t] = "exiting"
  /\ users' = IF seen[t] = 0 THEN users ELSE seen[t] - 1
  /\ held' = [held EXCEPT ![t] = @ \ {"library"}]
  /\ GoTo(t, "closesocket")
  /\ UNCHANGED <<ret, seen, raced>>

SshNext == \E t \in Callers :
  \/ Call(t) \/ Startup(t)
  \/ InitReads(t) \/ InitWrites(t) \/ InitFails(t)
  \/ OpenSocket(t) \/ Succeed(t) \/ Fail(t) \/ StayBusy(t)
  \/ ExitReads(t) \/ ExitWrites(t)

SshSpec == SshInit /\ [][SshNext]_sshVars

-----------------------------------------------------------------------------
(* What the call at each place is given. *)
Needs(place) ==
  CASE place \in {"socket", "connect"} -> {"library"}
    [] place \in {"session", "exit", "exiting"} -> {"library", "socket"}
    [] place \in {"handshake", "knownhost", "auth", "open", "disconnect", "free"}
         -> {"library", "socket", "session"}
    [] place = "hostkey" -> {"library", "socket", "session", "hosts"}
    [] place \in {"exec", "read", "close"} -> {"library", "socket", "session", "channel"}
    [] OTHER -> {}

(* Every call of the exchange, those behind the labels of its gotos too,  *)
(* is given what was acquired before it and not yet released: no failure  *)
(* goes to a label that releases what was never acquired, or releases it  *)
(* a second time.                                                         *)
HoldsWhatItUses == \A t \in Callers : Needs(pc[t]) \subseteq held[t]

(* What a return with each ret leaves acquired: failed_connect is behind  *)
(* the call of libssh2_exit, failed_fingerprint behind                    *)
(* libssh2_knownhost_free, and -11 is returned where it occurs.           *)
Lost(code) ==
  CASE code = -3  -> {"library"}
    [] code = -7  -> {"hosts"}
    [] code = -11 -> {"library", "socket"}
    [] OTHER      -> {}

(* A call that returns has closed its socket, left the library and freed  *)
(* the known hosts, whatever failed, but for the three errors of Lost. A   *)
(* session or a channel may stay: their release may be refused.           *)
ReturnsRelease ==
  \A t \in Callers : pc[t] = "returned" =>
     held[t] \ {"session", "channel"} \subseteq Lost(ret[t])

(* The threads that are between their libssh2_init and libssh2_exit. *)
Using == {t \in Callers : "library" \in held[t]}

(* libssh2.h says of libssh2_init "you must make sure this function is    *)
(* not called concurrently", and nothing in the program does. As long as  *)
(* it did not happen, the library counts each call that uses it, so that   *)
(* one call's libssh2_exit never takes the library down under another.    *)
LibraryIsUp == raced = {} => users >= Cardinality(Using)
=============================================================================
