------------------------------- MODULE EventLoop -------------------------------
(***************************************************************************)
(* The osi library's event loop: a sorted list of timers (timer.c), a      *)
(* table of files (file_event.c) and the loop of run_main that serves them *)
(* in turn.  Everything runs on one thread; what can interfere is the code *)
(* of the handlers themselves, which may set and cancel timers, register   *)
(* and unregister files while the loop walks over both.                    *)
(*                                                                         *)
(* Time is relative: due[t] is time_ms - time_mtime_ms(), and stays 0 once *)
(* the timer is late.  The code only compares, so it cannot tell.          *)
(***************************************************************************)
EXTENDS Integers, Sequences

CONSTANTS
  Timers, Delays,   (* timers, and the delays they are set to                       *)
  Files, NoFile,    (* descriptors, each with the arg of its registration           *)
  POLL_EVENT_NFD    (* the size of the table                                        *)

ASSUME DelaysAssumption == Delays \subseteq Nat
ASSUME FilesAssumption  == NoFile \notin Files
ASSUME TableAssumption  == POLL_EVENT_NFD \in Nat \ {0}

VARIABLES
  head,     (* the timers of timer_head, first one first                      *)
  due,      (* the time left of each timer, Off if it is not active           *)
  slots,    (* the table: poll and state                                      *)
  phase,    (* where run_main is: "advance", "handler", "poll", "dispatch" or
               "callback"                                                     *)
  running,  (* the timer whose handler runs                                   *)
  wait,     (* the time left of poll's timeout, Off for INT32_MAX             *)
  pos,      (* i of file_event_poll, and whether its recv part is done        *)
  reported, (* history: the file and the events poll reported of each slot, until
               they are all dispatched                                        *)
  renewed   (* history: the slots registered in the meantime                  *)

timerVars == <<head, due>>
fileVars  == <<slots, renewed>>
loopVars  == <<timerVars, fileVars, phase, running, wait, pos, reported>>

Off == -1
Slots    == 1 .. POLL_EVENT_NFD
Funcs(r, s, e) == [recv |-> r, send |-> s, eventf |-> e]  (* which functions are not NULL *)
NoFuncs        == Funcs(FALSE, FALSE, FALSE)
Entry(f, events, funcs, revents) ==
  [file |-> f, events |-> events, recv |-> funcs.recv, send |-> funcs.send,
   eventf |-> funcs.eventf, revents |-> revents]

(* Types of the loop: the list, the table and the place in the loop. *)
LoopTypeOK ==
  /\ head \in Seq(Timers)
  /\ due \in [Timers -> Nat \union {Off}]
  /\ slots \in [Slots -> [file : Files \union {NoFile}, events : SUBSET {"in", "out"},
       recv : BOOLEAN, send : BOOLEAN, eventf : BOOLEAN, revents : SUBSET {"in", "out"}]]
  /\ phase \in {"advance", "handler", "poll", "dispatch", "callback"}
  /\ running \in Timers
  /\ wait \in Nat \union {Off}
  /\ pos \in [slot : 1 .. POLL_EVENT_NFD + 1, received : BOOLEAN]
  /\ reported \in [Slots -> [file : Files \union {NoFile}, events : SUBSET {"in", "out"}]]
  /\ renewed \subseteq Slots

Nothing == [s \in Slots |-> [file |-> NoFile, events |-> {}]]

LoopInit ==
  /\ head = <<>> /\ due = [t \in Timers |-> Off]
  /\ slots = [s \in Slots |-> Entry(NoFile, {}, NoFuncs, {})]
  /\ phase = "handler" /\ running \in Timers
  /\ wait = Off /\ pos = [slot |-> 1, received |-> FALSE]
  /\ reported = Nothing /\ renewed = {}

-----------------------------------------------------------------------------
(* Calls of the library, from a handler or a callback; before the loop begins they are
   those of the program's start. *)

InHandler == phase \in {"handler", "callback"}

(* timer_cancel: t is taken out of the list, where it is looked for only when active. *)
Without(t) ==
  LET i == CHOOSE i \in DOMAIN head : head[i] = t
  IN  IF due[t] = Off THEN head
      ELSE SubSeq(head, 1, i - 1) \o SubSeq(head, i + 1, Len(head))

(* The timers of h before the first one that is later than d. *)
Earlier(h, d) ==
  CHOOSE i \in 0 .. Len(h) :
    (i < Len(h) => d < due[h[i + 1]]) /\ \A j \in 1 .. i : due[h[j]] <= d

(* A slip of timer_set: the timer is not cancelled before. *)
TimerSetAgain(t, d) ==
  /\ InHandler
  /\ due' = [due EXCEPT ![t] = d]
  /\ head' = SubSeq(head, 1, Earlier(head, d)) \o <<t>>
               \o SubSeq(head, Earlier(head, d) + 1, Len(head))
  /\ UNCHANGED <<fileVars, phase, running, wait, pos, reported>>

TimerSet(t, d) ==
  /\ InHandler
  /\ due' = [due EXCEPT ![t] = d]
  /\ LET h == Without(t)
     IN  head' = SubSeq(h, 1, Earlier(h, d)) \o <<t>> \o SubSeq(h, Earlier(h, d) + 1, Len(h))
  /\ UNCHANGED <<fileVars, phase, running, wait, pos, reported>>

TimerCancel(t) ==
  /\ InHandler
  /\ due' = [due EXCEPT ![t] = Off]
  /\ head' = Without(t)
  /\ UNCHANGED <<fileVars, phase, running, wait, pos, reported>>

(* file_event_find: the slot of the registration, or else a free one, or none. *)
Slot(f) ==
  LET own  == {s \in Slots : slots[s].file = f}
      free == {s \in Slots : slots[s].file = NoFile}
      least(S) == CHOOSE s \in S : \A r \in S : s <= r
  IN  IF own # {} THEN least(own) ELSE IF free # {} THEN least(free) ELSE 0

(* file_event_reg and file_event_reg_pollf; a full table changes nothing, and what poll
   has reported for the slot stays. *)
Register(f, events, funcs) ==
  /\ InHandler /\ Slot(f) # 0
  /\ slots' = [slots EXCEPT ![Slot(f)] = Entry(f, events, funcs, @.revents)]
  /\ renewed' = renewed \union (IF phase = "callback" THEN {Slot(f)} ELSE {})
  /\ UNCHANGED <<timerVars, phase, running, wait, pos, reported>>

FileEventReg(f, r, s) ==
  Register(f, (IF r THEN {"in"} ELSE {}) \union (IF s THEN {"out"} ELSE {}), Funcs(r, s, FALSE))

FileEventRegPollf(f, events) == Register(f, events, Funcs(FALSE, FALSE, TRUE))

(* A slip of FileEventUnreg: the functions stay. *)
FileEventUnregFd(f) ==
  /\ InHandler /\ \E s \in Slots : slots[s].file = f
  /\ slots' = [slots EXCEPT ![Slot(f)].file = NoFile, ![Slot(f)].events = {}]
  /\ UNCHANGED <<timerVars, renewed, phase, running, wait, pos, reported>>

FileEventUnreg(f) ==
  /\ InHandler /\ \E s \in Slots : slots[s].file = f
  /\ slots' = [slots EXCEPT ![Slot(f)] = Entry(NoFile, {}, NoFuncs, @.revents)]
  /\ UNCHANGED <<timerVars, renewed, phase, running, wait, pos, reported>>

-----------------------------------------------------------------------------
(* run_main. *)

(* timer_advance takes the first timer and calls its handler ... *)
Fire ==
  /\ phase = "advance" /\ head # <<>> /\ due[Head(head)] = 0
  /\ head' = Tail(head) /\ due' = [due EXCEPT ![Head(head)] = Off]
  /\ running' = Head(head) /\ phase' = "handler"
  /\ UNCHANGED <<fileVars, wait, pos, reported>>

(* ... or returns the time until it is due, which is the timeout of poll. *)
StartPoll ==
  /\ phase = "advance" /\ (head # <<>> => due[Head(head)] > 0)
  /\ wait' = IF head = <<>> THEN Off ELSE due[Head(head)]
  /\ phase' = "poll"
  /\ UNCHANGED <<timerVars, fileVars, running, pos, reported>>

(* poll reports any events it was asked for. *)
PollReports ==
  /\ phase = "poll" /\ phase' = "dispatch"
  /\ \E r \in [Slots -> SUBSET {"in", "out"}] :
       /\ \A s \in Slots : r[s] \subseteq slots[s].events
       /\ \E s \in Slots : r[s] # {}
       /\ slots' = [s \in Slots |-> [slots[s] EXCEPT !.revents = r[s]]]
       /\ reported' = [s \in Slots |-> IF r[s] = {} THEN Nothing[s]
                                      ELSE [file |-> slots[s].file, events |-> r[s]]]
  /\ pos' = [slot |-> 1, received |-> FALSE]
  /\ UNCHANGED <<timerVars, renewed, running, wait>>

(* Its time is over, or it was interrupted, and the loop begins again. *)
PollEnds ==
  /\ phase = "poll" /\ wait = 0 /\ phase' = "advance"
  /\ slots' = [s \in Slots |-> [slots[s] EXCEPT !.revents = {}]]
  /\ UNCHANGED <<timerVars, renewed, running, wait, pos, reported>>

PollFails ==
  /\ phase = "poll" /\ phase' = "advance"
  /\ UNCHANGED <<timerVars, fileVars, running, wait, pos, reported>>

NextSlot == [slot |-> pos.slot + 1, received |-> FALSE]

(* The slot file_event_poll looks at, and which function of it is to be called now. *)
Here     == slots[pos.slot]
ByEventf == ~pos.received /\ Here.eventf /\ Here.revents \intersect Here.events # {}
ByRecv   == ~pos.received /\ ~ByEventf /\ Here.recv /\ "in" \in Here.revents
BySend   == ~ByEventf /\ ~ByRecv /\ Here.send /\ "out" \in Here.revents

(* The function that runs in phase "callback", by what is done when it returns. *)
Call ==
  /\ phase = "dispatch" /\ pos.slot \in Slots
  /\ ByEventf \/ ByRecv \/ BySend
  /\ phase' = "callback"
  /\ pos' = IF ByRecv THEN [pos EXCEPT !.received = TRUE] ELSE NextSlot
  /\ UNCHANGED <<timerVars, fileVars, running, wait, reported>>

Skip ==
  /\ phase = "dispatch" /\ pos.slot \in Slots
  /\ ~ByEventf /\ ~ByRecv /\ ~BySend
  /\ pos' = NextSlot
  /\ UNCHANGED <<timerVars, fileVars, phase, running, wait, reported>>

(* A slip of EndDispatch: it polls again without a look at the timers. *)
EndDispatchPolls ==
  /\ phase = "dispatch" /\ pos.slot \notin Slots
  /\ phase' = "poll" /\ reported' = Nothing /\ renewed' = {}
  /\ UNCHANGED <<timerVars, slots, running, wait, pos>>

EndDispatch ==
  /\ phase = "dispatch" /\ pos.slot \notin Slots
  /\ phase' = "advance" /\ reported' = Nothing /\ renewed' = {}
  /\ UNCHANGED <<timerVars, slots, running, wait, pos>>

Return ==
  /\ InHandler
  /\ phase' = IF phase = "handler" THEN "advance" ELSE "dispatch"
  /\ UNCHANGED <<timerVars, fileVars, running, wait, pos, reported>>

(* Time passes. *)
Tick ==
  /\ due'  = [t \in Timers |-> IF due[t] > 0 THEN due[t] - 1 ELSE due[t]]
  /\ wait' = IF phase = "poll" /\ wait > 0 THEN wait - 1 ELSE wait
  /\ UNCHANGED <<head, fileVars, phase, running, pos, reported>>

-----------------------------------------------------------------------------
(* What the thread does when it is not in a handler and not asleep; poll is sure to
   end only with its time. *)
LoopRuns == Fire \/ StartPoll \/ PollEnds \/ Call \/ Skip \/ EndDispatch
LoopStep == LoopRuns \/ PollReports \/ PollFails \/ Tick

LoopNext ==
  \/ LoopStep \/ Return
  \/ \E t \in Timers : TimerCancel(t) \/ \E d \in Delays : TimerSet(t, d)
  \/ \E f \in Files : \/ \E r, s \in BOOLEAN : FileEventReg(f, r, s)
                      \/ \E v \in SUBSET {"in", "out"} : FileEventRegPollf(f, v)
                      \/ FileEventUnreg(f)

LoopSpec == LoopInit /\ [][LoopNext]_loopVars

-----------------------------------------------------------------------------
(* Properties of the loop, whatever the handlers do. *)

(* Exactly the active timers are in the list, once each and by their time, however
   handlers set and cancel them again; timer_advance looks at no timer but the first. *)
TimersAreListed ==
  /\ \A t \in Timers : due[t] # Off <=> \E i \in DOMAIN head : head[i] = t
  /\ \A i, j \in DOMAIN head : i < j => head[i] # head[j] /\ due[head[i]] <= due[head[j]]

(* While the program sleeps in poll, it does so no longer than any timer has time. *)
WakesForFirst ==
  phase = "poll" => \A t \in Timers : due[t] # Off => wait # Off /\ wait <= due[t]

(* No timer is forgotten or late, also when handlers set, cancel and re-set timers while
   timer_advance or poll is at work. *)
TimersAreKept == TimersAreListed /\ WakesForFirst

(* A function of a slot is called only for an event that poll reported of this slot: recv
   for "in", send for "out", although functions called before it may have changed the
   table.  It is the function of the file that was polled, or of one that was registered in
   the slot since; that one gets an event that may be another file's. *)
OnlyReportedEvents ==
  [][ phase = "dispatch" /\ phase' = "callback" =>
        LET polled == reported[pos.slot]
        IN  /\ polled.events # {}
            /\ pos'.received => "in" \in polled.events
            /\ ~pos'.received /\ ~Here.eventf => "out" \in polled.events
            /\ Here.file = polled.file \/ pos.slot \in renewed ]_loopVars

(* Every timer that is due is served, whatever happens on the files. *)
DueTimersFire == \A t \in Timers : due[t] = 0 ~> due[t] # 0
=============================================================================
