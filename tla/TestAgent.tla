------------------------------- MODULE TestAgent -------------------------------
(***************************************************************************)
(* The test target, the stand-in for a gateway: an event queue served by a *)
(* timer (test.c) on the event loop of main.c.  test_push appends an event *)
(* and sets the step timer, whose handler test_run takes one event and     *)
(* sets it again, unless the event is NULL: nothing keeps a caller from    *)
(* pushing that.  The queue is a lockqueue, that is a list of which Deque  *)
(* is the specification; its mutex does nothing, all runs on one thread.   *)
(***************************************************************************)
EXTENDS EventLoop

CONSTANTS
  step,       (* ee.step_timer                                            *)
  udp,        (* ee.fd with the arg NULL                                  *)
  StepDelay,  (* the ten milliseconds of test_step                        *)
  MaxPushes   (* bound: the calls of test_push                            *)

ASSUME StepAssumption == step \in Timers /\ udp \in Files
ASSUME PushAssumption == StepDelay \in Nat \ {0} /\ MaxPushes \in Nat

VARIABLES
  eq,      (* ee.eq, front first; events are numbered as they are pushed      *)
  e,       (* the event test_run took last, 0 before the first                *)
  pushes,  (* the number of events pushed                                     *)
  nulls,   (* those of them that are NULL                                     *)
  left,    (* history: test_run left the queue for a NULL event, and nothing
              was pushed since                                                *)
  run      (* "setup" before test_init; in test_run "popped", then "stepped";
              otherwise "idle"                                                *)

agentVars == <<eq, e, pushes, nulls, left, run>>
vars      == <<loopVars, agentVars>>

Queue == INSTANCE Deque WITH queue <- eq, out <- e, Data <- 1 .. MaxPushes, NoData <- 0

(* Types of the loop and of the queue. *)
TypeOK ==
  /\ LoopTypeOK /\ Queue!TypeOK
  /\ pushes \in 0 .. MaxPushes /\ left \in BOOLEAN /\ nulls \subseteq 1 .. pushes
  /\ run \in {"setup", "idle", "popped", "stepped"}

Init ==
  /\ LoopInit /\ running # step
  /\ Queue!Init /\ pushes = 0 /\ nulls = {} /\ left = FALSE /\ run = "setup"

(* test_init, called by run_main before its loop. *)
TestInit ==
  /\ run = "setup" /\ run' = "idle"
  /\ FileEventReg(udp, TRUE, FALSE)
  /\ UNCHANGED <<eq, e, pushes, nulls, left>>

-----------------------------------------------------------------------------
(* test_run, the handler of the step timer. *)
InTestRun == phase = "handler" /\ running = step

(* A slip of TestPop: lockqueue_pop_back, which takes the newest event. *)
TestPopNewest ==
  /\ InTestRun /\ run = "idle" /\ run' = "popped"
  /\ Queue!PopFront
  /\ UNCHANGED <<loopVars, pushes, nulls, left>>

(* A slip of TestPop: the result of lockqueue_pop is not looked at. *)
TestPopUnchecked ==
  /\ InTestRun /\ run = "idle" /\ run' = "popped"
  /\ Queue!PopBack \/ (eq = <<>> /\ e' = -1 /\ UNCHANGED eq)
  /\ UNCHANGED <<loopVars, pushes, nulls, left>>

(* lockqueue_pop. *)
TestPop ==
  /\ InTestRun /\ run = "idle" /\ run' = "popped"
  /\ Queue!PopBack
  /\ UNCHANGED <<loopVars, pushes, nulls, left>>

(* A slip of TestStep: the timer is not set again. *)
TestStepNot ==
  /\ InTestRun /\ run = "popped" /\ e \notin nulls /\ run' = "stepped"
  /\ UNCHANGED <<loopVars, eq, e, pushes, nulls, left>>

(* The event is freed and test_step cancels and sets the timer. *)
TestStep ==
  /\ InTestRun /\ run = "popped" /\ e \notin nulls /\ run' = "stepped"
  /\ TimerSet(step, StepDelay)
  /\ UNCHANGED <<eq, e, pushes, nulls, left>>

(* test_run returns, at once if the queue is empty, and without test_step if the event it
   has taken is NULL. *)
TestRunReturns ==
  /\ InTestRun /\ run' = "idle"
  /\ \/ run = "stepped" /\ UNCHANGED left
     \/ run = "idle" /\ eq = <<>> /\ UNCHANGED left
     \/ run = "popped" /\ e \in nulls /\ left' = TRUE
  /\ Return /\ UNCHANGED <<eq, e, pushes, nulls>>

-----------------------------------------------------------------------------
(* The rest of the program, in its own handlers and callbacks: it pushes events, uses
   other timers and registers other files. *)
InApplication == InHandler /\ ~InTestRun /\ run = "idle"

(* A slip of TestPush: test_step is left out. *)
TestPushSilently ==
  /\ InApplication /\ pushes < MaxPushes /\ pushes' = pushes + 1
  /\ Queue!PushFront(pushes + 1)
  /\ nulls' \in {nulls, nulls \union {pushes + 1}}
  /\ left' = FALSE
  /\ UNCHANGED <<loopVars, run>>

(* test_push of an event, or of NULL. *)
TestPush ==
  /\ InApplication /\ pushes < MaxPushes /\ pushes' = pushes + 1
  /\ Queue!PushFront(pushes + 1)
  /\ nulls' \in {nulls, nulls \union {pushes + 1}}
  /\ TimerSet(step, StepDelay)
  /\ left' = FALSE
  /\ UNCHANGED run

UseTimer ==
  /\ InApplication /\ UNCHANGED agentVars
  /\ \E t \in Timers \ {step} : TimerCancel(t) \/ \E d \in Delays : TimerSet(t, d)

UseFile ==
  /\ InApplication /\ UNCHANGED agentVars
  /\ \E f \in Files \ {udp} :
       \/ FileEventReg(f, TRUE, TRUE)
       \/ FileEventRegPollf(f, {"in"})
       \/ FileEventUnreg(f)

(* test_in only answers the datagram. *)
ApplicationReturns == InApplication /\ Return /\ UNCHANGED agentVars

Next ==
  \/ TestInit
  \/ TestPop \/ TestStep \/ TestRunReturns
  \/ TestPush \/ UseTimer \/ UseFile \/ ApplicationReturns
  \/ LoopStep /\ UNCHANGED agentVars

(* Time passes, the one thread goes on, and the program's functions return. *)
Fairness ==
  /\ WF_vars(Tick /\ UNCHANGED agentVars)
  /\ WF_vars(LoopRuns /\ UNCHANGED agentVars)
  /\ WF_vars(TestInit \/ TestPop \/ TestStep \/ TestRunReturns \/ ApplicationReturns)

Spec == Init /\ [][Next]_vars /\ Fairness

-----------------------------------------------------------------------------
(* Properties. *)

(* The queue is served: the step timer is set, or test_run has not looked at it for the
   last time.  What a NULL event leaves behind waits for the next push, which brings the
   timer back; nothing else strands an event. *)
QueueIsServed ==
  eq # <<>> => due[step] # Off \/ InTestRun \/ left

(* Events are taken in the order in which they were pushed. *)
EventsInOrder == [][ e' # e => e' = e + 1 ]_vars

(* The queue is worked off in the end, or else a NULL event has stopped test_run after
   the last push; each push postpones the step timer, so this rests on the pushes coming
   to an end. *)
EventsAreHandled == eq # <<>> ~> eq = <<>> \/ left
=============================================================================
