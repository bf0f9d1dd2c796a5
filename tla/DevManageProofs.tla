--------------------------- MODULE DevManageProofs ---------------------------
(***************************************************************************)
(* Proofs about the device dialog and about the ssh exchange its threads    *)
(* make.                                                                   *)
(*                                                                         *)
(* First DevManage, for any number of threads and any lists.  Each         *)
(* action leaves every thread but one as it is, but for its history; what  *)
(* it does to the one is looked up in the summary below.                   *)
(***************************************************************************)
EXTENDS DevManage, Ssh2, SequenceTheorems, FiniteSetTheorems, TLAPS

Locals == [step : Steps, job : {"none", "query", "add", "del"}, live : BOOLEAN,
           mac : Devices \union {Blank}, left : Seq(Devices),
           target : Devices \union {Blank, None}, certain : BOOLEAN]

(* A query has no add or delete around it. *)
JobsHaveTheirSteps ==
  \A t \in Threads : thread[t].job = "query" =>
    thread[t].step \notin {"begin", "mac", "off1", "off2", "cmd", "refusedQuery", "on1", "on2"}

(* Nothing of a dialog is left when it is closed. *)
ClosedIsOver ==
  ui = "closed" => /\ \A b \in {"query", "add"} : buttons[b]
                   /\ \A t \in Threads : ~thread[t].live

(* Devices wait to be appended only between the answer and the return. *)
LeftIsOfList ==
  \A t \in Threads :
    /\ thread[t].step \notin {"lit1", "lit2", "rows", "fill"} => thread[t].left = <<>>
    /\ thread[t].step = "fill" => thread[t].left # <<>>

OnRow(d) == ui # "closed" /\ selected \in 0 .. Len(rows) - 1 /\ rows[selected + 1] = d

(* What the histories say of the menu and of the threads that delete. *)
SureIsOnRow == sure => ui = "menu" /\ OnRow(chosen)
CertainIsOnRow ==
  \A t \in Threads : thread[t].job = "del" /\ thread[t].certain =>
    /\ thread[t].step \in {"begin", "mac"} => OnRow(thread[t].target)
    /\ thread[t].step \in {"off1", "off2", "cmd"} => thread[t].mac = thread[t].target

(* The rows are the first n of an answer, the latest on top; after them comes left. *)
Shows(rs, ans, n) == Len(rs) = n /\ \A i \in 1 .. n : rs[i] = ans[n + 1 - i]
Follows(left, ans, n) == n \in Nat /\ Len(left) = Len(ans) - n /\ \A i \in DOMAIN left : left[i] = ans[n + i]

(* A thread that is alone, with these locals, has listed what it should. *)
Alone(left, step, rs, ans) ==
  LET n == Len(ans) - Len(left) IN
  /\ Follows(left, ans, n)
  /\ step \in {"dim1", "dim2", "list"} => ans = <<>>
  /\ step # "fill" => Shows(rs, ans, n)
  /\ step = "fill" => Len(rs) = n + 1 /\ \A i \in 2 .. n + 1 : rs[i] = ans[n + 2 - i]

ListsAlone(t) == Alone(thread[t].left, thread[t].step, rows, last)

RowsAreLast ==
  ~mixed => /\ \A t, u \in Alive : t = u
            /\ ui # "closed" => /\ Alive = {} => Shows(rows, last, Len(last))
                                /\ \A t \in Alive : ListsAlone(t)

-----------------------------------------------------------------------------
LEMMA SwitchSteps == DOMAIN Switch = {"off1", "off2", "dim1", "dim2", "lit1", "lit2", "on1", "on2"}
BY DEF Switch

LEMMA SwitchRows ==
  /\ Switch["off1"] = [button |-> "query", on |-> FALSE, then |-> "off2"]
  /\ Switch["off2"] = [button |-> "add",   on |-> FALSE, then |-> "cmd"]
  /\ Switch["dim1"] = [button |-> "query", on |-> FALSE, then |-> "dim2"]
  /\ Switch["dim2"] = [button |-> "add",   on |-> FALSE, then |-> "list"]
  /\ Switch["lit1"] = [button |-> "query", on |-> TRUE,  then |-> "lit2"]
  /\ Switch["lit2"] = [button |-> "add",   on |-> TRUE,  then |-> "rows"]
  /\ Switch["on1"]  = [button |-> "query", on |-> TRUE,  then |-> "on2"]
  /\ Switch["on2"]  = [button |-> "add",   on |-> TRUE,  then |-> "idle"]
BY DEF Switch

LEMMA SwitchTypes ==
  \A p \in DOMAIN Switch : Switch[p].on \in BOOLEAN
<1> SUFFICES ASSUME NEW p \in DOMAIN Switch PROVE Switch[p].on \in BOOLEAN
  OBVIOUS
<1>1. CASE p = "off1" BY <1>1, SwitchRows
<1>2. CASE p = "off2" BY <1>2, SwitchRows
<1>3. CASE p = "dim1" BY <1>3, SwitchRows
<1>4. CASE p = "dim2" BY <1>4, SwitchRows
<1>5. CASE p = "lit1" BY <1>5, SwitchRows
<1>6. CASE p = "lit2" BY <1>6, SwitchRows
<1>7. CASE p = "on1" BY <1>7, SwitchRows
<1>8. CASE p = "on2" BY <1>8, SwitchRows
<1> QED BY <1>1, <1>2, <1>3, <1>4, <1>5, <1>6, <1>7, <1>8, SwitchSteps

LEMMA StepNames ==
  Steps = {"idle", "begin", "mac", "cmd", "ask", "clear", "list", "rows", "fill",
           "refused", "refusedQuery",
           "off1", "off2", "dim1", "dim2", "lit1", "lit2", "on1", "on2"}
BY SwitchSteps DEF Steps, Boxes

LEMMA NoThreadType ==
  /\ NoThread \in Locals /\ NoThread.step = "idle" /\ NoThread.job = "none"
  /\ NoThread.live = FALSE /\ NoThread.left = <<>> /\ NoThread.certain = FALSE
  /\ NoThread = [step |-> "idle", job |-> "none", live |-> FALSE, mac |-> Blank,
                 left |-> <<>>, target |-> None, certain |-> FALSE]
<1>1. <<>> \in Seq(Devices)
  OBVIOUS
<1> QED BY <1>1, StepNames DEF NoThread, Locals

(* The threads, as TypeOK has them. *)
ThreadsOK ==
  /\ thread \in [Threads -> Locals]
  /\ \A t \in Threads : thread[t].step = "idle" => thread[t] = NoThread

(* What a thread keeps while others work: all but the certainty of its target. *)
Stays(u) ==
  /\ thread'[u] \in Locals
  /\ thread'[u].step = thread[u].step /\ thread'[u].job = thread[u].job
  /\ thread'[u].live = thread[u].live /\ thread'[u].mac = thread[u].mac
  /\ thread'[u].left = thread[u].left /\ thread'[u].target = thread[u].target
  /\ thread'[u].certain => thread[u].certain
  /\ thread[u].step = "idle" => thread'[u] = thread[u]

(* Thread t becomes new, and others stay. *)
Becomes(t, new) ==
  /\ new \in Locals
  /\ new.step = "idle" => new = NoThread
  /\ thread'[t] = new
  /\ \A u \in Threads \ {t} : Stays(u)
  /\ DOMAIN thread' = Threads /\ thread' = [u \in Threads |-> thread'[u]]

LEMMA BecomesType ==
  ASSUME ThreadsOK, NEW t \in Threads, NEW new, Becomes(t, new)
  PROVE  ThreadsOK'
<1>1. \A u \in Threads : thread'[u] \in Locals
  BY DEF Becomes, Stays
<1>2. thread' \in [Threads -> Locals]
  BY <1>1 DEF Becomes
<1>3. \A u \in Threads : thread'[u].step = "idle" => thread'[u] = NoThread
  BY DEF ThreadsOK, Becomes, Stays
<1> QED BY <1>2, <1>3 DEF ThreadsOK

LEMMA GotoBecomes ==
  ASSUME ThreadsOK, NEW t \in Threads, NEW w \in Locals, Goto(t, w)
  PROVE  Becomes(t, IF w.step = "idle" THEN NoThread ELSE w)
<1> DEFINE new == IF w.step = "idle" THEN NoThread ELSE w
<1>1. new \in Locals /\ (new.step = "idle" => new = NoThread)
  BY NoThreadType
<1>2. thread' = [thread EXCEPT ![t] = new]
  BY DEF Goto
<1> HIDE DEF new
<1>3. /\ thread'[t] = new /\ \A u \in Threads \ {t} : thread'[u] = thread[u]
      /\ DOMAIN thread' = Threads /\ thread' = [u \in Threads |-> thread'[u]]
  BY <1>2 DEF ThreadsOK
<1>4. \A u \in Threads \ {t} : Stays(u)
  BY <1>3 DEF Stays, ThreadsOK
<1>5. Becomes(t, new)
  BY <1>1, <1>3, <1>4 DEF Becomes
<1> QED BY <1>5 DEF new

LEMMA UnsureStays ==
  ASSUME ThreadsOK, NEW u \in Threads, thread'[u] = Unsure[u]
  PROVE  /\ Stays(u)
         /\ thread[u].step \in {"begin", "mac"} => ~thread'[u].certain
<1> DEFINE c == thread[u].certain /\ thread[u].step \notin {"begin", "mac"}
<1>1. thread'[u] = [thread[u] EXCEPT !.certain = c] /\ thread[u] \in Locals
  BY DEF Unsure, ThreadsOK
<1>2. c \in BOOLEAN
  OBVIOUS
<1>3. /\ thread'[u] \in Locals /\ thread'[u].certain = c
      /\ thread'[u].step = thread[u].step /\ thread'[u].job = thread[u].job
      /\ thread'[u].live = thread[u].live /\ thread'[u].mac = thread[u].mac
      /\ thread'[u].left = thread[u].left /\ thread'[u].target = thread[u].target
  <2> HIDE DEF c
  <2> QED BY <1>1, <1>2 DEF Locals
<1>4. thread[u].step = "idle" => thread'[u] = thread[u]
  <2> SUFFICES ASSUME thread[u].step = "idle" PROVE thread'[u] = thread[u]
    OBVIOUS
  <2>1. thread[u] = NoThread
    BY DEF ThreadsOK
  <2>2. thread[u].certain = FALSE
    BY <2>1, NoThreadType
  <2>3. c = FALSE
    BY <2>2
  <2> HIDE DEF c
  <2> QED BY <1>1, <2>2, <2>3 DEF Locals
<1> QED BY <1>3, <1>4 DEF Stays

LEMMA ChangeBecomes ==
  ASSUME ThreadsOK, NEW t \in Threads, NEW w \in Locals, w.step # "idle", NEW new, ChangeRows(t, new, w)
  PROVE  /\ Becomes(t, w)
         /\ \A u \in Threads \ {t} : thread[u].step \in {"begin", "mac"} => ~thread'[u].certain
<1>1. thread' = [Unsure EXCEPT ![t] = w]
  BY DEF ChangeRows
<1>2. DOMAIN Unsure = Threads
  BY DEF Unsure
<1>3. /\ thread'[t] = w /\ \A u \in Threads \ {t} : thread'[u] = Unsure[u]
      /\ DOMAIN thread' = Threads /\ thread' = [u \in Threads |-> thread'[u]]
  BY <1>1, <1>2
<1>4. \A u \in Threads \ {t} : Stays(u) /\ (thread[u].step \in {"begin", "mac"} => ~thread'[u].certain)
  BY <1>3, UnsureStays
<1> QED BY <1>3, <1>4 DEF Becomes

-----------------------------------------------------------------------------
(* Where a thread with job j goes from step a. *)
Arrow(j, a, b) ==
  \/ a = "begin" /\ b \in {"refused", "mac"}
  \/ a = "mac" /\ b \in {"refused", "off1"}
  \/ a = "off1" /\ b = "off2"
  \/ a = "off2" /\ b = "cmd"
  \/ a = "cmd" /\ b = "ask"
  \/ a = "ask" /\ b \in {"clear", IF j = "query" THEN "refused" ELSE "refusedQuery"}
  \/ a = "clear" /\ b = "dim1"
  \/ a = "dim1" /\ b = "dim2"
  \/ a = "dim2" /\ b = "list"
  \/ a = "list" /\ b = "lit1"
  \/ a = "lit1" /\ b = "lit2"
  \/ a = "lit2" /\ b = "rows"
  \/ a = "rows" /\ b \in {"fill", IF j = "query" THEN "idle" ELSE "on1"}
  \/ a = "fill" /\ b = "rows"
  \/ a = "on1" /\ b = "on2"
  \/ a = "on2" /\ b = "idle"
  \/ a = "refused" /\ b = "idle"
  \/ a = "refusedQuery" /\ b = "on1"

(* Summary of a thread's step. *)
Goes(t) ==
  LET old == thread[t] IN
  LET new == thread'[t] IN
  /\ Becomes(t, new)
  /\ Arrow(old.job, old.step, new.step)
  /\ new.step # "idle" => new.job = old.job /\ new.live = old.live
  /\ old.step \notin {"list", "fill"} /\ new.step # "idle" => new.left = old.left

LEMMA GotoGoes ==
  ASSUME ThreadsOK, NEW t \in Threads, NEW w \in Locals, Goto(t, w),
         Arrow(thread[t].job, thread[t].step, w.step),
         w.job = thread[t].job, w.live = thread[t].live,
         thread[t].step # "list" => w.left = thread[t].left
  PROVE  /\ Goes(t)
         /\ w.step # "idle" => thread'[t] = w
         /\ w.step = "idle" => thread'[t] = NoThread
         /\ \A u \in Threads \ {t} : thread'[u] = thread[u]
<1> DEFINE new == IF w.step = "idle" THEN NoThread ELSE w
<1>1. Becomes(t, new)
  BY GotoBecomes
<1>2. thread'[t] = new
  BY <1>1 DEF Becomes
<1>3. new.step = w.step
  BY NoThreadType
<1>4. \A u \in Threads \ {t} : thread'[u] = thread[u]
  BY DEF Goto, ThreadsOK
<1>5. w.step # "idle" => new = w
  OBVIOUS
<1>6. w.step = "idle" => new = NoThread
  OBVIOUS
<1> HIDE DEF new
<1>7. Goes(t)
  BY <1>1, <1>2, <1>3, <1>5 DEF Goes
<1> QED BY <1>2, <1>4, <1>5, <1>6, <1>7

(* What the threads' actions do to the thread, and to the others' certainty. *)
LEMMA ReadAddressGoes ==
  ASSUME ThreadsOK, NEW t \in Threads, ReadAddress(t)
  PROVE  /\ Goes(t) /\ thread[t].step = "begin"
         /\ thread'[t].target = thread[t].target /\ thread'[t].certain = thread[t].certain
<1>1. PICK next \in {"refused", "mac"} : Goto(t, [thread[t] EXCEPT !.step = next])
  BY DEF ReadAddress
<1> DEFINE w == [thread[t] EXCEPT !.step = next]
<1>2. thread[t] \in Locals /\ thread[t].step = "begin"
  BY DEF ThreadsOK, ReadAddress
<1>3. /\ w \in Locals /\ w.step = next /\ w.job = thread[t].job /\ w.live = thread[t].live
      /\ w.left = thread[t].left /\ w.target = thread[t].target /\ w.certain = thread[t].certain
  BY <1>2, StepNames DEF Locals
<1>4. Goto(t, w)
  BY <1>1
<1> HIDE DEF w
<1>5. Arrow(thread[t].job, thread[t].step, w.step) /\ w.step # "idle"
  BY <1>2, <1>3 DEF Arrow
<1> QED BY <1>2, <1>3, <1>4, <1>5, GotoGoes

LEMMA ReadMacGoes ==
  ASSUME TypeOK, ThreadsOK, NEW t \in Threads, ReadMac(t)
  PROVE  /\ Goes(t) /\ thread[t].step = "mac"
         /\ thread'[t].target = thread[t].target /\ thread'[t].certain = thread[t].certain
         /\ thread[t].job = "del" => thread'[t].mac = CommMac
<1>1. thread[t] \in Locals /\ thread[t].step = "mac"
  BY DEF ThreadsOK, ReadMac
<1>2. PICK next \in {"refused", "off1"}, m \in Devices \union {Blank} :
        /\ Goto(t, [thread[t] EXCEPT !.mac = m, !.step = next])
        /\ thread[t].job = "del" => m = CommMac
  <2>1. CASE thread[t].job = "del"
    <3>1. CommMac \in Devices \union {Blank}
      <4>1. CASE ui # "closed" /\ selected \in 0 .. Len(rows) - 1
        <5>1. selected + 1 \in 1 .. Len(rows)
          BY <4>1 DEF TypeOK
        <5>2. rows[selected + 1] \in Devices \union {Blank}
          BY <5>1, ElementOfSeq DEF TypeOK
        <5> QED BY <4>1, <5>2 DEF CommMac
      <4>2. CASE ~(ui # "closed" /\ selected \in 0 .. Len(rows) - 1)
        BY <4>2, DefaultAssumption DEF CommMac
      <4> QED BY <4>1, <4>2
    <3>2. (IF CommMac = Blank THEN "refused" ELSE "off1") \in {"refused", "off1"}
      OBVIOUS
    <3> QED BY <2>1, <3>1, <3>2 DEF ReadMac
  <2>2. CASE thread[t].job # "del"
    <3>1. PICK next \in {"refused", "off1"} : Goto(t, [thread[t] EXCEPT !.step = next])
      BY <2>2 DEF ReadMac
    <3>2. PICK m \in Devices \union {Blank} : m = thread[t].mac
      BY <1>1 DEF Locals
    <3>3. [thread[t] EXCEPT !.step = next] = [thread[t] EXCEPT !.mac = m, !.step = next]
      BY <1>1, <3>2 DEF Locals
    <3> QED BY <2>2, <3>1, <3>3
  <2> QED BY <2>1, <2>2
<1> DEFINE w == [thread[t] EXCEPT !.mac = m, !.step = next]
<1>3. /\ w \in Locals /\ w.step = next /\ w.job = thread[t].job /\ w.live = thread[t].live
      /\ w.left = thread[t].left /\ w.target = thread[t].target /\ w.certain = thread[t].certain
      /\ w.mac = m
  BY <1>1, StepNames DEF Locals
<1>4. Goto(t, w)
  BY <1>2
<1> HIDE DEF w
<1>5. Arrow(thread[t].job, thread[t].step, w.step) /\ w.step # "idle"
  BY <1>1, <1>3 DEF Arrow
<1> QED BY <1>1, <1>2, <1>3, <1>4, <1>5, GotoGoes

LEMMA SwitchGoes ==
  ASSUME ThreadsOK, NEW t \in Threads, SwitchButton(t)
  PROVE  LET sw == Switch[thread[t].step] IN
         /\ Goes(t) /\ thread[t].step \in DOMAIN Switch /\ thread'[t].step = sw.then
         /\ thread[t].step # "on2" => thread'[t].mac = thread[t].mac
         /\ thread[t].step # "on2" => thread'[t].target = thread[t].target
         /\ thread[t].step # "on2" => thread'[t].certain = thread[t].certain
<1>1. thread[t] \in Locals /\ thread[t].step \in DOMAIN Switch
  BY DEF ThreadsOK, SwitchButton
<1> DEFINE next == Switch[thread[t].step].then
           w == [thread[t] EXCEPT !.step = next]
<1>2. /\ Arrow(thread[t].job, thread[t].step, next) /\ next \in Steps
      /\ next = "idle" <=> thread[t].step = "on2"
  BY <1>1, SwitchSteps, SwitchRows, StepNames DEF Arrow
<1>3. Goto(t, w)
  BY DEF SwitchButton
<1> HIDE DEF next
<1>4. /\ w \in Locals /\ w.step = next /\ w.job = thread[t].job /\ w.live = thread[t].live
      /\ w.left = thread[t].left /\ w.target = thread[t].target /\ w.certain = thread[t].certain
      /\ w.mac = thread[t].mac
  BY <1>1, <1>2 DEF Locals
<1> HIDE DEF w
<1>5. /\ Goes(t) /\ (w.step # "idle" => thread'[t] = w)
      /\ w.step = "idle" => thread'[t] = NoThread
  BY <1>2, <1>3, <1>4, GotoGoes
<1>6. thread'[t].step = next
  BY <1>4, <1>5, NoThreadType
<1> QED BY <1>1, <1>2, <1>4, <1>5, <1>6 DEF next

LEMMA CommandGoes ==
  ASSUME ThreadsOK, NEW t \in Threads, Command(t)
  PROVE  Goes(t) /\ thread[t].step = "cmd" /\ ~thread'[t].certain
<1> DEFINE w == [thread[t] EXCEPT !.step = "ask", !.mac = Blank, !.target = None, !.certain = FALSE]
<1>1. thread[t] \in Locals /\ thread[t].step = "cmd" /\ Goto(t, w)
  BY DEF ThreadsOK, Command
<1>2. /\ w \in Locals /\ w.step = "ask" /\ w.job = thread[t].job /\ w.live = thread[t].live
      /\ w.left = thread[t].left /\ ~w.certain
  BY <1>1, StepNames DEF Locals
<1> HIDE DEF w
<1>3. Arrow(thread[t].job, thread[t].step, w.step) /\ w.step # "idle"
  BY <1>1, <1>2 DEF Arrow
<1> QED BY <1>1, <1>2, <1>3, GotoGoes

LEMMA ElseGoes ==
  ASSUME ThreadsOK, NEW t \in Threads, Ask(t) \/ Dismiss(t) \/ Return(t)
  PROVE  /\ Goes(t)
         /\ thread'[t].step \in {"clear", "refused", "refusedQuery", "idle", "on1"}
         /\ thread[t].step \in {"ask", "rows", "refused", "refusedQuery"}
<1>1. PICK next : /\ Goto(t, [thread[t] EXCEPT !.step = next])
                  /\ Arrow(thread[t].job, thread[t].step, next)
                  /\ next \in {"clear", "refused", "refusedQuery", "idle", "on1"}
                  /\ thread[t].step \in {"ask", "rows", "refused", "refusedQuery"}
  <2>1. CASE Ask(t)
    BY <2>1 DEF Ask, Arrow
  <2>2. CASE Dismiss(t)
    BY <2>2 DEF Dismiss, Boxes, Arrow
  <2>3. CASE Return(t)
    BY <2>3 DEF Return, Arrow
  <2> QED BY <2>1, <2>2, <2>3
<1> DEFINE w == [thread[t] EXCEPT !.step = next]
<1>2. thread[t] \in Locals
  BY DEF ThreadsOK
<1>3. /\ w \in Locals /\ w.step = next /\ w.job = thread[t].job /\ w.live = thread[t].live
      /\ w.left = thread[t].left
  BY <1>1, <1>2, StepNames DEF Locals
<1>4. Goto(t, w)
  BY <1>1
<1> HIDE DEF w
<1>5. /\ Goes(t) /\ (w.step # "idle" => thread'[t] = w) /\ (w.step = "idle" => thread'[t] = NoThread)
  BY <1>1, <1>3, <1>4, GotoGoes
<1> QED BY <1>1, <1>3, <1>5, NoThreadType

LEMMA ListGoes ==
  ASSUME ThreadsOK, NEW t \in Threads, List(t)
  PROVE  /\ Goes(t) /\ thread[t].step = "list" /\ thread'[t].step = "lit1"
         /\ thread'[t].left \in Lists /\ last' = IF mixed THEN <<>> ELSE thread'[t].left
<1>1. PICK s \in Lists : /\ last' = IF mixed THEN <<>> ELSE s
                         /\ Goto(t, [thread[t] EXCEPT !.left = s, !.step = "lit1"])
  BY DEF List
<1> DEFINE w == [thread[t] EXCEPT !.left = s, !.step = "lit1"]
<1>2. thread[t] \in Locals /\ thread[t].step = "list" /\ Goto(t, w) /\ s \in Seq(Devices)
  BY <1>1, ListsAssumption DEF ThreadsOK, List
<1>3. /\ w \in Locals /\ w.step = "lit1" /\ w.job = thread[t].job /\ w.live = thread[t].live
      /\ w.left = s
  BY <1>2, StepNames DEF Locals
<1> HIDE DEF w
<1>4. Arrow(thread[t].job, thread[t].step, w.step) /\ w.step # "idle"
  BY <1>2, <1>3 DEF Arrow
<1>5. Goes(t) /\ thread'[t] = w
  BY <1>2, <1>3, <1>4, GotoGoes
<1> QED BY <1>1, <1>2, <1>3, <1>5

(* Clear, Insert and Fill. *)
LEMMA ChangeGoes ==
  ASSUME TypeOK, ThreadsOK, LeftIsOfList, NEW t \in Threads, Clear(t) \/ Insert(t) \/ Fill(t)
  PROVE  /\ Goes(t)
         /\ thread'[t].step = CASE Clear(t) -> "dim1" [] Insert(t) -> "fill" [] OTHER -> "rows"
         /\ Fill(t) => thread'[t].left = Tail(thread[t].left)
         /\ \A u \in Threads \ {t} : thread[u].step \in {"begin", "mac"} => ~thread'[u].certain
<1>0. thread[t] \in Locals /\ thread[t].left \in Seq(Devices)
  BY DEF ThreadsOK, Locals
<1>s. /\ Clear(t) => thread[t].step = "clear"
      /\ Insert(t) => thread[t].step = "rows"
      /\ Fill(t) => thread[t].step = "fill" /\ thread[t].left # <<>>
  BY DEF Clear, Insert, Fill, LeftIsOfList
<1>1. ASSUME NEW next \in {"dim1", "fill", "rows"}, NEW left \in Seq(Devices),
             NEW new, ChangeRows(t, new, [thread[t] EXCEPT !.left = left, !.step = next]),
             Arrow(thread[t].job, thread[t].step, next),
             thread[t].step # "fill" => left = thread[t].left
      PROVE  /\ Goes(t) /\ thread'[t].step = next /\ thread'[t].left = left
             /\ \A u \in Threads \ {t} : thread[u].step \in {"begin", "mac"} => ~thread'[u].certain
  <2> DEFINE w == [thread[t] EXCEPT !.left = left, !.step = next]
  <2>1. /\ w \in Locals /\ w.step = next /\ w.job = thread[t].job /\ w.live = thread[t].live
        /\ w.left = left
    BY <1>0, <1>1, StepNames DEF Locals
  <2>2. ChangeRows(t, new, w)
    BY <1>1
  <2> HIDE DEF w
  <2>3. /\ Becomes(t, w)
        /\ \A u \in Threads \ {t} : thread[u].step \in {"begin", "mac"} => ~thread'[u].certain
    BY <1>1, <2>1, <2>2, ChangeBecomes
  <2>4. thread'[t] = w
    BY <2>3 DEF Becomes
  <2> QED BY <1>1, <2>1, <2>3, <2>4 DEF Goes
<1>k. \A next : [thread[t] EXCEPT !.left = thread[t].left, !.step = next] = [thread[t] EXCEPT !.step = next]
  BY <1>0 DEF Locals
<1>2. CASE Clear(t)
  <2>1. ChangeRows(t, <<>>, [thread[t] EXCEPT !.left = thread[t].left, !.step = "dim1"])
    BY <1>2, <1>k DEF Clear
  <2>2. Arrow(thread[t].job, thread[t].step, "dim1") /\ ~Fill(t) /\ ~Insert(t)
    BY <1>s, <1>2 DEF Arrow
  <2> QED BY <1>0, <1>s, <1>1, <1>2, <2>1, <2>2
<1>3. CASE Insert(t)
  <2>1. ChangeRows(t, <<Blank>> \o rows, [thread[t] EXCEPT !.left = thread[t].left, !.step = "fill"])
    BY <1>3, <1>k DEF Insert
  <2>2. Arrow(thread[t].job, thread[t].step, "fill") /\ ~Fill(t) /\ ~Clear(t)
    BY <1>s, <1>3 DEF Arrow
  <2> QED BY <1>0, <1>s, <1>1, <1>3, <2>1, <2>2
<1>4. CASE Fill(t)
  <2> DEFINE new == IF rows = <<>> THEN rows ELSE [rows EXCEPT ![1] = Head(thread[t].left)]
             left == Tail(thread[t].left)
  <2>1. ChangeRows(t, new, [thread[t] EXCEPT !.left = left, !.step = "rows"])
    BY <1>4 DEF Fill
  <2>2. Arrow(thread[t].job, thread[t].step, "rows") /\ ~Clear(t) /\ ~Insert(t)
    BY <1>s, <1>4 DEF Arrow
  <2>3. left \in Seq(Devices)
    BY <1>0, <1>s, <1>4
  <2> HIDE DEF new, left
  <2>4. /\ Goes(t) /\ thread'[t].step = "rows" /\ thread'[t].left = left
        /\ \A u \in Threads \ {t} : thread[u].step \in {"begin", "mac"} => ~thread'[u].certain
    BY <1>s, <1>1, <1>4, <2>1, <2>2, <2>3
  <2> QED BY <1>4, <2>2, <2>4 DEF left
<1> QED BY <1>2, <1>3, <1>4

(* Each step of a thread is one of the arrows. *)
LEMMA ThreadsGo ==
  ASSUME TypeOK, ThreadsOK, LeftIsOfList, NEW t \in Threads, Run(t) \/ Dismiss(t)
  PROVE  /\ Goes(t)
         /\ thread[t].step = "rows" => (thread'[t].step = "fill" <=> thread[t].left # <<>>)
<1>1. Goes(t)
  BY ReadAddressGoes, ReadMacGoes, SwitchGoes, CommandGoes, ElseGoes, ListGoes, ChangeGoes DEF Run
<1>2. ASSUME thread[t].step = "rows" PROVE thread'[t].step = "fill" <=> thread[t].left # <<>>
  <2>1. Insert(t) \/ Return(t)
    BY <1>2, SwitchSteps DEF Run, Dismiss, Boxes, ReadAddress, ReadMac, SwitchButton, Command, Ask,
                             Clear, List, Fill
  <2>2. CASE Insert(t)
    <3>1. ~Clear(t) /\ thread[t].left # <<>>
      BY <2>2 DEF Insert, Clear
    <3> QED BY <2>2, <3>1, ChangeGoes
  <2>3. CASE Return(t)
    BY <2>3, ElseGoes DEF Return
  <2> QED BY <2>1, <2>2, <2>3
<1> QED BY <1>1, <1>2

-----------------------------------------------------------------------------
(* What the user's actions do to the threads. *)
AllStay == (\A u \in Threads : Stays(u)) /\ thread' = [u \in Threads |-> thread'[u]]

LEMMA AllStayType ==
  ASSUME ThreadsOK, AllStay
  PROVE  ThreadsOK'
<1>1. thread' \in [Threads -> Locals]
  BY DEF AllStay, Stays
<1>2. \A u \in Threads : thread'[u].step = "idle" => thread'[u] = NoThread
  BY DEF ThreadsOK, AllStay, Stays
<1> QED BY <1>1, <1>2 DEF ThreadsOK

LEMMA SameStays ==
  ASSUME ThreadsOK, thread' = thread
  PROVE  AllStay
BY DEF ThreadsOK, AllStay, Stays

LEMMA OpenStays ==
  ASSUME ThreadsOK, Open
  PROVE  AllStay /\ \A u \in Threads : ~thread'[u].certain
<1>1. thread' = [u \in Threads |-> [thread[u] EXCEPT !.certain = FALSE]]
  BY DEF Open
<1>2. ASSUME NEW u \in Threads PROVE Stays(u) /\ ~thread'[u].certain
  <2>1. thread[u] \in Locals /\ thread'[u] = [thread[u] EXCEPT !.certain = FALSE]
    BY <1>1 DEF ThreadsOK
  <2>2. thread[u].step = "idle" => thread'[u] = thread[u]
    BY <2>1, NoThreadType DEF ThreadsOK
  <2> QED BY <2>1, <2>2 DEF Stays, Locals
<1> QED BY <1>1, <1>2 DEF AllStay

LEMMA RowMenuStays ==
  ASSUME ThreadsOK, RowMenu
  PROVE  AllStay /\ \A u \in Threads : thread[u].step \in {"begin", "mac"} => ~thread'[u].certain
<1>1. thread' = Unsure
  BY DEF RowMenu
<1>2. thread' = [u \in Threads |-> thread'[u]] /\ \A u \in Threads : thread'[u] = Unsure[u]
  BY <1>1 DEF Unsure
<1> QED BY <1>2, UnsureStays DEF AllStay

LEMMA CloseLeaves ==
  ASSUME ThreadsOK, Close
  PROVE  /\ ThreadsOK'
         /\ \A u \in Threads :
              /\ thread'[u].step = thread[u].step /\ thread'[u].job = thread[u].job
              /\ thread'[u].left = thread[u].left
              /\ ~thread'[u].live /\ ~thread'[u].certain
<1>1. thread' = [u \in Threads |-> [thread[u] EXCEPT !.live = FALSE, !.certain = FALSE]]
  BY DEF Close
<1>2. ASSUME NEW u \in Threads
      PROVE  /\ thread'[u] \in Locals
             /\ thread'[u].step = thread[u].step /\ thread'[u].job = thread[u].job
             /\ thread'[u].left = thread[u].left
             /\ ~thread'[u].live /\ ~thread'[u].certain
             /\ thread'[u].step = "idle" => thread'[u] = NoThread
  <2>1. /\ thread[u] \in Locals
        /\ thread'[u] = [thread[u] EXCEPT !.live = FALSE, !.certain = FALSE]
    BY <1>1 DEF ThreadsOK
  <2>2. thread[u].step = "idle" => thread'[u] = NoThread
    BY <2>1, NoThreadType DEF ThreadsOK
  <2> QED BY <2>1, <2>2 DEF Locals
<1>3. thread' \in [Threads -> Locals]
  BY <1>1, <1>2
<1> QED BY <1>2, <1>3 DEF ThreadsOK

LEMMA StartBecomes ==
  ASSUME TypeOK, ThreadsOK, NEW job \in {"query", "add", "del"}, NEW step \in {"ask", "begin"},
         Start(job, step)
  PROVE  \E t \in Threads \ Alive :
           /\ Becomes(t, thread'[t]) /\ \A u \in Threads \ {t} : thread'[u] = thread[u]
           /\ thread'[t].step = step /\ thread'[t].job = job /\ thread'[t].live
           /\ thread'[t].left = <<>> /\ thread'[t].target = chosen /\ thread'[t].certain = sure
<1>1. PICK t \in Threads \ Alive :
        thread' = [thread EXCEPT ![t] = [NoThread EXCEPT
          !.step = step, !.job = job, !.live = TRUE, !.target = chosen, !.certain = sure]]
  BY DEF Start
<1> DEFINE new == [NoThread EXCEPT !.step = step, !.job = job, !.live = TRUE,
                                   !.target = chosen, !.certain = sure]
<1>2. /\ new \in Locals /\ new.step = step /\ new.job = job /\ new.live /\ new.left = <<>>
      /\ new.target = chosen /\ new.certain = sure
  BY NoThreadType, StepNames, ZenonT(40) DEF Locals, TypeOK
<1> HIDE DEF new
<1>3. /\ thread'[t] = new /\ \A u \in Threads \ {t} : thread'[u] = thread[u]
      /\ DOMAIN thread' = Threads /\ thread' = [u \in Threads |-> thread'[u]]
  BY <1>1 DEF ThreadsOK, new
<1>4. \A u \in Threads \ {t} : Stays(u)
  BY <1>3 DEF Stays, ThreadsOK
<1>5. new.step # "idle"
  BY <1>2
<1> QED BY <1>2, <1>3, <1>4, <1>5 DEF Becomes

(* The three ways to start a thread. *)
Starts == ClickQuery \/ ClickAdd \/ ChooseDelete

LEMMA StartsBecome ==
  ASSUME TypeOK, ThreadsOK, Starts
  PROVE  /\ \E t \in Threads \ Alive :
              /\ Becomes(t, thread'[t]) /\ \A u \in Threads \ {t} : thread'[u] = thread[u]
              /\ thread'[t].step = IF thread'[t].job = "query" THEN "ask" ELSE "begin"
              /\ thread'[t].job = "del" <=> ChooseDelete
              /\ thread'[t].left = <<>> /\ thread'[t].target = chosen /\ thread'[t].certain = sure
         /\ ui # "closed" /\ ui' # "closed"
         /\ UNCHANGED <<buttons, rows, selected>>
         /\ mixed' = (mixed \/ Alive # {}) /\ last' = IF mixed' THEN <<>> ELSE last
<1>1. CASE ClickQuery
  <2>1. Start("query", "ask") /\ ~ChooseDelete /\ ui # "closed" /\ ui' # "closed"
    BY <1>1 DEF ClickQuery, ChooseDelete
  <2>2. /\ UNCHANGED <<buttons, rows, selected>>
        /\ mixed' = (mixed \/ Alive # {}) /\ last' = IF mixed' THEN <<>> ELSE last
    BY <2>1 DEF Start
  <2> QED BY <2>1, <2>2, StartBecomes
<1>2. CASE ClickAdd
  <2>1. Start("add", "begin") /\ ~ChooseDelete /\ ui # "closed" /\ ui' # "closed"
    BY <1>2 DEF ClickAdd, ChooseDelete
  <2>2. /\ UNCHANGED <<buttons, rows, selected>>
        /\ mixed' = (mixed \/ Alive # {}) /\ last' = IF mixed' THEN <<>> ELSE last
    BY <2>1 DEF Start
  <2> QED BY <2>1, <2>2, StartBecomes
<1>3. CASE ChooseDelete
  <2>1. Start("del", "begin") /\ ui # "closed" /\ ui' # "closed"
    BY <1>3 DEF ChooseDelete
  <2>2. /\ UNCHANGED <<buttons, rows, selected>>
        /\ mixed' = (mixed \/ Alive # {}) /\ last' = IF mixed' THEN <<>> ELSE last
    BY <2>1 DEF Start
  <2> QED BY <1>3, <2>1, <2>2, StartBecomes
<1> QED BY <1>1, <1>2, <1>3 DEF Starts

LEMMA MenusStay ==
  ASSUME ThreadsOK, Open \/ RowMenu \/ BackgroundMenu \/ LeaveMenu
  PROVE  AllStay
BY OpenStays, RowMenuStays, SameStays DEF BackgroundMenu, LeaveMenu

-----------------------------------------------------------------------------
(* Types. *)
Quiet(t) == ReadAddress(t) \/ ReadMac(t) \/ Command(t) \/ Ask(t) \/ Return(t) \/ Dismiss(t)
Changes(t) == Clear(t) \/ Insert(t) \/ Fill(t)

LEMMA StepKinds ==
  \A t \in Threads :
    Run(t) \/ Dismiss(t) => Quiet(t) \/ SwitchButton(t) \/ List(t) \/ Changes(t)
BY DEF Run, Quiet, Changes

LEMMA QuietLeaves ==
  ASSUME NEW t, Quiet(t)
  PROVE  UNCHANGED <<ui, buttons, rows, selected, chosen, sure, last, mixed>>
BY DEF Quiet, ReadAddress, ReadMac, Command, Ask, Return, Dismiss

LEMMA ChangesLeave ==
  ASSUME NEW t, Changes(t)
  PROVE  /\ UNCHANGED <<ui, buttons, selected, chosen>> /\ sure' = FALSE
         /\ ui = "closed" => rows' = rows
BY DEF Changes, Clear, Insert, Fill, ChangeRows

OthersOK ==
  /\ ui \in {"closed", "dialog", "menu"}
  /\ buttons \in [{"query", "add"} -> BOOLEAN]
  /\ rows \in Seq(Devices \union {Blank})
  /\ selected \in Nat \union {-1}
  /\ chosen \in Devices \union {Blank, None}
  /\ sure \in BOOLEAN /\ last \in Seq(Devices) /\ mixed \in BOOLEAN

LEMMA TypeSplit == TypeOK <=> OthersOK /\ ThreadsOK
BY DEF TypeOK, OthersOK, ThreadsOK, Locals

LEMMA TypeSplitNext == TypeOK' <=> OthersOK' /\ ThreadsOK'
BY DEF TypeOK, OthersOK, ThreadsOK, Locals

(* A row of the list is a device or blank. *)
LEMMA RowType ==
  ASSUME OthersOK, NEW i \in 0 .. Len(rows) - 1
  PROVE  rows[i + 1] \in Devices \union {Blank} /\ i \in Nat
<1>1. i + 1 \in 1 .. Len(rows) /\ i \in Nat
  BY DEF OthersOK
<1> QED BY <1>1, ElementOfSeq DEF OthersOK

LEMMA OthersKept ==
  ASSUME TypeOK, LeftIsOfList, Next
  PROVE  OthersOK'
<1>t. OthersOK /\ ThreadsOK
  BY TypeSplit
<1>1. CASE Open
  <2>1. <<>> \in Seq(Devices) /\ <<>> \in Seq(Devices \union {Blank})
    OBVIOUS
  <2>2. mixed' \in BOOLEAN
    BY <1>1 DEF Open
  <2> QED BY <1>t, <1>1, <2>1, <2>2 DEF Open, OthersOK
<1>2. CASE Close
  <2>1. <<>> \in Seq(Devices \union {Blank})
    OBVIOUS
  <2> QED BY <1>t, <1>2, <2>1 DEF Close, OthersOK
<1>3. CASE RowMenu
  <2>1. PICK i \in 0 .. Len(rows) - 1 : selected' = i /\ chosen' = rows[i + 1]
    BY <1>3 DEF RowMenu
  <2>2. selected' \in Nat /\ chosen' \in Devices \union {Blank}
    BY <1>t, <2>1, RowType
  <2> QED BY <1>t, <1>3, <2>2 DEF RowMenu, OthersOK
<1>4. CASE BackgroundMenu \/ LeaveMenu
  BY <1>t, <1>4 DEF BackgroundMenu, LeaveMenu, OthersOK
<1>5. CASE Starts
  <2>1. /\ UNCHANGED <<buttons, rows, selected>>
        /\ mixed' = (mixed \/ Alive # {}) /\ last' = IF mixed' THEN <<>> ELSE last
    BY <1>t, <1>5, StartsBecome
  <2>2. ui' \in {"closed", "dialog", "menu"} /\ chosen' \in Devices \union {Blank, None} /\ sure' \in BOOLEAN
    BY <1>t, <1>5 DEF Starts, ClickQuery, ClickAdd, ChooseDelete, OthersOK
  <2>3. mixed' \in BOOLEAN
    BY <2>1
  <2>4. last' \in Seq(Devices)
    <3>1. <<>> \in Seq(Devices)
      OBVIOUS
    <3> QED BY <1>t, <2>1, <3>1 DEF OthersOK
  <2> QED BY <1>t, <2>1, <2>2, <2>3, <2>4 DEF OthersOK
<1>6. ASSUME NEW t \in Threads, Quiet(t) PROVE OthersOK'
  BY <1>t, <1>6, QuietLeaves DEF OthersOK
<1>7. ASSUME NEW t \in Threads, SwitchButton(t) PROVE OthersOK'
  <2>1. PICK b, on : buttons' = buttons \/ (buttons' = [buttons EXCEPT ![b] = on] /\ on \in BOOLEAN)
    <3> DEFINE sw == Switch[thread[t].step]
    <3>1. thread[t].step \in DOMAIN Switch
      BY <1>7 DEF SwitchButton
    <3>2. sw.on \in BOOLEAN
      BY <3>1, SwitchTypes
    <3>3. buttons' = buttons \/ buttons' = [buttons EXCEPT ![sw.button] = sw.on]
      BY <1>7 DEF SwitchButton
    <3> HIDE DEF sw
    <3> QED BY <3>2, <3>3
  <2>2. buttons' \in [{"query", "add"} -> BOOLEAN]
    BY <1>t, <2>1 DEF OthersOK
  <2> QED BY <1>t, <1>7, <2>2 DEF SwitchButton, OthersOK
<1>8. ASSUME NEW t \in Threads, List(t) PROVE OthersOK'
  <2>1. last' \in Seq(Devices)
    <3>1. <<>> \in Seq(Devices)
      OBVIOUS
    <3> QED BY <1>t, <1>8, <3>1, ListGoes, ListsAssumption
  <2> QED BY <1>t, <1>8, <2>1 DEF List, OthersOK
<1>9. ASSUME NEW t \in Threads, Changes(t) PROVE OthersOK'
  <2>1. /\ UNCHANGED <<ui, buttons, selected, chosen>> /\ sure' = FALSE
    BY <1>9, ChangesLeave
  <2>2. mixed' \in BOOLEAN /\ last' \in Seq(Devices)
    <3>1. <<>> \in Seq(Devices)
      OBVIOUS
    <3> QED BY <1>t, <1>9, <3>1 DEF Changes, Clear, Insert, Fill, OthersOK
  <2>3. rows' \in Seq(Devices \union {Blank})
    <3>1. CASE Clear(t)
      <4>1. <<>> \in Seq(Devices \union {Blank})
        OBVIOUS
      <4> QED BY <1>t, <3>1, <4>1 DEF Clear, ChangeRows, OthersOK
    <3>2. CASE Insert(t)
      <4>1. <<Blank>> \in Seq(Devices \union {Blank})
        OBVIOUS
      <4>2. <<Blank>> \o rows \in Seq(Devices \union {Blank})
        BY <1>t, <4>1, ConcatProperties DEF OthersOK
      <4> QED BY <1>t, <3>2, <4>2 DEF Insert, ChangeRows, OthersOK
    <3>3. CASE Fill(t)
      <4> DEFINE d == Head(thread[t].left)
      <4>1. thread[t].left \in Seq(Devices) /\ thread[t].left # <<>>
        BY <1>t, <3>3 DEF ThreadsOK, Locals, LeftIsOfList, Fill
      <4>2. d \in Devices
        BY <4>1
      <4>3. rows' = IF ui = "closed" \/ rows = <<>> THEN rows ELSE [rows EXCEPT ![1] = d]
        BY <3>3 DEF Fill, ChangeRows
      <4> HIDE DEF d
      <4>4. rows # <<>> => [rows EXCEPT ![1] = d] \in Seq(Devices \union {Blank})
        <5>1. rows # <<>> => 1 \in 1 .. Len(rows)
          BY <1>t DEF OthersOK
        <5> QED BY <1>t, <4>2, <5>1, ExceptSeq DEF OthersOK
      <4> QED BY <1>t, <4>3, <4>4 DEF OthersOK
    <3> QED BY <1>9, <3>1, <3>2, <3>3 DEF Changes
  <2> QED BY <1>t, <2>1, <2>2, <2>3 DEF OthersOK
<1> QED BY <1>1, <1>2, <1>3, <1>4, <1>5, <1>6, <1>7, <1>8, <1>9, StepKinds DEF Next, User, Starts

(* The conjuncts about single threads. *)
Threadwise == ThreadsOK /\ JobsHaveTheirSteps /\ LeftIsOfList

LEMMA ThreadwiseKept ==
  ASSUME TypeOK, Threadwise, Next
  PROVE  Threadwise'
<1>t. ThreadsOK /\ JobsHaveTheirSteps /\ LeftIsOfList
  BY DEF Threadwise
<1>1. ASSUME Open \/ RowMenu \/ BackgroundMenu \/ LeaveMenu PROVE Threadwise'
  <2>1. AllStay
    BY <1>t, <1>1, MenusStay
  <2>2. ThreadsOK'
    BY <1>t, <2>1, AllStayType
  <2> QED BY <1>t, <2>1, <2>2 DEF Threadwise, JobsHaveTheirSteps, LeftIsOfList, AllStay, Stays
<1>2. CASE Close
  BY <1>t, <1>2, CloseLeaves DEF Threadwise, JobsHaveTheirSteps, LeftIsOfList
<1>3. CASE Starts
  <2>1. PICK t \in Threads \ Alive :
          /\ Becomes(t, thread'[t]) /\ \A u \in Threads \ {t} : thread'[u] = thread[u]
          /\ thread'[t].step = IF thread'[t].job = "query" THEN "ask" ELSE "begin"
          /\ thread'[t].left = <<>>
    BY <1>t, <1>3, StartsBecome
  <2>2. ThreadsOK'
    BY <1>t, <2>1, BecomesType
  <2> QED BY <1>t, <2>1, <2>2 DEF Threadwise, JobsHaveTheirSteps, LeftIsOfList
<1>4. ASSUME NEW t \in Threads, Run(t) \/ Dismiss(t) PROVE Threadwise'
  <2>1. Goes(t) /\ (thread[t].step = "rows" => (thread'[t].step = "fill" <=> thread[t].left # <<>>))
    BY <1>t, <1>4, ThreadsGo
  <2> DEFINE old == thread[t]
             new == thread'[t]
  <2>2. /\ Becomes(t, new) /\ Arrow(old.job, old.step, new.step)
        /\ new.step # "idle" => new.job = old.job
        /\ old.step \notin {"list", "fill"} /\ new.step # "idle" => new.left = old.left
        /\ new.step = "idle" => new = NoThread
    BY <2>1 DEF Goes, Becomes
  <2>3. ThreadsOK'
    BY <1>t, <2>2, BecomesType
  <2>4. \A u \in Threads \ {t} : Stays(u)
    BY <2>2 DEF Becomes
  <2>5. /\ old.job = "query" =>
             old.step \notin {"begin", "mac", "off1", "off2", "cmd", "refusedQuery", "on1", "on2"}
        /\ old.step \notin {"lit1", "lit2", "rows", "fill"} => old.left = <<>>
    BY <1>t DEF JobsHaveTheirSteps, LeftIsOfList
  <2> HIDE DEF old, new
  <2>6. new.job = "query" =>
          new.step \notin {"begin", "mac", "off1", "off2", "cmd", "refusedQuery", "on1", "on2"}
    BY <2>2, <2>5, NoThreadType DEF Arrow
  <2>7. /\ new.step \notin {"lit1", "lit2", "rows", "fill"} => new.left = <<>>
        /\ new.step = "fill" => new.left # <<>>
    <3>1. old.step = "rows" => (new.step = "fill" <=> old.left # <<>>)
      BY <2>1 DEF old, new
    <3> QED BY <2>2, <2>5, <3>1, NoThreadType DEF Arrow
  <2>8. JobsHaveTheirSteps'
    BY <1>t, <2>4, <2>6 DEF JobsHaveTheirSteps, Stays, new
  <2>9. LeftIsOfList'
    BY <1>t, <2>4, <2>7 DEF LeftIsOfList, Stays, new
  <2> QED BY <2>3, <2>8, <2>9 DEF Threadwise
<1> QED BY <1>1, <1>2, <1>3, <1>4 DEF Next, User, Starts

-----------------------------------------------------------------------------
(* The buttons.  At step s, a thread with job j still has to enable button b. *)
Owing(j, s, b) ==
  s \in {"lit1", "list", "dim2"}
    \union (IF b = "add" THEN {"lit2"} ELSE {})
    \union (IF j = "query" THEN {} ELSE
      {"off2", "cmd", "ask", "refusedQuery", "clear", "dim1", "lit2", "rows", "fill", "on1"}
        \union (IF b = "add" THEN {"on2"} ELSE {}))

LEMMA OwesOwing ==
  \A t, b : /\ Owes(t, b) <=> thread[t].live /\ Owing(thread[t].job, thread[t].step, b)
            /\ Owes(t, b)' <=> thread'[t].live /\ Owing(thread'[t].job, thread'[t].step, b)
BY DEF Owes, Owing

LEMMA OwingGoes ==
  ASSUME NEW j, NEW a, NEW c, NEW b, Arrow(j, a, c), a \notin DOMAIN Switch, Owing(j, a, b)
  PROVE  Owing(j, c, b) /\ c # "idle"
BY SwitchSteps DEF Arrow, Owing

(* A switch enables its button, or disables it and owes it from then on; the thread
   goes on owing the other one. *)
LEMMA OwingSwitched ==
  ASSUME NEW j, NEW a \in DOMAIN Switch, NEW b \in {"query", "add"},
         j = "query" => a \notin {"off1", "off2", "on1", "on2"}
  PROVE  /\ Switch[a].button = b => Switch[a].on \/ (Owing(j, Switch[a].then, b) /\ Switch[a].then # "idle")
         /\ Switch[a].button # b /\ Owing(j, a, b) => Owing(j, Switch[a].then, b) /\ Switch[a].then # "idle"
<1>1. CASE a = "off1" BY <1>1, SwitchRows DEF Owing
<1>2. CASE a = "off2" BY <1>2, SwitchRows DEF Owing
<1>3. CASE a = "dim1" BY <1>3, SwitchRows DEF Owing
<1>4. CASE a = "dim2" BY <1>4, SwitchRows DEF Owing
<1>5. CASE a = "lit1" BY <1>5, SwitchRows DEF Owing
<1>6. CASE a = "lit2" BY <1>6, SwitchRows DEF Owing
<1>7. CASE a = "on1" BY <1>7, SwitchRows DEF Owing
<1>8. CASE a = "on2"
  <2>1. b # "add" => ~Owing(j, a, b)
    BY <1>8 DEF Owing
  <2>2. Switch[a].button = "add"
    BY <1>8, SwitchRows
  <2>3. Switch[a].button = b => Switch[a].on
    BY <1>8, SwitchRows
  <2> QED BY <2>1, <2>2, <2>3
<1> QED BY <1>1, <1>2, <1>3, <1>4, <1>5, <1>6, <1>7, <1>8, SwitchSteps

(* Who stays, or starts from idle, owes what it owed. *)
LEMMA StaysOwes ==
  ASSUME NEW u \in Threads, Stays(u), NEW b
  PROVE  Owes(u, b)' <=> Owes(u, b)
BY OwesOwing DEF Stays

LEMMA ButtonsKept ==
  ASSUME TypeOK, Threadwise, ClosedIsOver, ButtonsAreOwed, Next
  PROVE  ClosedIsOver' /\ ButtonsAreOwed'
<1>t. ThreadsOK /\ OthersOK /\ JobsHaveTheirSteps /\ LeftIsOfList
  BY TypeSplit DEF Threadwise
<1>1. ASSUME Open \/ RowMenu \/ BackgroundMenu \/ LeaveMenu PROVE ClosedIsOver' /\ ButtonsAreOwed'
  <2>1. AllStay
    BY <1>t, <1>1, MenusStay
  <2>2. /\ buttons' = buttons /\ ui' # "closed"
        /\ \A b \in {"query", "add"} : buttons[b] \/ \E t \in Threads : Owes(t, b)
    BY <1>1 DEF Open, RowMenu, BackgroundMenu, LeaveMenu, ClosedIsOver, ButtonsAreOwed
  <2>3. \A t \in Threads, b \in {"query", "add"} : Owes(t, b) => Owes(t, b)'
    BY <2>1, StaysOwes DEF AllStay
  <2> QED BY <2>2, <2>3 DEF ClosedIsOver, ButtonsAreOwed
<1>2. CASE Close
  <2>1. \A t \in Threads : ~thread'[t].live
    BY <1>t, <1>2, CloseLeaves
  <2> QED BY <1>2, <2>1 DEF Close, ClosedIsOver, ButtonsAreOwed
<1>3. CASE Starts
  <2>1. PICK t \in Threads \ Alive : \A u \in Threads \ {t} : thread'[u] = thread[u]
    BY <1>t, <1>3, StartsBecome
  <2>2. ui # "closed" /\ ui' # "closed" /\ buttons' = buttons
    BY <1>t, <1>3, StartsBecome
  <2>3. \A b : ~Owes(t, b)
    <3>1. thread[t] = NoThread
      BY <1>t DEF Alive, ThreadsOK
    <3> QED BY <3>1, NoThreadType DEF Owes
  <2>4. \A u \in Threads, b \in {"query", "add"} : Owes(u, b) => Owes(u, b)'
    BY <2>1, <2>3, OwesOwing
  <2> QED BY <2>2, <2>4 DEF ClosedIsOver, ButtonsAreOwed
<1>4. ASSUME NEW t \in Threads, Run(t) \/ Dismiss(t) PROVE ClosedIsOver' /\ ButtonsAreOwed'
  <2>1. Goes(t)
    BY <1>t, <1>4, ThreadsGo
  <2>2. /\ Arrow(thread[t].job, thread[t].step, thread'[t].step)
        /\ thread'[t].step # "idle" => thread'[t].job = thread[t].job /\ thread'[t].live = thread[t].live
        /\ thread'[t].step = "idle" => thread'[t] = NoThread
        /\ \A u \in Threads \ {t} : Stays(u)
    BY <2>1 DEF Goes, Becomes
  <2>3. ui' = ui
    BY <1>4, StepKinds, QuietLeaves, ChangesLeave DEF SwitchButton, List
  <2>4. ~SwitchButton(t) => buttons' = buttons /\ thread[t].step \notin DOMAIN Switch
    <3>1. ~SwitchButton(t) => buttons' = buttons
      BY <1>4, StepKinds, QuietLeaves, ChangesLeave DEF List
    <3>2. ~SwitchButton(t) => thread[t].step \notin DOMAIN Switch
      BY <1>4, SwitchSteps DEF Run, Dismiss, Boxes, ReadAddress, ReadMac, Command, Ask, Clear, List,
                               Insert, Fill, Return
    <3> QED BY <3>1, <3>2
  <2>5. SwitchButton(t) =>
          /\ thread[t].step \in DOMAIN Switch /\ thread'[t].step = Switch[thread[t].step].then
          /\ ~thread[t].live => buttons' = buttons
          /\ thread[t].live =>
               buttons' = [buttons EXCEPT ![Switch[thread[t].step].button] = Switch[thread[t].step].on]
    BY <1>t, SwitchGoes DEF SwitchButton
  <2>6. ClosedIsOver'
    <3> SUFFICES ASSUME ui = "closed"
                 PROVE  buttons' = buttons /\ \A u \in Threads : ~thread'[u].live
      BY <2>3 DEF ClosedIsOver
    <3>1. ~thread[t].live /\ \A u \in Threads : ~thread[u].live
      BY DEF ClosedIsOver
    <3>2. \A u \in Threads : ~thread'[u].live
      BY <2>2, <3>1, NoThreadType DEF Stays
    <3> QED BY <2>4, <2>5, <3>1, <3>2
  <2>7. ButtonsAreOwed'
    <3> SUFFICES ASSUME ui # "closed", NEW b \in {"query", "add"}
                 PROVE  buttons'[b] \/ \E u \in Threads : Owes(u, b)'
      BY <2>3 DEF ButtonsAreOwed
    <3>1. buttons[b] \/ \E u \in Threads : Owes(u, b)
      BY DEF ButtonsAreOwed
    <3>2. \A u \in Threads \ {t} : Owes(u, b) => Owes(u, b)'
      BY <2>2, StaysOwes
    <3>3. CASE ~SwitchButton(t)
      <4>1. Owes(t, b) => Owes(t, b)'
        BY <2>2, <2>4, <3>3, OwesOwing, OwingGoes
      <4> QED BY <2>4, <3>1, <3>2, <3>3, <4>1
    <3>4. CASE SwitchButton(t) /\ ~thread[t].live
      <4>1. ~Owes(t, b)
        BY <3>4 DEF Owes
      <4> QED BY <2>5, <3>1, <3>2, <3>4, <4>1
    <3>5. CASE SwitchButton(t) /\ thread[t].live
      <4> DEFINE a == thread[t].step
                 j == thread[t].job
                 sw == Switch[a]
      <4>1. j = "query" => a \notin {"off1", "off2", "on1", "on2"}
        BY <1>t DEF JobsHaveTheirSteps
      <4>2. /\ sw.button = b => sw.on \/ (Owing(j, sw.then, b) /\ sw.then # "idle")
            /\ sw.button # b /\ Owing(j, a, b) => Owing(j, sw.then, b) /\ sw.then # "idle"
        <5>1. a \in DOMAIN Switch
          BY <2>5, <3>5
        <5> HIDE DEF a, j
        <5> QED BY <4>1, <5>1, OwingSwitched
      <4>3. Owing(j, sw.then, b) /\ sw.then # "idle" => Owes(t, b)'
        BY <2>2, <2>5, <3>5, OwesOwing
      <4>4. Owes(t, b) => Owing(j, a, b)
        BY OwesOwing
      <4>5. buttons' = [buttons EXCEPT ![sw.button] = sw.on] /\ buttons \in [{"query", "add"} -> BOOLEAN]
        BY <1>t, <2>5, <3>5 DEF OthersOK
      <4> HIDE DEF a, j, sw
      <4>6. /\ sw.button = b => buttons'[b] = sw.on
            /\ sw.button # b => buttons'[b] = buttons[b]
        BY <4>5
      <4> QED BY <3>1, <3>2, <4>2, <4>3, <4>4, <4>6
    <3> QED BY <3>3, <3>4, <3>5
  <2> QED BY <2>6, <2>7
<1> QED BY <1>1, <1>2, <1>3, <1>4 DEF Next, User, Starts

-----------------------------------------------------------------------------
(* The menu's row. *)
Sured == SureIsOnRow /\ CertainIsOnRow

(* What CertainIsOnRow says of one thread. *)
CertainOf(t) ==
  thread[t].job = "del" /\ thread[t].certain =>
    /\ thread[t].step \in {"begin", "mac"} => OnRow(thread[t].target)
    /\ thread[t].step \in {"off1", "off2", "cmd"} => thread[t].mac = thread[t].target

LEMMA CertainOfAll == /\ CertainIsOnRow <=> \A t \in Threads : CertainOf(t)
                      /\ CertainIsOnRow' <=> \A t \in Threads : CertainOf(t)'
BY DEF CertainIsOnRow, CertainOf

(* A thread that stays keeps it, when the row stays or the thread is uncertain. *)
LEMMA CertainStays ==
  ASSUME NEW u \in Threads, Stays(u), CertainOf(u),
         \/ (ui # "closed" => ui' # "closed") /\ UNCHANGED <<rows, selected>>
         \/ thread[u].step \in {"begin", "mac"} => ~thread'[u].certain
  PROVE  CertainOf(u)'
<1>1. SUFFICES ASSUME thread'[u].job = "del", thread'[u].certain
               PROVE  /\ thread[u].step \in {"begin", "mac"} => OnRow(thread[u].target)'
                      /\ thread[u].step \in {"off1", "off2", "cmd"} => thread[u].mac = thread[u].target
  BY DEF CertainOf, OnRow, Stays
<1>2. PICK d : d = thread[u].target
  OBVIOUS
<1>3. /\ thread[u].step \in {"begin", "mac"} => OnRow(d)
      /\ thread[u].step \in {"off1", "off2", "cmd"} => thread[u].mac = thread[u].target
      /\ thread'[u].target = d
  BY <1>1, <1>2 DEF CertainOf, Stays
<1>4. thread[u].step \in {"begin", "mac"} => OnRow(d)'
  BY <1>1, <1>3 DEF OnRow
<1> QED BY <1>3, <1>4 DEF OnRow

LEMMA SuredKept ==
  ASSUME TypeOK, Threadwise, Sured, Next
  PROVE  Sured'
<1>t. ThreadsOK /\ OthersOK /\ JobsHaveTheirSteps /\ LeftIsOfList /\ SureIsOnRow /\ CertainIsOnRow
  BY TypeSplit DEF Threadwise, Sured
<1>c. \A t \in Threads : CertainOf(t)
  BY <1>t, CertainOfAll
<1>1. CASE Open
  <2>1. ~sure'
    BY <1>t, <1>1 DEF Open, SureIsOnRow
  <2>2. \A u \in Threads : ~thread'[u].certain
    BY <1>t, <1>1, OpenStays
  <2> QED BY <2>1, <2>2 DEF Sured, SureIsOnRow, CertainIsOnRow
<1>2. CASE Close
  <2>1. ~sure'
    BY <1>t, <1>2 DEF Close, SureIsOnRow
  <2>2. \A u \in Threads : ~thread'[u].certain
    BY <1>t, <1>2, CloseLeaves
  <2> QED BY <2>1, <2>2 DEF Sured, SureIsOnRow, CertainIsOnRow
<1>3. CASE RowMenu
  <2>1. PICK i \in 0 .. Len(rows) - 1 : selected' = i /\ chosen' = rows[i + 1]
    BY <1>3 DEF RowMenu
  <2>2. ui' = "menu" /\ rows' = rows
    BY <1>3 DEF RowMenu
  <2>3. OnRow(chosen)'
    BY <2>1, <2>2 DEF OnRow
  <2>4. \A u \in Threads : Stays(u) /\ (thread[u].step \in {"begin", "mac"} => ~thread'[u].certain)
    BY <1>t, <1>3, RowMenuStays DEF AllStay
  <2>5. \A u \in Threads : CertainOf(u)'
    BY <1>c, <2>4, CertainStays
  <2> QED BY <2>2, <2>3, <2>5, CertainOfAll DEF Sured, SureIsOnRow
<1>4. CASE BackgroundMenu \/ LeaveMenu
  <2>1. UNCHANGED <<rows, selected>> /\ thread' = thread /\ ui' # "closed" /\ ~sure'
    BY <1>t, <1>4 DEF BackgroundMenu, LeaveMenu, SureIsOnRow
  <2>2. \A u \in Threads : Stays(u)
    BY <1>t, <2>1, SameStays DEF AllStay
  <2>3. \A u \in Threads : CertainOf(u)'
    BY <1>c, <2>1, <2>2, CertainStays
  <2> QED BY <2>1, <2>3, CertainOfAll DEF Sured, SureIsOnRow
<1>5. CASE Starts
  <2>1. PICK t \in Threads \ Alive :
          /\ Becomes(t, thread'[t])
          /\ thread'[t].step = IF thread'[t].job = "query" THEN "ask" ELSE "begin"
          /\ thread'[t].job = "del" <=> ChooseDelete
          /\ thread'[t].target = chosen /\ thread'[t].certain = sure
    BY <1>t, <1>5, StartsBecome
  <2>2. ui # "closed" /\ ui' # "closed" /\ UNCHANGED <<rows, selected>>
    BY <1>t, <1>5, StartsBecome
  <2>3. SureIsOnRow'
    <3>1. CASE ChooseDelete
      BY <3>1 DEF ChooseDelete, SureIsOnRow
    <3>2. CASE ~ChooseDelete
      <4>1. ui' = ui /\ sure' = sure /\ chosen' = chosen
        BY <1>5, <3>2 DEF Starts, ClickQuery, ClickAdd
      <4> QED BY <1>t, <2>2, <4>1 DEF SureIsOnRow, OnRow
    <3> QED BY <3>1, <3>2
  <2>4. \A u \in Threads \ {t} : CertainOf(u)'
    BY <1>c, <2>1, <2>2, CertainStays DEF Becomes
  <2>5. CertainOf(t)'
    <3>1. PICK d : d = chosen
      OBVIOUS
    <3>2. sure => OnRow(d)'
      BY <1>t, <2>2, <3>1 DEF SureIsOnRow, OnRow
    <3>3. thread'[t].job = "del" => thread'[t].step = "begin"
      BY <2>1
    <3> QED BY <2>1, <3>1, <3>2, <3>3 DEF CertainOf, OnRow
  <2> QED BY <2>3, <2>4, <2>5, CertainOfAll DEF Sured
<1>6. ASSUME NEW t \in Threads, Run(t) \/ Dismiss(t) PROVE Sured'
  <2>1. Goes(t)
    BY <1>t, <1>6, ThreadsGo
  <2>2. /\ Arrow(thread[t].job, thread[t].step, thread'[t].step)
        /\ thread'[t].step # "idle" => thread'[t].job = thread[t].job
        /\ thread'[t].step = "idle" => thread'[t] = NoThread
        /\ \A u \in Threads \ {t} : Stays(u)
    BY <2>1 DEF Goes, Becomes
  <2>3. \/ ui' = ui /\ UNCHANGED <<rows, selected, chosen, sure>>
        \/ Changes(t) /\ sure' = FALSE
    BY <1>6, StepKinds, QuietLeaves, ChangesLeave DEF SwitchButton, List
  <2>4. SureIsOnRow'
    BY <1>t, <2>3 DEF SureIsOnRow, OnRow
  <2>5. ASSUME NEW u \in Threads \ {t} PROVE CertainOf(u)'
    <3>1. CASE Changes(t)
      <4>1. thread[u].step \in {"begin", "mac"} => ~thread'[u].certain
        BY <1>t, <3>1, ChangeGoes DEF Changes
      <4> QED BY <1>c, <2>2, <4>1, CertainStays
    <3>2. CASE ~Changes(t)
      BY <1>c, <2>2, <2>3, <3>2, CertainStays
    <3> QED BY <3>1, <3>2
  <2>6. CertainOf(t)'
    <3>1. CASE ReadAddress(t)
      <4>1. /\ thread[t].step = "begin" /\ thread'[t].step \in {"refused", "mac"}
            /\ thread'[t].job = thread[t].job
            /\ thread'[t].target = thread[t].target /\ thread'[t].certain = thread[t].certain
        BY <1>t, <2>2, <3>1, ReadAddressGoes DEF Arrow
      <4>2. ui' = ui /\ UNCHANGED <<rows, selected>>
        BY <3>1 DEF ReadAddress
      <4> QED BY <1>c, <4>1, <4>2 DEF CertainOf, OnRow
    <3>2. CASE ReadMac(t)
      <4>1. /\ thread[t].step = "mac" /\ thread'[t].step \in {"refused", "off1"}
            /\ thread'[t].job = thread[t].job
            /\ thread'[t].target = thread[t].target /\ thread'[t].certain = thread[t].certain
            /\ thread[t].job = "del" => thread'[t].mac = CommMac
        BY <1>t, <2>2, <3>2, ReadMacGoes DEF Arrow
      <4>2. OnRow(thread[t].target) => CommMac = thread[t].target
        BY DEF OnRow, CommMac
      <4> QED BY <1>c, <4>1, <4>2 DEF CertainOf
    <3>3. CASE SwitchButton(t)
      <4>1. CASE thread[t].step = "on2"
        <5>1. ~thread'[t].certain
          BY <2>2, <4>1, NoThreadType DEF Arrow
        <5> QED BY <5>1 DEF CertainOf
      <4>2. CASE thread[t].step # "on2"
        <5>1. /\ thread[t].step \in DOMAIN Switch
              /\ thread'[t].mac = thread[t].mac /\ thread'[t].target = thread[t].target
              /\ thread'[t].certain = thread[t].certain
          BY <1>t, <3>3, <4>2, SwitchGoes
        <5>2. /\ thread'[t].step \notin {"begin", "mac"}
              /\ thread'[t].step \in {"off1", "off2", "cmd"} =>
                   thread[t].step \in {"off1", "off2"} /\ thread'[t].job = thread[t].job
          BY <2>2, <5>1, SwitchSteps DEF Arrow
        <5> QED BY <1>c, <5>1, <5>2 DEF CertainOf
      <4> QED BY <4>1, <4>2
    <3>4. CASE Command(t)
      BY <1>t, <3>4, CommandGoes DEF CertainOf
    <3>5. CASE Ask(t) \/ Dismiss(t) \/ Return(t)
      BY <1>t, <3>5, ElseGoes DEF CertainOf
    <3>6. CASE List(t)
      BY <1>t, <3>6, ListGoes DEF CertainOf
    <3>7. CASE Changes(t)
      <4>1. thread'[t].step \in {"dim1", "fill", "rows"}
        BY <1>t, <3>7, ChangeGoes DEF Changes
      <4> QED BY <4>1 DEF CertainOf
    <3> QED BY <1>6, <3>1, <3>2, <3>3, <3>4, <3>5, <3>6, <3>7 DEF Run, Changes
  <2> QED BY <2>4, <2>5, <2>6, CertainOfAll DEF Sured
<1> QED BY <1>1, <1>2, <1>3, <1>4, <1>5, <1>6 DEF Next, User, Starts

-----------------------------------------------------------------------------
(* The rows.  What a thread that is alone makes of them. *)
LEMMA AloneCleared ==
  ASSUME NEW step \in Steps \ {"fill"}
  PROVE  Alone(<<>>, step, <<>>, <<>>) /\ Shows(<<>>, <<>>, 0) /\ Len(<<>>) = 0
BY DEF Alone, Follows, Shows

LEMMA AloneGoes ==
  ASSUME NEW ans, NEW rs, NEW left, NEW a, NEW b, Alone(left, a, rs, ans),
         a # "fill", b # "fill", b \in {"dim1", "dim2", "list"} => a \in {"dim1", "dim2", "list"}
  PROVE  Alone(left, b, rs, ans)
BY DEF Alone

LEMMA AloneStarts ==
  ASSUME NEW ans \in Seq(Devices), NEW rs, Shows(rs, ans, Len(ans)),
         NEW step, step \notin {"dim1", "dim2", "list", "fill"}
  PROVE  Alone(<<>>, step, rs, ans)
<1>1. Len(ans) \in Nat /\ Len(<<>>) = 0 /\ Len(ans) - Len(<<>>) = Len(ans)
  OBVIOUS
<1>2. Follows(<<>>, ans, Len(ans))
  BY <1>1 DEF Follows
<1> QED BY <1>1, <1>2 DEF Alone

LEMMA AloneEnds ==
  ASSUME NEW ans \in Seq(Devices), NEW rs, NEW a, a # "fill", Alone(<<>>, a, rs, ans)
  PROVE  Shows(rs, ans, Len(ans))
<1>1. Len(ans) - Len(<<>>) = Len(ans)
  OBVIOUS
<1> QED BY <1>1 DEF Alone

LEMMA AloneListed ==
  ASSUME NEW ans \in Seq(Devices), NEW rs, Alone(<<>>, "list", rs, <<>>)
  PROVE  Alone(ans, "lit1", rs, ans)
<1>1. Len(rs) = 0
  BY DEF Alone, Shows
<1>2. Len(ans) - Len(ans) = 0 /\ Len(ans) \in Nat /\ DOMAIN ans = 1 .. Len(ans)
  OBVIOUS
<1>3. Follows(ans, ans, 0) /\ Shows(rs, ans, 0)
  BY <1>1, <1>2 DEF Follows, Shows
<1> QED BY <1>2, <1>3 DEF Alone

LEMMA AloneInserted ==
  ASSUME NEW ans \in Seq(Devices), NEW rs \in Seq(Devices \union {Blank}),
         NEW left \in Seq(Devices), Alone(left, "rows", rs, ans)
  PROVE  Alone(left, "fill", <<Blank>> \o rs, ans)
<1> DEFINE n == Len(ans) - Len(left)
           new == <<Blank>> \o rs
<1>1. n \in Int /\ Len(rs) = n /\ \A i \in 1 .. n : rs[i] = ans[n + 1 - i]
  BY DEF Alone, Shows
<1>2. Len(new) = Len(rs) + 1 /\ \A i \in 2 .. Len(rs) + 1 : new[i] = rs[i - 1]
  OBVIOUS
<1>3. Follows(left, ans, n)
  BY DEF Alone
<1> HIDE DEF new
<1>4. \A i \in 2 .. n + 1 : new[i] = ans[n + 2 - i]
  <2> SUFFICES ASSUME NEW i \in 2 .. n + 1 PROVE new[i] = ans[n + 2 - i]
    OBVIOUS
  <2>1. PICK k \in 1 .. n : new[i] = rs[k] /\ k = i - 1
    BY <1>1, <1>2
  <2>2. rs[k] = ans[n + 1 - k]
    BY <1>1
  <2>3. n + 1 - k = n + 2 - i
    BY <1>1, <2>1
  <2> QED BY <2>1, <2>2, <2>3
<1>5. Len(new) = n + 1
  BY <1>1, <1>2
<1> QED BY <1>3, <1>4, <1>5 DEF Alone, new

LEMMA AloneFilled ==
  ASSUME NEW ans \in Seq(Devices), NEW rs \in Seq(Devices \union {Blank}),
         NEW left \in Seq(Devices), left # <<>>, Alone(left, "fill", rs, ans)
  PROVE  /\ rs # <<>>
         /\ Alone(Tail(left), "rows", [rs EXCEPT ![1] = Head(left)], ans)
<1> DEFINE n == Len(ans) - Len(left)
           d == Head(left)
           new == [rs EXCEPT ![1] = d]
<1>1. /\ n \in Nat /\ Len(rs) = n + 1 /\ \A i \in 2 .. n + 1 : rs[i] = ans[n + 2 - i]
      /\ Len(left) = Len(ans) - n /\ \A i \in 1 .. Len(left) : left[i] = ans[n + i]
  <2>1. DOMAIN left = 1 .. Len(left)
    OBVIOUS
  <2>2. Follows(left, ans, n) /\ Len(rs) = n + 1 /\ \A i \in 2 .. n + 1 : rs[i] = ans[n + 2 - i]
    BY DEF Alone
  <2> HIDE DEF n
  <2> QED BY <2>1, <2>2 DEF Follows
<1>2. Len(rs) \in Nat /\ n \in Nat /\ Len(ans) \in Nat /\ Len(left) \in Nat /\ Len(left) > 0
  <2>1. Len(left) # 0
    BY EmptySeq
  <2>2. Len(rs) \in Nat /\ Len(ans) \in Nat /\ Len(left) \in Nat
    OBVIOUS
  <2> QED BY <1>1, <2>1, <2>2
<1>3. d = ans[n + 1]
  <2>1. d = left[1] /\ 1 \in 1 .. Len(left)
    BY <1>2
  <2> QED BY <1>1, <2>1
<1>4. /\ Len(Tail(left)) = Len(left) - 1
      /\ \A i \in 1 .. Len(left) - 1 : Tail(left)[i] = left[i + 1]
      /\ DOMAIN Tail(left) = 1 .. Len(left) - 1
  BY HeadTailProperties
<1> HIDE DEF d
<1>5. /\ Len(new) = n + 1 /\ new[1] = d /\ \A i \in 2 .. n + 1 : new[i] = rs[i]
  BY <1>1, <1>2
<1> HIDE DEF new
<1>6. Len(ans) - Len(Tail(left)) = n + 1
  BY <1>1, <1>2, <1>4
<1>7. Follows(Tail(left), ans, n + 1)
  <2>1. ASSUME NEW i \in 1 .. Len(left) - 1 PROVE Tail(left)[i] = ans[n + 1 + i]
    <3>1. Tail(left)[i] = left[i + 1] /\ i + 1 \in 1 .. Len(left)
      BY <1>2, <1>4
    <3>2. left[i + 1] = ans[n + (i + 1)] /\ n + (i + 1) = n + 1 + i
      BY <1>1, <1>2, <3>1
    <3> QED BY <3>1, <3>2
  <2> QED BY <1>1, <1>2, <1>4, <1>6, <2>1 DEF Follows
<1>8. Shows(new, ans, n + 1)
  <2>1. ASSUME NEW i \in 1 .. n + 1 PROVE new[i] = ans[(n + 1) + 1 - i]
    <3>1. CASE i = 1
      <4>1. (n + 1) + 1 - i = n + 1
        BY <1>2, <3>1
      <4> QED BY <1>3, <1>5, <3>1, <4>1
    <3>2. CASE i # 1
      <4>1. i \in 2 .. n + 1 /\ (n + 1) + 1 - i = n + 2 - i
        BY <1>2, <3>2
      <4> QED BY <1>1, <1>5, <4>1
    <3> QED BY <3>1, <3>2
  <2> QED BY <1>5, <2>1 DEF Shows
<1>9. rs # <<>>
  BY <1>1, <1>2
<1> QED BY <1>6, <1>7, <1>8, <1>9 DEF Alone, new, d

LEMMA AliveStays ==
  ASSUME AllStay
  PROVE  Alive' = Alive
BY DEF AllStay, Stays, Alive

LEMMA AliveGoes ==
  ASSUME ThreadsOK, NEW t \in Threads, Goes(t)
  PROVE  t \in Alive /\ Alive' = IF thread'[t].step = "idle" THEN Alive \ {t} ELSE Alive
<1>1. thread[t].step # "idle" /\ \A u \in Threads \ {t} : thread'[u].step = thread[u].step
  BY DEF Goes, Arrow, Becomes, Stays
<1> QED BY <1>1 DEF Alive

LEMMA RowsKept ==
  ASSUME TypeOK, Threadwise, RowsAreLast, Next
  PROVE  RowsAreLast'
<1>t. ThreadsOK /\ OthersOK /\ JobsHaveTheirSteps /\ LeftIsOfList
  BY TypeSplit DEF Threadwise
<1>1. CASE Open
  <2>1. AllStay /\ mixed' = (Alive # {}) /\ rows' = <<>> /\ last' = <<>>
    BY <1>t, <1>1, OpenStays DEF Open
  <2>2. Alive' = Alive
    BY <2>1, AliveStays
  <2>3. Shows(<<>>, <<>>, Len(<<>>))
    BY DEF Shows
  <2> QED BY <2>1, <2>2, <2>3 DEF RowsAreLast
<1>2. CASE Close
  <2>1. Alive' = Alive
    BY <1>t, <1>2, CloseLeaves DEF Alive
  <2> QED BY <1>2, <2>1 DEF Close, RowsAreLast
<1>3. CASE RowMenu \/ BackgroundMenu \/ LeaveMenu
  <2>1. AllStay
    BY <1>t, <1>3, MenusStay
  <2>2. Alive' = Alive
    BY <2>1, AliveStays
  <2>3. UNCHANGED <<rows, last, mixed>> /\ ui # "closed"
    BY <1>3 DEF RowMenu, BackgroundMenu, LeaveMenu
  <2>4. \A t \in Threads : ListsAlone(t) => ListsAlone(t)'
    BY <2>1, <2>3 DEF AllStay, Stays, ListsAlone
  <2>5. Alive \subseteq Threads
    BY DEF Alive
  <2> QED BY <2>2, <2>3, <2>4, <2>5 DEF RowsAreLast
<1>4. CASE Starts
  <2>1. PICK t \in Threads \ Alive :
          /\ \A u \in Threads \ {t} : thread'[u] = thread[u]
          /\ thread'[t].step = IF thread'[t].job = "query" THEN "ask" ELSE "begin"
          /\ thread'[t].left = <<>>
    BY <1>t, <1>4, StartsBecome
  <2>2. /\ ui # "closed" /\ rows' = rows
        /\ mixed' = (mixed \/ Alive # {}) /\ last' = IF mixed' THEN <<>> ELSE last
    BY <1>t, <1>4, StartsBecome
  <2> SUFFICES ASSUME ~mixed'
               PROVE  Alive' = {t} /\ ListsAlone(t)'
    BY DEF RowsAreLast
  <2>3. ~mixed /\ Alive = {} /\ last' = last
    BY <2>2
  <2>4. Alive' = {t}
    BY <2>1, <2>3 DEF Alive
  <2>5. Shows(rows, last, Len(last))
    BY <2>2, <2>3 DEF RowsAreLast
  <2>6. Alone(<<>>, thread'[t].step, rows, last)
    BY <1>t, <2>1, <2>5, AloneStarts DEF OthersOK
  <2> QED BY <2>1, <2>2, <2>3, <2>4, <2>6 DEF ListsAlone
<1>5. ASSUME NEW t \in Threads, Run(t) \/ Dismiss(t) PROVE RowsAreLast'
  <2>1. Goes(t) /\ (thread[t].step = "rows" => (thread'[t].step = "fill" <=> thread[t].left # <<>>))
    BY <1>t, <1>5, ThreadsGo
  <2>2. /\ Arrow(thread[t].job, thread[t].step, thread'[t].step)
        /\ thread[t].step \notin {"list", "fill"} /\ thread'[t].step # "idle" =>
             thread'[t].left = thread[t].left
    BY <2>1 DEF Goes
  <2>3. t \in Alive /\ Alive' = IF thread'[t].step = "idle" THEN Alive \ {t} ELSE Alive
    BY <1>t, <2>1, AliveGoes
  <2>4. /\ ui' = ui
        /\ mixed' = IF Clear(t) THEN Alive # {t} ELSE mixed
    <3>1. ui' = ui
      BY <1>5, StepKinds, QuietLeaves, ChangesLeave DEF SwitchButton, List
    <3>2. Clear(t) => mixed' = (Alive # {t})
      BY DEF Clear
    <3>3. ~Clear(t) => mixed' = mixed
      BY <1>5, StepKinds, QuietLeaves DEF SwitchButton, List, Changes, Insert, Fill
    <3> QED BY <3>1, <3>2, <3>3
  <2>5. ~mixed' => Alive = {t}
    BY <2>3, <2>4 DEF RowsAreLast
  <2> SUFFICES ASSUME ~mixed', ui # "closed"
               PROVE  /\ thread'[t].step = "idle" => Shows(rows, last, Len(last))'
                      /\ thread'[t].step # "idle" => ListsAlone(t)'
    BY <2>3, <2>4, <2>5 DEF RowsAreLast
  <2>6. ~Clear(t) => ListsAlone(t)
    BY <2>3, <2>4 DEF RowsAreLast
  <2> DEFINE l == thread[t].left
             a == thread[t].step
             ll == thread'[t].left
             b == thread'[t].step
  <2>7. CASE Quiet(t) \/ SwitchButton(t)
    <3>1. UNCHANGED <<rows, last>> /\ ~Clear(t)
      <4>1. UNCHANGED <<rows, last>>
        BY <2>7, QuietLeaves DEF SwitchButton
      <4>2. ~Clear(t)
        BY <2>7, SwitchSteps DEF Clear, Quiet, ReadAddress, ReadMac, Command, Ask, Return, Dismiss, Boxes,
                                 SwitchButton
      <4> QED BY <4>1, <4>2
    <3>2. a \notin {"list", "fill"} /\ b # "fill"
      <4>1. a \notin {"list", "fill", "clear"}
        BY <2>7, SwitchSteps DEF Quiet, ReadAddress, ReadMac, Command, Ask, Return, Dismiss, Boxes,
                                 SwitchButton
      <4>2. a = "rows" => l = <<>>
        BY <2>7, SwitchSteps DEF Quiet, ReadAddress, ReadMac, Command, Ask, Return, Dismiss, Boxes,
                                 SwitchButton
      <4> QED BY <2>1, <2>2, <4>1, <4>2 DEF Arrow
    <3>3. b \in {"dim1", "dim2", "list"} => a \in {"dim1", "dim2", "list"}
      <4>1. a # "clear"
        BY <2>7, SwitchSteps DEF Quiet, ReadAddress, ReadMac, Command, Ask, Return, Dismiss, Boxes,
                                 SwitchButton
      <4> QED BY <2>2, <4>1 DEF Arrow
    <3>4. Alone(l, a, rows, last)
      BY <2>6, <3>1 DEF ListsAlone
    <3>5. CASE b = "idle"
      <4>1. l = <<>>
        BY <1>t, <2>1, <2>2, <3>5 DEF LeftIsOfList, Arrow
      <4>2. Shows(rows, last, Len(last))
        BY <1>t, <3>2, <3>4, <4>1, AloneEnds DEF OthersOK
      <4> QED BY <3>1, <3>5, <4>2
    <3>6. CASE b # "idle"
      <4>1. Alone(l, b, rows, last)
        BY <3>2, <3>3, <3>4, AloneGoes
      <4>2. ll = l
        BY <2>2, <3>2, <3>6
      <4> QED BY <3>1, <3>6, <4>1, <4>2 DEF ListsAlone
    <3> QED BY <3>5, <3>6
  <2>8. CASE List(t)
    <3>1. /\ a = "list" /\ b = "lit1" /\ ll \in Lists /\ last' = IF mixed THEN <<>> ELSE ll
          /\ rows' = rows /\ mixed' = mixed
      BY <1>t, <2>8, ListGoes DEF List
    <3>2. last' = ll /\ ll \in Seq(Devices) /\ ~Clear(t)
      BY <3>1, ListsAssumption DEF Clear
    <3>3. l = <<>>
      BY <1>t, <3>1 DEF LeftIsOfList
    <3>4. last = <<>> /\ Alone(l, a, rows, last)
      BY <2>6, <3>1, <3>2 DEF ListsAlone, Alone
    <3>5. Alone(ll, "lit1", rows, ll)
      BY <3>1, <3>2, <3>3, <3>4, AloneListed
    <3> QED BY <3>1, <3>2, <3>5 DEF ListsAlone
  <2>9. CASE Clear(t)
    <3>1. a = "clear" /\ b = "dim1" /\ rows' = <<>> /\ last' = <<>>
      <4>1. a = "clear" /\ rows' = <<>> /\ last' = <<>>
        BY <2>9 DEF Clear, ChangeRows
      <4>2. b = "dim1"
        BY <2>2, <4>1 DEF Arrow
      <4> QED BY <4>1, <4>2
    <3>2. ll = <<>>
      BY <1>t, <2>2, <3>1 DEF LeftIsOfList
    <3>3. Alone(<<>>, "dim1", <<>>, <<>>)
      BY AloneCleared, StepNames
    <3> QED BY <3>1, <3>2, <3>3 DEF ListsAlone
  <2>10. CASE Insert(t)
    <3>1. a = "rows" /\ b = "fill" /\ rows' = <<Blank>> \o rows /\ last' = last /\ ~Clear(t)
      <4>1. ~Clear(t) /\ a = "rows" /\ rows' = <<Blank>> \o rows /\ last' = last
        BY <2>10 DEF Insert, ChangeRows, Clear
      <4> QED BY <1>t, <2>10, <4>1, ChangeGoes
    <3>2. ll = l /\ l \in Seq(Devices)
      BY <1>t, <2>2, <3>1 DEF ThreadsOK, Locals
    <3>3. Alone(l, "rows", rows, last)
      BY <2>6, <3>1 DEF ListsAlone
    <3>4. Alone(l, "fill", <<Blank>> \o rows, last)
      BY <1>t, <3>2, <3>3, AloneInserted DEF OthersOK
    <3> QED BY <3>1, <3>2, <3>4 DEF ListsAlone
  <2>11. CASE Fill(t)
    <3>1. /\ a = "fill" /\ ll = Tail(l) /\ last' = last /\ ~Clear(t) /\ ~Insert(t)
          /\ rows' = IF rows = <<>> THEN rows ELSE [rows EXCEPT ![1] = Head(l)]
      <4>1. /\ a = "fill" /\ last' = last /\ ~Clear(t) /\ ~Insert(t)
            /\ rows' = IF rows = <<>> THEN rows ELSE [rows EXCEPT ![1] = Head(l)]
        BY <2>11 DEF Fill, ChangeRows, Clear, Insert
      <4>2. ll = Tail(l)
        BY <1>t, <2>11, ChangeGoes
      <4> QED BY <4>1, <4>2
    <3>2. b = "rows"
      BY <1>t, <2>11, <3>1, ChangeGoes
    <3>3. l \in Seq(Devices) /\ l # <<>> /\ Alone(l, "fill", rows, last)
      BY <1>t, <2>6, <3>1 DEF ThreadsOK, Locals, LeftIsOfList, ListsAlone
    <3>4. rows # <<>> /\ Alone(Tail(l), "rows", [rows EXCEPT ![1] = Head(l)], last)
      BY <1>t, <3>3, AloneFilled DEF OthersOK
    <3> QED BY <3>1, <3>2, <3>4 DEF ListsAlone
  <2> QED BY <1>5, <2>7, <2>8, <2>9, <2>10, <2>11, StepKinds DEF Changes
<1> QED BY <1>1, <1>2, <1>3, <1>4, <1>5 DEF Next, User, Starts

-----------------------------------------------------------------------------
(* The inductive invariant. *)
IInv == TypeOK /\ Threadwise /\ ClosedIsOver /\ ButtonsAreOwed /\ Sured /\ RowsAreLast

LEMMA InitIInv == Init => IInv
<1> SUFFICES ASSUME Init PROVE IInv
  OBVIOUS
<1>1. ThreadsOK /\ Alive = {}
  BY NoThreadType DEF Init, ThreadsOK, Alive
<1>2. OthersOK
  <2>1. <<>> \in Seq(Devices) /\ <<>> \in Seq(Devices \union {Blank})
    OBVIOUS
  <2> QED BY <2>1 DEF Init, OthersOK
<1>3. Threadwise
  BY <1>1, NoThreadType DEF Init, Threadwise, JobsHaveTheirSteps, LeftIsOfList
<1>4. ClosedIsOver /\ ButtonsAreOwed
  BY NoThreadType DEF Init, ClosedIsOver, ButtonsAreOwed
<1>5. Sured
  BY NoThreadType DEF Init, Sured, SureIsOnRow, CertainIsOnRow
<1>6. RowsAreLast
  BY <1>1 DEF Init, RowsAreLast
<1> QED BY <1>1, <1>2, <1>3, <1>4, <1>5, <1>6, TypeSplit DEF IInv

LEMMA NextIInv == IInv /\ [Next]_vars => IInv'
<1> SUFFICES ASSUME IInv, [Next]_vars PROVE IInv'
  OBVIOUS
<1>1. CASE Next
  <2>1. OthersOK' /\ Threadwise'
    BY <1>1, OthersKept, ThreadwiseKept DEF IInv, Threadwise
  <2>2. TypeOK'
    BY <2>1, TypeSplitNext DEF Threadwise
  <2>3. ClosedIsOver' /\ ButtonsAreOwed' /\ Sured' /\ RowsAreLast'
    BY <1>1, ButtonsKept, SuredKept, RowsKept DEF IInv
  <2> QED BY <2>1, <2>2, <2>3 DEF IInv
<1>2. CASE UNCHANGED vars
  <2>1. TypeOK' /\ Threadwise' /\ ClosedIsOver' /\ ButtonsAreOwed'
    BY <1>2 DEF IInv, vars, TypeOK, Threadwise, ThreadsOK, JobsHaveTheirSteps, LeftIsOfList, ClosedIsOver,
                ButtonsAreOwed, Owes
  <2>2. Sured' /\ RowsAreLast'
    BY <1>2 DEF IInv, vars, Sured, SureIsOnRow, CertainIsOnRow, OnRow, RowsAreLast, ListsAlone, Alive
  <2> QED BY <2>1, <2>2 DEF IInv
<1> QED BY <1>1, <1>2

LEMMA Invariant == Spec => []IInv
BY InitIInv, NextIInv, PTL DEF Spec

(* Every variable keeps its type and a thread that ended leaves nothing behind
   (dev_manage.cpp). *)
THEOREM TypeCorrect == Spec => []TypeOK
<1>1. IInv => TypeOK
  BY DEF IInv
<1> QED BY <1>1, Invariant, PTL

(* A disabled button of the open dialog is always owed by a thread that will enable it:
   the enable and disable calls of _dev_manage_qrylist, _add and _del match up. *)
THEOREM ButtonsComeBack == Spec => []ButtonsAreOwed
<1>1. IInv => ButtonsAreOwed
  BY DEF IInv
<1> QED BY <1>1, Invariant, PTL

(* The MAC that _dev_manage_del puts into its command is that of the row the menu was
   opened on, unless a row changed or another was chosen in between. *)
THEOREM RightDeviceIsDeleted == Spec => []CertainTargetIsDeleted
<1>1. IInv => CertainTargetIsDeleted
  BY DEF IInv, Sured, CertainIsOnRow, CertainTargetIsDeleted
<1> QED BY <1>1, Invariant, PTL

(* After a query that was alone, the list shows its whole answer, the last device on top. *)
THEOREM ListIsOfLastQuery == Spec => []LoneQueryIsListed
<1>1. IInv => LoneQueryIsListed
  <2> SUFFICES ASSUME IInv, ui # "closed", Alive = {}, ~mixed
               PROVE  /\ Len(rows) = Len(last)
                      /\ \A i \in DOMAIN rows : rows[i] = last[Len(last) + 1 - i]
    BY DEF LoneQueryIsListed
  <2>1. Shows(rows, last, Len(last))
    BY DEF IInv, RowsAreLast
  <2>2. DOMAIN rows = 1 .. Len(rows)
    BY DEF IInv, TypeOK
  <2> QED BY <2>1, <2>2 DEF Shows
<1> QED BY <1>1, Invariant, PTL

-----------------------------------------------------------------------------
(***************************************************************************)
(* Ssh2, for any number of threads.  What the table Calls says of each     *)
(* place is proved once, in two lemmas; the invariants follow from them    *)
(* without looking at single places.                                       *)
(***************************************************************************)

(* Each row leads to places and errors of the program, with whatever the *)
(* call needs there at hand: what this one needed and what it acquired,  *)
(* less what it released.                                                *)
LEMMA NeedsAreMet ==
  ASSUME NEW p \in DOMAIN Calls
  PROVE  LET s == Calls[p] IN
         /\ s.next \in Places /\ s.gets \subseteq Resources /\ s.frees \subseteq Resources
         /\ Needs(s.next) \subseteq
              (Needs(p) \union s.gets \union (IF p = "connect" THEN {"socket"} ELSE {})) \ s.frees
         /\ \A f \in s.fails :
              f[1] \in -11 .. -1 /\ f[2] \in Places /\ Needs(f[2]) \subseteq Needs(p)
         /\ "library" \notin s.gets /\ "library" \notin s.frees
         /\ s.next \notin Counting /\ \A f \in s.fails : f[2] \notin Counting
<1> DEFINE S == Calls[p]
<1>1. CASE p = "connect"   BY <1>1 DEF Calls, Row, Needs, Places, Resources, Counting
<1>2. CASE p = "session"   BY <1>2 DEF Calls, Row, Needs, Places, Resources, Counting
<1>3. CASE p = "handshake" BY <1>3 DEF Calls, Row, Needs, Places, Resources, Counting
<1>4. CASE p = "knownhost" BY <1>4 DEF Calls, Row, Needs, Places, Resources, Counting
<1>5. CASE p = "hostkey"   BY <1>5 DEF Calls, Row, Needs, Places, Resources, Counting
<1>6. CASE p = "auth"      BY <1>6 DEF Calls, Row, Needs, Places, Resources, Counting
<1>7. CASE p = "open"      BY <1>7 DEF Calls, Row, Needs, Places, Resources, Counting
<1>8. CASE p = "exec"      BY <1>8 DEF Calls, Row, Needs, Places, Resources, Counting
<1>9. CASE p = "read"      BY <1>9 DEF Calls, Row, Needs, Places, Resources, Counting
<1>10. CASE p = "close"    BY <1>10 DEF Calls, Row, Needs, Places, Resources, Counting
<1>11. CASE p = "disconnect"  BY <1>11 DEF Calls, Row, Needs, Places, Resources, Counting
<1>12. CASE p = "free"        BY <1>12 DEF Calls, Row, Needs, Places, Resources, Counting
<1>13. CASE p = "closesocket" BY <1>13 DEF Calls, Row, Needs, Places, Resources, Counting
<1> QED BY <1>1, <1>2, <1>3, <1>4, <1>5, <1>6, <1>7, <1>8, <1>9, <1>10, <1>11, <1>12, <1>13
        DEF Calls

-----------------------------------------------------------------------------
(* Types, and that each call of libssh2 is given what it uses. *)
Given == SshTypeOK /\ HoldsWhatItUses

LEMMA GivenStart == SshInit => Given
<1> SUFFICES ASSUME SshInit PROVE Given
  OBVIOUS
<1>1. "idle" \in Places /\ Needs("idle") = {} /\ -1 \in -11 .. -1
  BY DEF Places, Needs
<1>2. SshTypeOK
  BY <1>1 DEF SshInit, SshTypeOK
<1>3. HoldsWhatItUses
  BY <1>1 DEF SshInit, HoldsWhatItUses
<1> QED BY <1>2, <1>3 DEF Given

(* A step of one thread that arrives where its next call has what it needs. *)
LEMMA OneMoves ==
  ASSUME Given, NEW t \in Callers, NEW place \in Places,
         pc' = [pc EXCEPT ![t] = place],
         held' \in [Callers -> SUBSET Resources],
         Needs(place) \subseteq held'[t],
         \A u \in Callers \ {t} : held'[u] = held[u],
         ret' \in [Callers -> -11 .. -1], users' \in Nat,
         seen' \in [Callers -> Nat], raced' \in SUBSET Callers
  PROVE  Given'
<1>1. SshTypeOK'
  BY DEF SshTypeOK, Given
<1>2. ASSUME NEW u \in Callers PROVE Needs(pc'[u]) \subseteq held'[u]
  <2>1. CASE u = t
    BY <2>1 DEF SshTypeOK, Given
  <2>2. CASE u # t
    BY <2>2 DEF SshTypeOK, Given, HoldsWhatItUses
  <2> QED BY <2>1, <2>2
<1> QED BY <1>1, <1>2 DEF Given, HoldsWhatItUses

LEMMA GivenKept == Given /\ [SshNext]_sshVars => Given'
<1> SUFFICES ASSUME Given, [SshNext]_sshVars PROVE Given'
  OBVIOUS
<1>t. SshTypeOK
  BY DEF Given
<1>p. /\ {"startup", "init", "initialising", "socket", "returned", "exiting"} \subseteq Places
      /\ {"connect", "closesocket", "disconnect", "exit"} \subseteq Places
  BY DEF Places, Calls
<1>r. -1 \in -11 .. -1 /\ -2 \in -11 .. -1
  OBVIOUS
<1>n. /\ Needs("startup") = {} /\ Needs("init") = {} /\ Needs("initialising") = {}
      /\ Needs("returned") = {} /\ Needs("closesocket") = {}
      /\ Needs("socket") = {"library"} /\ Needs("connect") = {"library"}
      /\ Needs("exit") = {"library", "socket"} /\ Needs("exiting") = {"library", "socket"}
      /\ Needs("disconnect") \subseteq Needs("close") /\ Needs("exit") \subseteq Needs("free")
  BY DEF Needs
<1>h. \A u \in Callers : Needs(pc[u]) \subseteq held[u]
  BY DEF Given, HoldsWhatItUses
<1>1. ASSUME NEW t \in Callers, Call(t) PROVE Given'
  BY <1>1, <1>t, <1>p, <1>n, <1>r, OneMoves DEF Call, GoTo, SshTypeOK
<1>2. ASSUME NEW t \in Callers, Startup(t) PROVE Given'
  <2>1. CASE GoTo(t, "init")
    BY <1>2, <2>1, <1>t, <1>p, <1>n, OneMoves DEF Startup, GoTo, SshTypeOK
  <2>2. CASE GoTo(t, "returned")
    BY <1>2, <2>2, <1>t, <1>p, <1>n, OneMoves DEF Startup, GoTo, SshTypeOK
  <2> QED BY <1>2, <2>1, <2>2 DEF Startup
<1>3. ASSUME NEW t \in Callers, InitReads(t) PROVE Given'
  BY <1>3, <1>t, <1>p, <1>n, OneMoves DEF InitReads, ReadCount, GoTo, SshTypeOK
<1>4. ASSUME NEW t \in Callers, InitWrites(t) PROVE Given'
  <2>1. held' \in [Callers -> SUBSET Resources] /\ users' \in Nat
    BY <1>4, <1>t DEF InitWrites, SshTypeOK, Resources
  <2>2. "library" \in held'[t] /\ \A u \in Callers \ {t} : held'[u] = held[u]
    BY <1>4, <1>t DEF InitWrites, SshTypeOK
  <2> QED BY <1>4, <2>1, <2>2, <1>t, <1>p, <1>n, OneMoves DEF InitWrites, GoTo, SshTypeOK
<1>5. ASSUME NEW t \in Callers, InitFails(t) PROVE Given'
  BY <1>5, <1>t, <1>p, <1>n, <1>r, OneMoves DEF InitFails, GoTo, SshTypeOK
<1>6. ASSUME NEW t \in Callers, OpenSocket(t) PROVE Given'
  <2>1. PICK got \in SUBSET {"socket"} : held' = [held EXCEPT ![t] = @ \union got]
    BY <1>6 DEF OpenSocket
  <2>2. held' \in [Callers -> SUBSET Resources]
    BY <2>1, <1>t DEF SshTypeOK, Resources
  <2>3. "library" \in held'[t] /\ \A u \in Callers \ {t} : held'[u] = held[u]
    BY <1>6, <2>1, <1>t, <1>h, <1>n DEF OpenSocket, SshTypeOK
  <2>4. Needs("connect") \subseteq held'[t]
    BY <2>3, <1>n
  <2>5. "connect" \in Places /\ pc' = [pc EXCEPT ![t] = "connect"]
        /\ UNCHANGED <<ret, users, seen, raced>>
    BY <1>6, <1>p DEF OpenSocket, GoTo
  <2> QED BY <2>2, <2>3, <2>4, <2>5, <1>t, OneMoves DEF SshTypeOK
<1>7. ASSUME NEW t \in Callers, Succeed(t) PROVE Given'
  <2>1. PICK p \in DOMAIN Calls : p = pc[t]
    BY <1>7 DEF Succeed
  <2> DEFINE s == Calls[p]
  <2>2. /\ held' = [held EXCEPT ![t] = (held[t] \union s.gets) \ s.frees]
        /\ pc' = [pc EXCEPT ![t] = s.next]
        /\ p = "connect" => "socket" \in held[t]
        /\ UNCHANGED <<ret, users, seen, raced>>
    BY <1>7, <2>1 DEF Succeed, GoTo
  <2>3. /\ s.next \in Places /\ s.gets \subseteq Resources
        /\ Needs(s.next) \subseteq
             (Needs(p) \union s.gets \union (IF p = "connect" THEN {"socket"} ELSE {})) \ s.frees
    BY NeedsAreMet
  <2> HIDE DEF s
  <2>4. held' \in [Callers -> SUBSET Resources]
    BY <2>2, <2>3, <1>t DEF SshTypeOK
  <2>5. Needs(s.next) \subseteq (held[t] \union s.gets) \ s.frees
    BY <2>1, <2>2, <2>3, <1>h
  <2>6. held'[t] = (held[t] \union s.gets) \ s.frees /\ \A u \in Callers \ {t} : held'[u] = held[u]
    BY <2>2, <1>t DEF SshTypeOK
  <2> QED BY <2>2, <2>3, <2>4, <2>5, <2>6, <1>t, OneMoves DEF SshTypeOK
<1>8. ASSUME NEW t \in Callers, Fail(t) PROVE Given'
  <2>1. PICK f \in Calls[pc[t]].fails : /\ pc[t] \in DOMAIN Calls
                                        /\ ret' = [ret EXCEPT ![t] = f[1]]
                                        /\ pc' = [pc EXCEPT ![t] = f[2]]
                                        /\ UNCHANGED <<held, users, seen, raced>>
    BY <1>8 DEF Fail, GoTo
  <2>2. f[1] \in -11 .. -1 /\ f[2] \in Places /\ Needs(f[2]) \subseteq Needs(pc[t])
    BY <2>1, NeedsAreMet
  <2>3. ret' \in [Callers -> -11 .. -1]
    BY <2>1, <2>2, <1>t DEF SshTypeOK
  <2> QED BY <2>1, <2>2, <2>3, <1>t, <1>h, OneMoves DEF SshTypeOK
<1>9. ASSUME NEW t \in Callers, StayBusy(t) PROVE Given'
  <2>1. CASE pc[t] = "close"
    <3>1. pc' = [pc EXCEPT ![t] = "disconnect"] /\ UNCHANGED <<held, ret, users, seen, raced>>
      <4>1. Calls["close"].next = "disconnect"
        BY DEF Calls, Row
      <4> QED BY <4>1, <1>9, <2>1 DEF StayBusy, GoTo
    <3> QED BY <3>1, <2>1, <1>t, <1>p, <1>n, <1>h, OneMoves DEF SshTypeOK
  <2>2. CASE pc[t] = "free"
    <3>1. pc' = [pc EXCEPT ![t] = "exit"] /\ UNCHANGED <<held, ret, users, seen, raced>>
      <4>1. Calls["free"].next = "exit"
        BY DEF Calls, Row
      <4> QED BY <4>1, <1>9, <2>2 DEF StayBusy, GoTo
    <3> QED BY <3>1, <2>2, <1>t, <1>p, <1>n, <1>h, OneMoves DEF SshTypeOK
  <2> QED BY <1>9, <2>1, <2>2 DEF StayBusy
<1>10. ASSUME NEW t \in Callers, ExitReads(t) PROVE Given'
  <2>1. raced' \in SUBSET Callers /\ seen' \in [Callers -> Nat]
    BY <1>10, <1>t DEF ExitReads, ReadCount, SshTypeOK
  <2>2. {"library", "socket"} \subseteq held[t]
    BY <1>10, <1>h, <1>n DEF ExitReads
  <2>3. "exiting" \in Places /\ pc' = [pc EXCEPT ![t] = "exiting"]
        /\ UNCHANGED <<held, ret, users>>
    BY <1>10, <1>p DEF ExitReads, ReadCount, GoTo
  <2>4. Needs("exiting") \subseteq held'[t]
    BY <2>2, <2>3, <1>n
  <2> QED BY <2>1, <2>3, <2>4, <1>t, OneMoves DEF SshTypeOK
<1>11. ASSUME NEW t \in Callers, ExitWrites(t) PROVE Given'
  <2>1. users' \in Nat
    BY <1>11, <1>t DEF ExitWrites, SshTypeOK
  <2>2. held' \in [Callers -> SUBSET Resources] /\ \A u \in Callers \ {t} : held'[u] = held[u]
    BY <1>11, <1>t DEF ExitWrites, SshTypeOK
  <2> QED BY <1>11, <2>1, <2>2, <1>t, <1>p, <1>n, OneMoves DEF ExitWrites, GoTo, SshTypeOK
<1>12. CASE UNCHANGED sshVars
  BY <1>12 DEF Given, sshVars, SshTypeOK, HoldsWhatItUses
<1> QED BY <1>1, <1>2, <1>3, <1>4, <1>5, <1>6, <1>7, <1>8, <1>9, <1>10, <1>11, <1>12 DEF SshNext

(* Every call of the exchange is given what was acquired before it and not *)
(* yet released, for any number of threads.                                *)
THEOREM CallsAreGiven == SshSpec => [](SshTypeOK /\ HoldsWhatItUses)
<1>1. SshInit => Given
  BY GivenStart
<1>2. Given /\ [SshNext]_sshVars => Given'
  BY GivenKept
<1>3. Given => SshTypeOK /\ HoldsWhatItUses
  BY DEF Given
<1> QED BY <1>1, <1>2, <1>3, PTL DEF SshSpec

-----------------------------------------------------------------------------
(* What may be held at each place, beside a session and a channel, when ret  *)
(* is code: the inductive form of ReturnsRelease.                            *)
Passing == {"socket", "session", "connect", "handshake", "knownhost", "auth", "open",
            "exec", "read", "close"}

MayHold(place, code) ==
  CASE place \in Passing -> {"library", "socket"}
    [] place = "hostkey" -> {"library", "socket", "hosts"}
    [] place \in {"disconnect", "free", "exit", "exiting"}
         -> {"library", "socket"} \union (Lost(code) \intersect {"hosts"})
    [] place = "closesocket" -> {"socket"} \union (Lost(code) \ {"socket"})
    [] place = "returned" -> Lost(code)
    [] OTHER -> {}

Kept == {"session", "channel"}

HoldsNoMore == \A t \in Callers : held[t] \ Kept \subseteq MayHold(pc[t], ret[t])

(* Each row releases what its successor may not hold. *)
LEMMA MayHoldOfNext ==
  ASSUME NEW p \in DOMAIN Calls, NEW c
  PROVE  LET s == Calls[p] IN
         /\ ((MayHold(p, c) \union s.gets) \ s.frees) \ Kept \subseteq MayHold(s.next, c)
         /\ \A f \in s.fails : MayHold(p, c) \subseteq MayHold(f[2], f[1])
<1>1. CASE p = "connect"
  BY <1>1 DEF Calls, Row, MayHold, Passing, Lost, Kept
<1>2. CASE p = "session"
  BY <1>2 DEF Calls, Row, MayHold, Passing, Lost, Kept
<1>3. CASE p = "handshake"
  BY <1>3 DEF Calls, Row, MayHold, Passing, Lost, Kept
<1>4. CASE p = "knownhost"
  BY <1>4 DEF Calls, Row, MayHold, Passing, Lost, Kept
<1>5. CASE p = "hostkey"
  BY <1>5 DEF Calls, Row, MayHold, Passing, Lost, Kept
<1>6. CASE p = "auth"
  BY <1>6 DEF Calls, Row, MayHold, Passing, Lost, Kept
<1>7. CASE p = "open"
  BY <1>7 DEF Calls, Row, MayHold, Passing, Lost, Kept
<1>8. CASE p = "exec"
  BY <1>8 DEF Calls, Row, MayHold, Passing, Lost, Kept
<1>9. CASE p = "read"
  BY <1>9 DEF Calls, Row, MayHold, Passing, Lost, Kept
<1>10. CASE p = "close"
  BY <1>10 DEF Calls, Row, MayHold, Passing, Lost, Kept
<1>11. CASE p = "disconnect"
  BY <1>11 DEF Calls, Row, MayHold, Passing, Lost, Kept
<1>12. CASE p = "free"
  BY <1>12 DEF Calls, Row, MayHold, Passing, Lost, Kept
<1>13. CASE p = "closesocket"
  BY <1>13 DEF Calls, Row, MayHold, Passing, Lost, Kept
<1> QED BY <1>1, <1>2, <1>3, <1>4, <1>5, <1>6, <1>7, <1>8, <1>9, <1>10, <1>11, <1>12, <1>13
        DEF Calls

(* A step of one thread that arrives where it may hold what it has. *)
LEMMA OneArrives ==
  ASSUME SshTypeOK, HoldsNoMore, NEW t \in Callers, NEW place, NEW code,
         pc' = [pc EXCEPT ![t] = place], ret' = [ret EXCEPT ![t] = code],
         held'[t] \ Kept \subseteq MayHold(place, code),
         \A u \in Callers \ {t} : held'[u] = held[u]
  PROVE  HoldsNoMore'
<1> SUFFICES ASSUME NEW u \in Callers PROVE held'[u] \ Kept \subseteq MayHold(pc'[u], ret'[u])
  BY DEF HoldsNoMore
<1>1. CASE u = t
  BY <1>1 DEF SshTypeOK
<1>2. CASE u # t
  BY <1>2 DEF SshTypeOK, HoldsNoMore
<1> QED BY <1>1, <1>2

LEMMA HoldsNoMoreKept == SshTypeOK /\ HoldsNoMore /\ [SshNext]_sshVars => HoldsNoMore'
<1> SUFFICES ASSUME SshTypeOK, HoldsNoMore, [SshNext]_sshVars PROVE HoldsNoMore'
  OBVIOUS
<1>h. \A u \in Callers : held[u] \ Kept \subseteq MayHold(pc[u], ret[u])
  BY DEF HoldsNoMore
<1>k. \A u \in Callers : ret = [ret EXCEPT ![u] = ret[u]]
  BY DEF SshTypeOK
<1>m. \A c : /\ MayHold("startup", c) = {} /\ MayHold("init", c) = {}
             /\ MayHold("initialising", c) = {} /\ {} \subseteq MayHold("returned", c)
             /\ MayHold("socket", c) = {"library", "socket"}
             /\ MayHold("connect", c) = {"library", "socket"}
             /\ MayHold("exiting", c) = MayHold("exit", c)
             /\ MayHold("exit", c) = MayHold("free", c)
             /\ MayHold("close", c) \subseteq MayHold("disconnect", c)
             /\ MayHold("exiting", c) \ {"library"} \subseteq MayHold("closesocket", c)
  BY DEF MayHold, Passing, Lost
<1>1. ASSUME NEW t \in Callers, Call(t) PROVE HoldsNoMore'
  BY <1>1, <1>m, OneArrives DEF Call, GoTo, SshTypeOK
<1>2. ASSUME NEW t \in Callers, Startup(t) PROVE HoldsNoMore'
  <2>1. held[t] \ Kept = {}
    BY <1>2, <1>m, <1>h DEF Startup
  <2>2. PICK place \in {"init", "returned"} : pc' = [pc EXCEPT ![t] = place]
    BY <1>2 DEF Startup, GoTo
  <2>3. held' = held /\ ret' = [ret EXCEPT ![t] = ret[t]]
    BY <1>2, <1>k DEF Startup
  <2>4. held'[t] \ Kept \subseteq MayHold(place, ret[t])
    <3>1. held'[t] \ Kept = {}
      BY <2>1, <2>3
    <3> QED BY <3>1
  <2> QED BY <2>2, <2>3, <2>4, OneArrives
<1>3. ASSUME NEW t \in Callers, InitReads(t) PROVE HoldsNoMore'
  BY <1>3, <1>m, <1>h, <1>k, OneArrives, ZenonT(40) DEF InitReads, ReadCount, GoTo
<1>4. ASSUME NEW t \in Callers, InitWrites(t) PROVE HoldsNoMore'
  <2>1. held[t] \ Kept = {}
    BY <1>4, <1>m, <1>h DEF InitWrites
  <2>2. held'[t] \ Kept \subseteq {"library"} /\ \A u \in Callers \ {t} : held'[u] = held[u]
    BY <1>4, <2>1 DEF InitWrites, SshTypeOK
  <2>3. held'[t] \ Kept \subseteq MayHold("socket", ret[t])
    BY <2>2, <1>m
  <2> QED BY <1>4, <2>2, <2>3, <1>k, OneArrives DEF InitWrites, GoTo
<1>5. ASSUME NEW t \in Callers, InitFails(t) PROVE HoldsNoMore'
  <2>1. held'[t] \ Kept = {} /\ \A u \in Callers \ {t} : held'[u] = held[u]
    BY <1>5, <1>m, <1>h DEF InitFails
  <2> QED BY <1>5, <2>1, <1>m, OneArrives DEF InitFails, GoTo
<1>6. ASSUME NEW t \in Callers, OpenSocket(t) PROVE HoldsNoMore'
  <2>1. held[t] \ Kept \subseteq {"library", "socket"}
    BY <1>6, <1>m, <1>h DEF OpenSocket
  <2>2. held'[t] \ Kept \subseteq {"library", "socket"}
        /\ \A u \in Callers \ {t} : held'[u] = held[u]
    BY <1>6, <2>1 DEF OpenSocket, SshTypeOK
  <2>3. held'[t] \ Kept \subseteq MayHold("connect", ret[t])
    BY <2>2, <1>m
  <2> QED BY <1>6, <2>2, <2>3, <1>k, OneArrives DEF OpenSocket, GoTo
<1>7. ASSUME NEW t \in Callers, Succeed(t) PROVE HoldsNoMore'
  <2>1. PICK p \in DOMAIN Calls : p = pc[t]
    BY <1>7 DEF Succeed
  <2> DEFINE s == Calls[p]
  <2>2. /\ held' = [held EXCEPT ![t] = (held[t] \union s.gets) \ s.frees]
        /\ pc' = [pc EXCEPT ![t] = s.next] /\ ret' = ret
    BY <1>7, <2>1 DEF Succeed, GoTo
  <2>3. ((MayHold(p, ret[t]) \union s.gets) \ s.frees) \ Kept \subseteq MayHold(s.next, ret[t])
    BY MayHoldOfNext
  <2> HIDE DEF s
  <2>4. held'[t] = (held[t] \union s.gets) \ s.frees /\ \A u \in Callers \ {t} : held'[u] = held[u]
    BY <2>2 DEF SshTypeOK
  <2>5. held'[t] \ Kept \subseteq MayHold(s.next, ret[t])
    BY <2>1, <2>3, <2>4, <1>h
  <2> QED BY <2>2, <2>4, <2>5, <1>k, OneArrives
<1>8. ASSUME NEW t \in Callers, Fail(t) PROVE HoldsNoMore'
  <2>1. PICK f \in Calls[pc[t]].fails : /\ pc[t] \in DOMAIN Calls /\ held' = held
                                        /\ ret' = [ret EXCEPT ![t] = f[1]]
                                        /\ pc' = [pc EXCEPT ![t] = f[2]]
    BY <1>8 DEF Fail, GoTo
  <2>2. MayHold(pc[t], ret[t]) \subseteq MayHold(f[2], f[1])
    BY <2>1, MayHoldOfNext
  <2> QED BY <2>1, <2>2, <1>h, OneArrives
<1>9. ASSUME NEW t \in Callers, StayBusy(t) PROVE HoldsNoMore'
  <2>1. Calls["close"].next = "disconnect" /\ Calls["free"].next = "exit"
    BY DEF Calls, Row
  <2>2. CASE pc[t] = "close"
    <3>1. held'[t] \ Kept \subseteq MayHold("disconnect", ret[t])
      BY <1>9, <2>2, <1>m, <1>h DEF StayBusy
    <3> QED BY <1>9, <2>1, <2>2, <3>1, <1>k, OneArrives DEF StayBusy, GoTo
  <2>3. CASE pc[t] = "free"
    <3>1. held'[t] \ Kept \subseteq MayHold("exit", ret[t])
      BY <1>9, <2>3, <1>m, <1>h DEF StayBusy
    <3> QED BY <1>9, <2>1, <2>3, <3>1, <1>k, OneArrives DEF StayBusy, GoTo
  <2> QED BY <1>9, <2>2, <2>3 DEF StayBusy
<1>10. ASSUME NEW t \in Callers, ExitReads(t) PROVE HoldsNoMore'
  <2>1. held'[t] \ Kept \subseteq MayHold("exiting", ret[t])
    BY <1>10, <1>m, <1>h DEF ExitReads, ReadCount
  <2> QED BY <1>10, <2>1, <1>k, OneArrives DEF ExitReads, ReadCount, GoTo
<1>11. ASSUME NEW t \in Callers, ExitWrites(t) PROVE HoldsNoMore'
  <2>1. held'[t] = held[t] \ {"library"} /\ \A u \in Callers \ {t} : held'[u] = held[u]
    BY <1>11 DEF ExitWrites, SshTypeOK
  <2>2. held[t] \ Kept \subseteq MayHold("exiting", ret[t])
    BY <1>11, <1>h DEF ExitWrites
  <2>3. held'[t] \ Kept \subseteq MayHold("closesocket", ret[t])
    BY <2>1, <2>2, <1>m
  <2> QED BY <1>11, <2>1, <2>3, <1>k, OneArrives DEF ExitWrites, GoTo
<1>12. CASE UNCHANGED sshVars
  BY <1>12 DEF sshVars, HoldsNoMore
<1> QED BY <1>1, <1>2, <1>3, <1>4, <1>5, <1>6, <1>7, <1>8, <1>9, <1>10, <1>11, <1>12 DEF SshNext

(* A call that returns keeps no socket, no known hosts and no place in the   *)
(* library, but for what the three errors of Lost leave behind.              *)
THEOREM ReturnsAreClean == SshSpec => []ReturnsRelease
<1>1. SshInit => HoldsNoMore
  BY DEF SshInit, HoldsNoMore
<1>2. HoldsNoMore => ReturnsRelease
  BY DEF HoldsNoMore, ReturnsRelease, MayHold, Passing, Kept
<1>3. SshTypeOK /\ HoldsNoMore /\ [SshNext]_sshVars => HoldsNoMore'
  BY HoldsNoMoreKept
<1> QED BY <1>1, <1>2, <1>3, CallsAreGiven, PTL DEF SshSpec

-----------------------------------------------------------------------------
(* As long as nobody was found inside libssh2_init or libssh2_exit, at most *)
(* one thread is, and the count it has read is still the count.             *)
OneCounts ==
  raced = {} =>
    /\ users >= Cardinality(Using)
    /\ \A t \in Callers : pc[t] \in Counting =>
         seen[t] = users /\ \A u \in Callers \ {t} : pc[u] \notin Counting

LEMMA UsingIsFinite == IsFiniteSet(Using) /\ Cardinality(Using) \in Nat
BY CallersAssumption, FS_Subset, FS_CardinalityType DEF Using

(* A step outside of both functions by which nobody enters the library. *)
LEMMA OthersCount ==
  ASSUME SshTypeOK, OneCounts, UNCHANGED <<users, seen, raced>>, Using' \subseteq Using,
         \A u \in Callers : pc'[u] \in Counting => pc[u] \in Counting
  PROVE  OneCounts'
<1>1. Cardinality(Using') <= Cardinality(Using)
  BY UsingIsFinite, FS_Subset
<1>2. Cardinality(Using') \in Nat
  BY UsingIsFinite, FS_Subset, FS_CardinalityType
<1>3. CASE raced = {}
  BY <1>1, <1>2, <1>3, UsingIsFinite DEF OneCounts, SshTypeOK
<1>4. CASE raced # {}
  BY <1>4 DEF OneCounts
<1> QED BY <1>3, <1>4

LEMMA OneCountsKept == Given /\ OneCounts /\ [SshNext]_sshVars => OneCounts'
<1> SUFFICES ASSUME Given, OneCounts, [SshNext]_sshVars PROVE OneCounts'
  OBVIOUS
<1>t. SshTypeOK
  BY DEF Given
<1>1. ASSUME NEW t \in Callers, Call(t) PROVE OneCounts'
  BY <1>1, <1>t, OthersCount DEF Call, GoTo, Using, SshTypeOK, Counting
<1>2. ASSUME NEW t \in Callers, Startup(t) PROVE OneCounts'
  BY <1>2, <1>t, OthersCount DEF Startup, GoTo, Using, SshTypeOK, Counting
<1>3. ASSUME NEW t \in Callers, NEW place \in Counting, pc[t] \notin Counting, ReadCount(t, place)
      PROVE  OneCounts'
  <2>1. SUFFICES ASSUME raced' = {} PROVE OneCounts'
    BY DEF OneCounts
  <2>2. raced = {} /\ \A u \in Callers : pc[u] \notin Counting
    BY <1>3, <2>1 DEF ReadCount
  <2>3. Using' = Using /\ users' = users
    BY <1>3 DEF ReadCount, Using
  <2>4. \A u \in Callers : pc'[u] \in Counting => u = t /\ seen'[u] = users
    BY <1>3, <2>2, <1>t DEF ReadCount, GoTo, SshTypeOK
  <2> QED BY <2>2, <2>3, <2>4 DEF OneCounts
<1>4. ASSUME NEW t \in Callers, InitWrites(t) PROVE OneCounts'
  <2>1. SUFFICES ASSUME raced = {} PROVE OneCounts'
    BY <1>4 DEF OneCounts, InitWrites
  <2>2. seen[t] = users /\ \A u \in Callers \ {t} : pc[u] \notin Counting
    BY <1>4, <2>1 DEF OneCounts, InitWrites, Counting
  <2>3. users' = users + 1 /\ users \in Nat
    BY <1>4, <2>2, <1>t DEF InitWrites, SshTypeOK
  <2>4. Using' = Using \union {t}
    BY <1>4, <1>t DEF InitWrites, Using, SshTypeOK
  <2>5. Cardinality(Using') <= Cardinality(Using) + 1 /\ Cardinality(Using') \in Nat
    <3>1. /\ IsFiniteSet(Using \union {t})
          /\ Cardinality(Using \union {t}) = IF t \in Using THEN Cardinality(Using)
                                            ELSE Cardinality(Using) + 1
      BY UsingIsFinite, FS_AddElement
    <3> QED BY <2>4, <3>1, UsingIsFinite
  <2>6. users' >= Cardinality(Using')
    BY <2>1, <2>3, <2>5, UsingIsFinite DEF OneCounts
  <2>7. \A u \in Callers : pc'[u] \notin Counting
    BY <1>4, <2>2, <1>t DEF InitWrites, GoTo, SshTypeOK, Counting
  <2> QED BY <2>6, <2>7 DEF OneCounts
<1>5. ASSUME NEW t \in Callers, InitFails(t) PROVE OneCounts'
  BY <1>5, <1>t, OthersCount DEF InitFails, GoTo, Using, SshTypeOK, Counting
<1>6. ASSUME NEW t \in Callers, OpenSocket(t) PROVE OneCounts'
  <2>1. Using' \subseteq Using /\ UNCHANGED <<users, seen, raced>>
    BY <1>6, <1>t DEF OpenSocket, Using, SshTypeOK
  <2>2. \A u \in Callers : pc'[u] \in Counting => pc[u] \in Counting
    BY <1>6, <1>t DEF OpenSocket, GoTo, Counting, SshTypeOK
  <2> QED BY <2>1, <2>2, <1>t, OthersCount
<1>7. ASSUME NEW t \in Callers, Succeed(t) PROVE OneCounts'
  <2>1. PICK p \in DOMAIN Calls : p = pc[t]
    BY <1>7 DEF Succeed
  <2> DEFINE s == Calls[p]
  <2>2. /\ held' = [held EXCEPT ![t] = (held[t] \union s.gets) \ s.frees]
        /\ pc' = [pc EXCEPT ![t] = s.next] /\ UNCHANGED <<users, seen, raced>>
    BY <1>7, <2>1 DEF Succeed, GoTo
  <2>3. "library" \notin s.gets /\ s.next \notin Counting
    BY NeedsAreMet
  <2> HIDE DEF s
  <2>4. Using' \subseteq Using /\ \A u \in Callers : pc'[u] \in Counting => pc[u] \in Counting
    BY <2>2, <2>3, <1>t DEF Using, SshTypeOK
  <2> QED BY <2>2, <2>4, <1>t, OthersCount
<1>8. ASSUME NEW t \in Callers, Fail(t) PROVE OneCounts'
  <2>1. PICK f \in Calls[pc[t]].fails : /\ pc[t] \in DOMAIN Calls
                                        /\ pc' = [pc EXCEPT ![t] = f[2]]
                                        /\ UNCHANGED <<held, users, seen, raced>>
    BY <1>8 DEF Fail, GoTo
  <2>2. f[2] \notin Counting
    BY <2>1, NeedsAreMet
  <2>3. Using' \subseteq Using /\ \A u \in Callers : pc'[u] \in Counting => pc[u] \in Counting
    BY <2>1, <2>2, <1>t DEF Using, SshTypeOK
  <2> QED BY <2>1, <2>3, <1>t, OthersCount
<1>9. ASSUME NEW t \in Callers, StayBusy(t) PROVE OneCounts'
  <2>1. Calls["close"].next = "disconnect" /\ Calls["free"].next = "exit"
    BY DEF Calls, Row
  <2>2. Using' \subseteq Using /\ UNCHANGED <<users, seen, raced>>
    BY <1>9 DEF StayBusy, Using
  <2>3. \A u \in Callers : pc'[u] \in Counting => pc[u] \in Counting
    BY <1>9, <2>1, <1>t DEF StayBusy, GoTo, Counting, SshTypeOK
  <2> QED BY <2>2, <2>3, <1>t, OthersCount
<1>10. ASSUME NEW t \in Callers, ExitWrites(t) PROVE OneCounts'
  <2>1. SUFFICES ASSUME raced = {} PROVE OneCounts'
    BY <1>10 DEF OneCounts, ExitWrites
  <2>2. seen[t] = users /\ \A u \in Callers \ {t} : pc[u] \notin Counting
    BY <1>10, <2>1 DEF OneCounts, ExitWrites, Counting
  <2>3. t \in Using
    BY <1>10 DEF Given, HoldsWhatItUses, Needs, ExitWrites, Using
  <2>4. Using' = Using \ {t}
    BY <1>10, <1>t DEF ExitWrites, Using, SshTypeOK
  <2>5. Cardinality(Using') = Cardinality(Using) - 1 /\ Cardinality(Using') \in Nat
    BY <2>3, <2>4, UsingIsFinite, FS_RemoveElement, FS_CardinalityType
  <2>6. users >= Cardinality(Using) /\ users \in Nat
    BY <2>1, <1>t DEF OneCounts, SshTypeOK
  <2>7. users' = users - 1
    BY <1>10, <2>2, <2>5, <2>6, UsingIsFinite DEF ExitWrites
  <2>8. users' >= Cardinality(Using')
    BY <2>5, <2>6, <2>7, UsingIsFinite
  <2>9. \A u \in Callers : pc'[u] \notin Counting
    BY <1>10, <2>2, <1>t DEF ExitWrites, GoTo, SshTypeOK, Counting
  <2> QED BY <2>8, <2>9 DEF OneCounts
<1>11. CASE UNCHANGED sshVars
  BY <1>11, <1>t, OthersCount DEF sshVars, Using
<1>12. ASSUME NEW t \in Callers, InitReads(t) \/ ExitReads(t) PROVE OneCounts'
  BY <1>12, <1>3 DEF InitReads, ExitReads, Counting
<1> QED BY <1>1, <1>2, <1>4, <1>5, <1>6, <1>7, <1>8, <1>9, <1>10, <1>11, <1>12 DEF SshNext

(* As long as libssh2_init and libssh2_exit did not run concurrently, no      *)
(* call's libssh2_exit takes the library down under another call.             *)
THEOREM LibraryStaysUp == SshSpec => []LibraryIsUp
<1>1. SshInit => OneCounts
  <2> SUFFICES ASSUME SshInit PROVE OneCounts
    OBVIOUS
  <2>1. Using = {}
    BY DEF SshInit, Using
  <2>2. Cardinality(Using) = 0
    BY <2>1, FS_EmptySet
  <2> QED BY <2>2 DEF SshInit, OneCounts, Counting
<1>2. OneCounts => LibraryIsUp
  BY DEF OneCounts, LibraryIsUp
<1>3. Given /\ OneCounts /\ [SshNext]_sshVars => OneCounts'
  BY OneCountsKept
<1> QED BY <1>1, <1>2, <1>3, GivenStart, GivenKept, PTL DEF SshSpec
=============================================================================
