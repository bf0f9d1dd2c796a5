------------------------------- MODULE GwScan -------------------------------
(***************************************************************************)
(* The gateway scan of main.cpp: the user-interface thread that runs the   *)
(* main dialog, the scan thread it wakes through an auto-reset event, the  *)
(* gateways' answers on the local network and the list control both        *)
(* threads work on.                                                        *)
(*                                                                         *)
(* A call of SendMessage from the scan thread is carried out by the        *)
(* user-interface thread, and only while that thread pumps messages: each  *)
(* such call is an action of the scan thread guarded by Pumping.  A        *)
(* configuration dialog that waits for a datagram blocks the pump; here it *)
(* is only UiBlock and UiResume, GwManager gives it its content.           *)
(***************************************************************************)
EXTENDS Integers, Sequences

CONSTANTS
  Gateways,   (* the gateways of the network; one stands for its mac and its address *)
  Blank,      (* the address column of a row whose columns are not written yet       *)
  MaxTicks,   (* receive timeouts after which a scan ends (10 in the code)           *)
  MaxCopies   (* bound: answers of one gateway that are under way at the same time   *)

ASSUME GatewaysAssumption == Blank \notin Gateways
ASSUME BoundsAssumption == MaxTicks \in Nat \ {0} /\ MaxCopies \in Nat \ {0}

VARIABLES
  ui,         (* the user-interface thread: it pumps messages, is busy, or has closed *)
  enabled,    (* the scan button is enabled                                           *)
  event,      (* hEvent is signalled                                                  *)
  list,       (* rows of g_hgwlist, the topmost first                                 *)
  selected,   (* g_selected_item: a row's index counted from 0, or -1                 *)
  thread,     (* where the scan thread is                                             *)
  devs,       (* local devs of scan_devices: the macs met by this scan                *)
  answer,     (* the gateway whose answer scan_devices is working on                  *)
  ticks,      (* local cnt of scan_devices                                            *)
  net         (* scan answers under way to port 9999, by gateway                      *)

uiVars   == <<ui, enabled, selected>>
scanVars == <<devs, answer, ticks>>
vars     == <<ui, enabled, event, list, selected, thread, devs, answer, ticks, net>>

ThreadStates == {"wait", "open", "send", "range", "recv", "insert", "fill",
                 "tick", "finish", "notify", "loop"}

(* Types: the thread is at one of its steps and the progress counter stays in its range. *)
TypeOK ==
  /\ ui \in {"pump", "busy", "closed"}
  /\ enabled \in BOOLEAN
  /\ event \in BOOLEAN
  /\ list \in Seq(Gateways \union {Blank})
  /\ selected \in Int
  /\ thread \in ThreadStates
  /\ devs \in SUBSET Gateways
  /\ answer \in Gateways \union {Blank}
  /\ ticks \in 0 .. MaxTicks
  /\ net \in [Gateways -> 0 .. MaxCopies]

Pumping == ui = "pump"
Alive   == ui # "closed"

Goto(from, to) == Alive /\ thread = from /\ thread' = to

Arrives(g) == net[g] > 0 /\ net' = [net EXCEPT ![g] = @ - 1]

Capped(n) == IF n > MaxCopies THEN MaxCopies ELSE n

Init ==
  /\ ui = "pump" /\ enabled = TRUE /\ event = FALSE
  /\ list = <<>> /\ selected = -1
  /\ thread = "wait" /\ devs = {} /\ answer = Blank /\ ticks = 0
  /\ net = [g \in Gateways |-> 0]

-----------------------------------------------------------------------------
(* The user-interface thread. *)

(* A slip of ClickScan: the button is not disabled. *)
ClickScanKeepsButton ==
  /\ Pumping /\ enabled
  /\ list' = <<>>
  /\ event' = TRUE
  /\ UNCHANGED <<ui, enabled, selected, thread, net>> /\ UNCHANGED scanVars

(* BTN_SCAN: disable the button, scan_start clears the list and sets the event.
   The selection is left as it was. *)
ClickScan ==
  /\ Pumping /\ enabled
  /\ enabled' = FALSE
  /\ list' = <<>>
  /\ event' = TRUE
  /\ UNCHANGED <<ui, selected, thread, net>> /\ UNCHANGED scanVars

(* NM_RCLICK on the row with index i: vlist_hitted_item finds it. *)
RightClick(i) ==
  /\ Pumping
  /\ selected' = i
  /\ UNCHANGED <<ui, enabled, event, list, thread, net>> /\ UNCHANGED scanVars

(* A dialog's handler starts waiting for a datagram, and returns to its pump; a late
   scan answer on port 9999 may be what it was given. *)
UiBlock ==
  /\ Pumping /\ ui' = "busy"
  /\ UNCHANGED <<enabled, event, list, selected, thread, net>> /\ UNCHANGED scanVars

UiResume ==
  /\ ui = "busy" /\ ui' = "pump"
  /\ UNCHANGED net \/ \E g \in Gateways : Arrives(g)
  /\ UNCHANGED <<enabled, event, list, selected, thread>> /\ UNCHANGED scanVars

(* WM_CLOSE and IDM_EXIT: EndDialog, WinMain returns and the process ends. *)
Close ==
  /\ Pumping /\ ui' = "closed"
  /\ UNCHANGED <<enabled, event, list, selected, thread, net>> /\ UNCHANGED scanVars

-----------------------------------------------------------------------------
(* The scan thread. *)

(* WaitForSingleObject returns and resets the event. *)
Wake ==
  /\ Goto("wait", "open")
  /\ event /\ event' = FALSE
  /\ UNCHANGED <<list, net>> /\ UNCHANGED uiVars /\ UNCHANGED scanVars

(* Slip of OpenSocket: the failure is not reported to the main window. *)
OpenSocketSilently ==
  /\ Goto("open", "send") \/ Goto("open", "wait")
  /\ UNCHANGED <<event, list, net>> /\ UNCHANGED uiVars /\ UNCHANGED scanVars

(* udp_open(9999) in scan_devices; without a socket the scan is over. *)
OpenSocket ==
  /\ Goto("open", "send") \/ Goto("open", "notify")
  /\ UNCHANGED <<event, list, net>> /\ UNCHANGED uiVars /\ UNCHANGED scanVars

(* udp_send of the Query broadcast.  Each gateway answers any number of times up
   to the bound: not at all when the query or the answer is lost. *)
Broadcast ==
  /\ Goto("send", "range")
  /\ \E copies \in [Gateways -> 0 .. MaxCopies] :
        net' = [g \in Gateways |-> Capped(net[g] + copies[g])]
  /\ UNCHANGED <<event, list>> /\ UNCHANGED uiVars /\ UNCHANGED scanVars

(* udp_send reports a failure: the socket is closed and the scan is over. *)
BroadcastFails ==
  /\ Goto("send", "notify")
  /\ UNCHANGED <<event, list, net>> /\ UNCHANGED uiVars /\ UNCHANGED scanVars

(* PBM_SETRANGE on the progress bar. *)
SetRange ==
  /\ Pumping /\ Goto("range", "recv")
  /\ UNCHANGED <<event, list, net>> /\ UNCHANGED uiVars /\ UNCHANGED scanVars

(* Slip of RecvNew: devs is not searched. *)
RecvNewUnsearched(g) ==
  /\ Goto("recv", "insert")
  /\ Arrives(g)
  /\ devs' = devs \union {g}
  /\ answer' = g
  /\ UNCHANGED <<ticks, event, list>> /\ UNCHANGED uiVars

(* A complete answer of a gateway this scan has not met: a row will be inserted. *)
RecvNew(g) ==
  /\ Goto("recv", "insert")
  /\ Arrives(g)
  /\ g \notin devs
  /\ devs' = devs \union {g}
  /\ answer' = g
  /\ UNCHANGED <<ticks, event, list>> /\ UNCHANGED uiVars

(* An answer that repeats a mac, or one whose ret or fields are not as required. *)
RecvIgnored(g) ==
  /\ Goto("recv", "recv")
  /\ Arrives(g)
  /\ UNCHANGED <<event, list>> /\ UNCHANGED uiVars /\ UNCHANGED scanVars

(* udp_recv returns 0 after a second: the answers under way may be late. *)
RecvTimeout ==
  /\ Goto("recv", "tick")
  /\ ticks' = ticks + 1
  /\ UNCHANGED <<devs, answer, event, list, net>> /\ UNCHANGED uiVars

(* udp_recv returns a negative number. *)
RecvError ==
  /\ Goto("recv", "finish")
  /\ UNCHANGED <<event, list, net>> /\ UNCHANGED uiVars /\ UNCHANGED scanVars

(* PBM_SETPOS after a timeout, then the test of cnt. *)
Progress ==
  /\ Pumping
  /\ IF ticks >= MaxTicks THEN Goto("tick", "finish") ELSE Goto("tick", "recv")
  /\ UNCHANGED <<event, list, net>> /\ UNCHANGED uiVars /\ UNCHANGED scanVars

(* Slip of InsertRow: the row goes to the end, where FillRow does not look for it. *)
InsertRowAtEnd ==
  /\ Pumping /\ Goto("insert", "fill")
  /\ list' = Append(list, Blank)
  /\ UNCHANGED <<event, net>> /\ UNCHANGED uiVars /\ UNCHANGED scanVars

(* vlist_append, LVM_INSERTITEM: TabCtrl_GetRowCount is not a list view message, the
   count it returns is 0, and the row goes to the top of the list. *)
InsertRow ==
  /\ Pumping /\ Goto("insert", "fill")
  /\ list' = <<Blank>> \o list
  /\ UNCHANGED <<event, net>> /\ UNCHANGED uiVars /\ UNCHANGED scanVars

(* A slip of FillRow: the columns are not written. *)
FillRowNot ==
  /\ Pumping /\ Goto("fill", "recv")
  /\ answer' = Blank
  /\ UNCHANGED <<list, devs, ticks, event, net>> /\ UNCHANGED uiVars

(* vlist_append, the last LVM_SETITEM: the address column of row 0. *)
FillRow ==
  /\ Pumping /\ Goto("fill", "recv")
  /\ list' = [list EXCEPT ![1] = answer]
  /\ answer' = Blank
  /\ UNCHANGED <<devs, ticks, event, net>> /\ UNCHANGED uiVars

(* PBM_SETPOS 100 and udp_close; scan_devices returns and its locals are gone. *)
Finish ==
  /\ Pumping /\ Goto("finish", "notify")
  /\ devs' = {} /\ ticks' = 0
  /\ UNCHANGED <<answer, event, list, net>> /\ UNCHANGED uiVars

(* SendMessage(WM_USER+1): scan_stop does nothing, the button is enabled again. *)
Notify ==
  /\ Pumping /\ Goto("notify", "loop")
  /\ enabled' = TRUE
  /\ UNCHANGED <<ui, selected, event, list, net>> /\ UNCHANGED scanVars

(* Slip of Loop: the event is reset after the scan, with a click that came meanwhile. *)
LoopResetsEvent ==
  /\ Goto("loop", "wait")
  /\ event' = FALSE
  /\ UNCHANGED <<list, net>> /\ UNCHANGED uiVars /\ UNCHANGED scanVars

(* SendMessage returns and the loop goes back to its wait. *)
Loop ==
  /\ Goto("loop", "wait")
  /\ UNCHANGED <<event, list, net>> /\ UNCHANGED uiVars /\ UNCHANGED scanVars

(* A datagram is lost, or finds no socket on port 9999. *)
Lose(g) ==
  /\ Alive
  /\ Arrives(g)
  /\ UNCHANGED <<event, list, thread>> /\ UNCHANGED uiVars /\ UNCHANGED scanVars

-----------------------------------------------------------------------------
ScanThread ==
  \/ Wake \/ OpenSocket \/ Broadcast \/ BroadcastFails \/ SetRange
  \/ RecvTimeout \/ RecvError \/ Progress \/ InsertRow \/ FillRow
  \/ Finish \/ Notify \/ Loop
  \/ \E g \in Gateways : RecvNew(g) \/ RecvIgnored(g)

UserInterface ==
  \/ ClickScan \/ UiBlock \/ UiResume \/ Close
  \/ \E i \in 0 .. Len(list) - 1 : RightClick(i)

Next == ScanThread \/ UserInterface \/ \E g \in Gateways : Lose(g)

(* The scan thread runs, and the message it sends is handled before any posted one
   each time the pump is reached: strong fairness.  A busy handler returns. *)
Fairness == SF_vars(ScanThread) /\ WF_vars(UiResume)

Spec     == Init /\ [][Next]_vars
FairSpec == Spec /\ Fairness

-----------------------------------------------------------------------------
(* Properties. *)

Rows      == {list[i] : i \in DOMAIN list}
Listening == {"range", "recv", "insert", "fill", "tick", "finish"}

(* The button is enabled exactly when no scan is asked for or under way, so no
   second click can clear the list or the event of a running scan. *)
ButtonTellsIdle ==
  enabled <=> ~event /\ thread \in {"wait", "loop"}

(* No gateway has two rows, although devs forgets everything between two scans and
   the rows are inserted by messages that arrive later. *)
NoDuplicateRow ==
  \A i, j \in DOMAIN list : list[i] = list[j] => i = j

(* A row without address is the topmost one, and exists only while vlist_append is
   between its messages: LVM_SETITEM writes to the row LVM_INSERTITEM made. *)
BlankIsBeingFilled ==
  /\ \A i \in DOMAIN list : list[i] = Blank => i = 1 /\ thread = "fill"
  /\ thread = "fill" => list # <<>> /\ list[1] = Blank

(* While a scan listens, the list shows exactly the gateways it has met. *)
ListShowsDevs ==
  thread \in Listening =>
     Rows \ {Blank} = IF thread \in {"insert", "fill"} THEN devs \ {answer} ELSE devs

(* The list is right in all three respects, although the main window may handle clicks
   between any two of the messages that make a row. *)
ListIsRight == NoDuplicateRow /\ BlankIsBeingFilled /\ ListShowsDevs

(* Only the start of a scan removes a row, and a row keeps its distance from the
   bottom of the list: rows move down, they never change their order. *)
RowsOnlyMoveDown ==
  [][ \/ thread' \in {"wait", "loop"} /\ event' /\ list' = <<>>
      \/ /\ Len(list') >= Len(list)
         /\ \A i \in DOMAIN list :
              list[i] # Blank => list'[i + Len(list') - Len(list)] = list[i] ]_vars

(* Every click on the scan button starts a scan, also one that comes before the scan
   thread is back in its wait, and every scan ends by enabling the button. *)
ClickStartsScan == event ~> (thread = "open" \/ ~Alive)
ButtonComesBack == ~enabled ~> (enabled \/ ~Alive)

(* An answer that was accepted gets its row. *)
AnswerIsShown ==
  \A g \in Gateways :
    (thread = "insert" /\ answer = g) ~> (g \in Rows \/ ~Alive)

(* What makes the properties above inductive: an event is pending only while the
   thread is not scanning, a scan starts from an empty list with fresh locals, the
   answer being appended is among the devices met, and the retry loop is left at the limit. *)
EventIsForIdle   == event => thread \in {"wait", "loop"}
ScanStartsEmpty  == event \/ thread \in {"open", "send"} => list = <<>>
LocalsAreGone    == thread \notin Listening => devs = {} /\ ticks = 0
AnswerIsMet      == thread \in {"insert", "fill"} => answer \in devs
TicksBelowLimit  == thread \in {"range", "recv", "insert", "fill"} => ticks < MaxTicks

ScanInv ==
  /\ TypeOK
  /\ ButtonTellsIdle
  /\ NoDuplicateRow
  /\ BlankIsBeingFilled
  /\ ListShowsDevs
  /\ EventIsForIdle
  /\ ScanStartsEmpty
  /\ LocalsAreGone
  /\ AnswerIsMet
  /\ TicksBelowLimit
=============================================================================
