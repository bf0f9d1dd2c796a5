------------------------------- MODULE DevManage -------------------------------
(***************************************************************************)
(* The device-management dialog.  Its two buttons and the delete command   *)
(* of its popup menu each start a thread that talks to the gateway by ssh  *)
(* and then lists the gateway's devices.  The threads share the buttons,   *)
(* the fields and, by two globals, the list and the selected row; nothing  *)
(* orders them, and they outlive the dialog.                               *)
(*                                                                         *)
(* The gateway is external: a query may return any of Lists.  A failed one *)
(* leaves the list empty, as a gateway without devices does.               *)
(***************************************************************************)
EXTENDS Integers, Sequences

CONSTANTS
  Devices,      (* MACs _dev_manage_valid_mac accepts                             *)
  Default,      (* the MAC the delete command's buffer holds, "00158d00026c5444"  *)
  Lists,        (* the device lists a gateway may answer with                     *)
  Blank, None,  (* the empty text; no device                                      *)
  Jobs,         (* the operations in use, among "query", "add" and "del"          *)
  Threads       (* bound: the threads that can be alive at the same time          *)

ASSUME DefaultAssumption == Default \in Devices
ASSUME JobsAssumption    == Jobs \subseteq {"query", "add", "del"}
ASSUME ListsAssumption   == Lists \subseteq Seq(Devices) /\ <<>> \in Lists
ASSUME BlankAssumption   == Blank \notin Devices /\ None \notin Devices

VARIABLES
  ui,        (* the dialog: "closed", "dialog", or "menu" under its popup menu *)
  buttons,   (* whether BTN_QRY_DEV and BTN_ADD_DEV are enabled                *)
  rows,      (* the MAC column of g_hdevlist, top first                        *)
  selected,  (* g_selected_dev_item                                            *)
  thread,    (* the threads and their locals                                   *)
  chosen,    (* history: the device the open popup menu was opened on          *)
  sure,      (* history: no row has changed since then                         *)
  last,      (* history: the answer of the latest query, if it is alone        *)
  mixed      (* history: the rows may be those of several threads              *)

vars == <<ui, buttons, rows, selected, thread, chosen, sure, last, mixed>>

(* A button a thread switches, the new state, and the thread's next step.  The first
   two and the last two are those of add and del, the others those of qrylist. *)
Switch == [
  off1 |-> [button |-> "query", on |-> FALSE, then |-> "off2"],
  off2 |-> [button |-> "add",   on |-> FALSE, then |-> "cmd"],
  dim1 |-> [button |-> "query", on |-> FALSE, then |-> "dim2"],
  dim2 |-> [button |-> "add",   on |-> FALSE, then |-> "list"],
  lit1 |-> [button |-> "query", on |-> TRUE,  then |-> "lit2"],
  lit2 |-> [button |-> "add",   on |-> TRUE,  then |-> "rows"],
  on1  |-> [button |-> "query", on |-> TRUE,  then |-> "on2"],
  on2  |-> [button |-> "add",   on |-> TRUE,  then |-> "idle"]]

Boxes == {"refused", "refusedQuery"}
Steps == {"idle", "begin", "mac", "cmd", "ask", "clear", "list", "rows", "fill"}
           \union Boxes \union DOMAIN Switch

(* live: hwnd is the open dialog.  mac is the device to delete, left the devices not
   appended yet, target and certain what chosen and sure were when the delete command
   was given. *)
NoThread == [step |-> "idle", job |-> "none", live |-> FALSE, mac |-> Blank,
             left |-> <<>>, target |-> None, certain |-> FALSE]

(* Types: an idle thread has no locals left from an earlier job. *)
TypeOK ==
  /\ ui \in {"closed", "dialog", "menu"}
  /\ buttons \in [{"query", "add"} -> BOOLEAN]
  /\ rows \in Seq(Devices \union {Blank})
  /\ selected \in Nat \union {-1}
  /\ thread \in [Threads -> [
       step : Steps, job : {"none", "query", "add", "del"}, live : BOOLEAN,
       mac : Devices \union {Blank}, left : Seq(Devices),
       target : Devices \union {Blank, None}, certain : BOOLEAN]]
  /\ \A t \in Threads : thread[t].step = "idle" => thread[t] = NoThread
  /\ chosen \in Devices \union {Blank, None}
  /\ sure \in BOOLEAN /\ last \in Seq(Devices) /\ mixed \in BOOLEAN

Init ==
  /\ ui = "closed" /\ buttons = [b \in {"query", "add"} |-> TRUE]
  /\ rows = <<>> /\ selected = -1
  /\ thread = [t \in Threads |-> NoThread]
  /\ chosen = None /\ sure = FALSE /\ last = <<>> /\ mixed = FALSE

Alive == {t \in Threads : thread[t].step # "idle"}

-----------------------------------------------------------------------------
(* The dialog, on the user-interface thread. *)

(* DialogBox and WM_INITDIALOG: the list is new, g_selected_dev_item is not reset, and
   threads of an earlier dialog now find this list in g_hdevlist. *)
Open ==
  /\ ui = "closed" /\ ui' = "dialog"
  /\ rows' = <<>> /\ last' = <<>> /\ mixed' = (Alive # {})
  /\ thread' = [t \in Threads |-> [thread[t] EXCEPT !.certain = FALSE]]
  /\ UNCHANGED <<buttons, selected, chosen, sure>>

(* IDCANCEL: EndDialog, nobody waits for the threads. *)
Close ==
  /\ ui = "dialog" /\ ui' = "closed"
  /\ buttons' = [b \in {"query", "add"} |-> TRUE]
  /\ rows' = <<>>
  /\ thread' = [t \in Threads |-> [thread[t] EXCEPT !.live = FALSE, !.certain = FALSE]]
  /\ UNCHANGED <<selected, chosen, sure, last, mixed>>

(* Whoever had not read the selected row yet reads another one now. *)
Unsure == [t \in Threads |->
  [thread[t] EXCEPT !.certain = @ /\ thread[t].step \notin {"begin", "mac"}]]

(* A slip of RowMenu: the hit row is not stored. *)
RowMenuForgets ==
  /\ ui = "dialog" /\ ui' = "menu"
  /\ \E i \in 0 .. Len(rows) - 1 : chosen' = rows[i + 1]
  /\ sure' = TRUE
  /\ thread' = Unsure
  /\ UNCHANGED <<buttons, rows, selected, last, mixed>>

(* NM_RCLICK on a row. *)
RowMenu ==
  /\ ui = "dialog" /\ ui' = "menu"
  /\ \E i \in 0 .. Len(rows) - 1 : selected' = i /\ chosen' = rows[i + 1]
  /\ sure' = TRUE
  /\ thread' = Unsure
  /\ UNCHANGED <<buttons, rows, last, mixed>>

(* WM_RBUTTONDOWN: the same menu, for no row. *)
BackgroundMenu ==
  /\ ui = "dialog" /\ ui' = "menu"
  /\ chosen' = None
  /\ UNCHANGED <<buttons, rows, selected, thread, sure, last, mixed>>

LeaveMenu ==
  /\ ui = "menu" /\ ui' = "dialog" /\ chosen' = None /\ sure' = FALSE
  /\ UNCHANGED <<buttons, rows, selected, thread, last, mixed>>

(* CreateThread. *)
Start(job, step) ==
  /\ job \in Jobs
  /\ \E t \in Threads \ Alive :
       thread' = [thread EXCEPT ![t] = [NoThread EXCEPT
         !.step = step, !.job = job, !.live = TRUE,
         !.target = chosen, !.certain = sure]]
  /\ mixed' = (mixed \/ Alive # {})
  /\ last' = IF mixed' THEN <<>> ELSE last
  /\ UNCHANGED <<buttons, rows, selected>>

ClickQuery ==
  /\ ui = "dialog" /\ buttons["query"]
  /\ Start("query", "ask") /\ UNCHANGED <<ui, chosen, sure>>

ClickAdd ==
  /\ ui = "dialog" /\ buttons["add"]
  /\ Start("add", "begin") /\ UNCHANGED <<ui, chosen, sure>>

(* IDM_DEL_DEV is never disabled. *)
ChooseDelete ==
  /\ ui = "menu" /\ ui' = "dialog" /\ chosen' = None /\ sure' = FALSE
  /\ Start("del", "begin")

-----------------------------------------------------------------------------
(* The threads. *)

(* A slip of Goto: the locals of a thread that returns stay. *)
GotoKeeps(t, new) == thread' = [thread EXCEPT ![t] = new]

(* The thread goes on with these locals; they are gone when its function returns. *)
Goto(t, new) ==
  thread' = [thread EXCEPT ![t] = IF new.step = "idle" THEN NoThread ELSE new]

(* The delete command's MAC: vlist_get_commmac of the selected row, which leaves the
   buffer alone when there is no such row or no such list. *)
CommMac == IF ui # "closed" /\ selected \in 0 .. Len(rows) - 1 THEN rows[selected + 1] ELSE Default

(* The address field, in which the user may have typed anything by now; when the dialog
   is gone the buffer is uninitialised. *)
ReadAddress(t) ==
  /\ thread[t].step = "begin"
  /\ \E next \in {"refused", "mac"} : Goto(t, [thread[t] EXCEPT !.step = next])
  /\ UNCHANGED <<ui, buttons, rows, selected, chosen, sure, last, mixed>>

(* del takes the MAC of the selected row, add one that the user has typed. *)
ReadMac(t) ==
  /\ thread[t].step = "mac"
  /\ IF thread[t].job = "del"
     THEN Goto(t, [thread[t] EXCEPT !.mac = CommMac,
                                    !.step = IF CommMac = Blank THEN "refused" ELSE "off1"])
     ELSE \E next \in {"refused", "off1"} : Goto(t, [thread[t] EXCEPT !.step = next])
  /\ UNCHANGED <<ui, buttons, rows, selected, chosen, sure, last, mixed>>

(* EnableWindow; without effect when the dialog is gone. *)
SwitchButton(t) ==
  /\ thread[t].step \in DOMAIN Switch
  /\ LET sw == Switch[thread[t].step]
     IN  /\ buttons' = IF thread[t].live THEN [buttons EXCEPT ![sw.button] = sw.on] ELSE buttons
         /\ Goto(t, [thread[t] EXCEPT !.step = sw.then])
  /\ UNCHANGED <<ui, rows, selected, chosen, sure, last, mixed>>

(* libssh2_main with the add or the del command, its result unused, and the Sleep. *)
Command(t) ==
  /\ thread[t].step = "cmd"
  /\ Goto(t, [thread[t] EXCEPT !.step = "ask", !.mac = Blank, !.target = None, !.certain = FALSE])
  /\ UNCHANGED <<ui, buttons, rows, selected, chosen, sure, last, mixed>>

(* _dev_manage_qrylist begins: it reads the address again. *)
Ask(t) ==
  /\ thread[t].step = "ask"
  /\ \E next \in {"clear", IF thread[t].job = "query" THEN "refused" ELSE "refusedQuery"} :
       Goto(t, [thread[t] EXCEPT !.step = next])
  /\ UNCHANGED <<ui, buttons, rows, selected, chosen, sure, last, mixed>>

(* The user closes the message box about an invalid address or MAC. *)
Dismiss(t) ==
  /\ thread[t].step \in Boxes
  /\ Goto(t, [thread[t] EXCEPT !.step = IF @ = "refused" THEN "idle" ELSE "on1"])
  /\ UNCHANGED <<ui, buttons, rows, selected, chosen, sure, last, mixed>>

(* What a thread does to the list it finds in g_hdevlist. *)
ChangeRows(t, new, w) ==
  /\ rows' = IF ui = "closed" THEN rows ELSE new
  /\ thread' = [Unsure EXCEPT ![t] = w]
  /\ sure' = FALSE
  /\ UNCHANGED <<ui, buttons, selected, chosen>>

(* A slip of Clear: the old rows stay. *)
ClearNot(t) ==
  /\ thread[t].step = "clear"
  /\ ChangeRows(t, rows, [thread[t] EXCEPT !.step = "dim1"])
  /\ last' = <<>>
  /\ mixed' = (Alive # {t})

Clear(t) ==
  /\ thread[t].step = "clear"
  /\ ChangeRows(t, <<>>, [thread[t] EXCEPT !.step = "dim1"])
  /\ last' = <<>>
  /\ mixed' = (Alive # {t})

(* A slip of List: an answer that is no device list ends the query at once. *)
ListReturnsEarly(t) ==
  /\ thread[t].step = "list"
  /\ \E s \in Lists :
       /\ last' = IF mixed THEN <<>> ELSE s
       /\ Goto(t, [thread[t] EXCEPT !.left = s,
                                    !.step = IF s = <<>> THEN "idle" ELSE "lit1"])
  /\ UNCHANGED <<ui, buttons, rows, selected, chosen, sure, mixed>>

(* libssh2_main with the query; no rows when it fails or its output does not parse. *)
List(t) ==
  /\ thread[t].step = "list"
  /\ \E s \in Lists :
       /\ last' = IF mixed THEN <<>> ELSE s
       /\ Goto(t, [thread[t] EXCEPT !.left = s, !.step = "lit1"])
  /\ UNCHANGED <<ui, buttons, rows, selected, chosen, sure, mixed>>

(* vlist_append of the next device inserts a row at the top ... *)
Insert(t) ==
  /\ thread[t].step = "rows" /\ thread[t].left # <<>>
  /\ ChangeRows(t, <<Blank>> \o rows, [thread[t] EXCEPT !.step = "fill"])
  /\ UNCHANGED <<last, mixed>>

(* ... and fills what is the top row by then, if there is one. *)
Fill(t) ==
  /\ thread[t].step = "fill"
  /\ ChangeRows(t, IF rows = <<>> THEN rows ELSE [rows EXCEPT ![1] = Head(thread[t].left)],
                [thread[t] EXCEPT !.left = Tail(@), !.step = "rows"])
  /\ UNCHANGED <<last, mixed>>

(* _dev_manage_qrylist returns, to its thread or to add and del. *)
Return(t) ==
  /\ thread[t].step = "rows" /\ thread[t].left = <<>>
  /\ Goto(t, [thread[t] EXCEPT !.step = IF thread[t].job = "query" THEN "idle" ELSE "on1"])
  /\ UNCHANGED <<ui, buttons, rows, selected, chosen, sure, last, mixed>>

-----------------------------------------------------------------------------
User ==
  \/ Open \/ Close \/ RowMenu \/ BackgroundMenu \/ LeaveMenu
  \/ ClickQuery \/ ClickAdd \/ ChooseDelete

Run(t) ==
  \/ ReadAddress(t) \/ ReadMac(t) \/ SwitchButton(t) \/ Command(t) \/ Ask(t)
  \/ Clear(t) \/ List(t) \/ Insert(t) \/ Fill(t) \/ Return(t)

Next == User \/ \E t \in Threads : Run(t) \/ Dismiss(t)

Spec == Init /\ [][Next]_vars

-----------------------------------------------------------------------------
(* Properties. *)

(* The steps after which a thread of the given job enables the button. *)
Owes(t, b) ==
  /\ thread[t].live
  /\ thread[t].step \in
       {"lit1", "list", "dim2"}
         \union (IF b = "add" THEN {"lit2"} ELSE {})
         \union (IF thread[t].job = "query" THEN {} ELSE
           {"off2", "cmd", "ask", "refusedQuery", "clear", "dim1", "lit2", "rows", "fill", "on1"}
             \union (IF b = "add" THEN {"on2"} ELSE {}))

(* A disabled button of the open dialog will be enabled again by a thread of this
   dialog, however many threads switch it and however they end. *)
ButtonsAreOwed ==
  ui # "closed" =>
    \A b \in {"query", "add"} : buttons[b] \/ \E t \in Threads : Owes(t, b)

(* When the threads are through and the latest query cleared the list while it was
   alone, and stayed alone, the list shows its answer and nothing else. *)
LoneQueryIsListed ==
  ui # "closed" /\ Alive = {} /\ ~mixed =>
    /\ Len(rows) = Len(last)
    /\ \A i \in DOMAIN rows : rows[i] = last[Len(last) + 1 - i]

(* The delete command names the device the menu was opened on, provided no thread
   changed the list and no other row was chosen before the thread read the MAC. *)
CertainTargetIsDeleted ==
  \A t \in Threads :
    thread[t].job = "del" /\ thread[t].step = "cmd" /\ thread[t].certain =>
      thread[t].mac = thread[t].target
=============================================================================
