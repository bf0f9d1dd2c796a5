------------------------------ MODULE GwManager ------------------------------
(***************************************************************************)
(* The gateway manager's main program: the scan of GwScan together with    *)
(* the dialogs that query and configure the selected gateway.              *)
(*                                                                         *)
(* A dialog's handler runs query_x when it opens and set_x on OK.  Both    *)
(* block the user-interface thread on a socket of their own until an       *)
(* answer of the gateway comes or four seconds pass. Every socket asks for *)
(* port 9999; bind is refused while another one has it, nobody looks at    *)
(* the result, and sendto then picks a port no earlier socket had.  What   *)
(* was sent to port 9999 and is late is therefore read by the next socket. *)
(***************************************************************************)
EXTENDS Integers, Sequences, FiniteSets

CONSTANTS
  Gateways, Blank, MaxTicks, MaxCopies,  (* as in GwScan; Blank is also an empty address *)
  Kinds,       (* the dialogs in use: "mqtt", "wan" and "wifi" configure by UDP,
                  "shell" and "ntp" run a command by ssh                                 *)
  Results,     (* what an answer holds: ret 0, another ret, or no JSON                   *)
  MaxReplies   (* bound: configuration answers under way at the same time                *)

Configurations == {"mqtt", "wan", "wifi"}
Commands       == {"shell", "ntp"}

(* Those of GwScan. *)
ASSUME GatewaysAssumption == Blank \notin Gateways
ASSUME BoundsAssumption   == MaxTicks \in Nat \ {0} /\ MaxCopies \in Nat \ {0}

ASSUME KindsAssumption   == Kinds \subseteq Configurations \union Commands
ASSUME ResultsAssumption == Results \subseteq {"ok", "error", "garbled"}
ASSUME RepliesAssumption == MaxReplies \in Nat

VARIABLES
  enabled, event, list, selected, thread, devs, answer, ticks, net,  (* as in GwScan *)
  scanPort,    (* the port of the latest socket of the scan thread                   *)
  win,         (* what the user-interface thread does                                *)
  dlg,         (* the dialog that is open                                            *)
  asked,       (* dstip of the dialog's query                                        *)
  dst,         (* dstip of the exchange under way                                    *)
  port,        (* the port of its socket                                             *)
  shown,       (* the answer whose values fill the dialog's fields                   *)
  box,         (* the message box on the screen                                      *)
  replies,     (* configuration answers under way                                    *)
  moved        (* history: a row was added since the dialog's query                  *)

scanVars == <<enabled, event, list, selected, thread, devs, answer, ticks, net>>
dlgVars  == <<dlg, asked, dst, port, shown, box, moved>>
vars     == <<scanVars, scanPort, win, replies, dlgVars>>

Ports     == {"9999", "other"}
Reply     == [from : Gateways, kind : Configurations, result : Results, to : Ports]
NoReply   == [from |-> Blank]
Addresses == Gateways \union {Blank}
Pumps     == {"main", "menu", "dialog", "box", "note"}
Blocked   == {"query", "set"}     (* in udp_recv *)
UiView    == IF win \in Pumps THEN "pump" ELSE IF win = "closed" THEN "closed" ELSE "busy"

Scan == INSTANCE GwScan WITH ui <- UiView

(* Types of the scan's variables and of the dialog's, and the bound on answers under way. *)
TypeOK ==
  /\ Scan!TypeOK
  /\ scanPort \in Ports
  /\ win \in Pumps \union Blocked \union {"spin", "ssh", "closed"}
  /\ dlg \in Kinds \union {"none"}
  /\ asked \in Addresses /\ dst \in Addresses
  /\ port \in Ports
  /\ shown \in Reply \union {NoReply}
  /\ box \in {"none", "success", "failure", "ntpSet", "ntpNotSet"}
  /\ replies \in SUBSET Reply /\ Cardinality(replies) <= MaxReplies
  /\ moved \in BOOLEAN

Init ==
  /\ enabled = TRUE /\ event = FALSE /\ list = <<>> /\ selected = -1
  /\ thread = "wait" /\ devs = {} /\ answer = Blank /\ ticks = 0
  /\ net = [g \in Gateways |-> 0]
  /\ scanPort = "9999" /\ win = "main" /\ dlg = "none"
  /\ asked = Blank /\ dst = Blank /\ port = "9999"
  /\ shown = NoReply /\ box = "none" /\ replies = {}
  /\ moved = FALSE

-----------------------------------------------------------------------------
(* The main window. *)

(* Slip: the scan button also works while the popup menu is open. *)
ClickScanUnderMenu ==
  /\ win \in {"main", "menu"}
  /\ UNCHANGED <<win, scanPort, replies>> /\ UNCHANGED dlgVars
  /\ Scan!ClickScan

ClickScan ==
  /\ win = "main"
  /\ UNCHANGED <<win, scanPort, replies>> /\ UNCHANGED dlgVars
  /\ Scan!ClickScan

(* Slip of RowMenu: the result of vlist_hitted_item is not compared with -1. *)
RowMenuUnchecked ==
  /\ win = "main" /\ win' = "menu"
  /\ \E i \in -1 .. Len(list) - 1 : selected' = i
  /\ UNCHANGED <<enabled, event, list, thread, devs, answer, ticks, net>>
  /\ UNCHANGED <<scanPort, replies>> /\ UNCHANGED dlgVars

(* NM_RCLICK on a row selects it and tracks the popup menu, which pumps messages. *)
RowMenu ==
  /\ win = "main" /\ win' = "menu"
  /\ \E i \in 0 .. Len(list) - 1 : selected' = i
  /\ UNCHANGED <<enabled, event, list, thread, devs, answer, ticks, net>>
  /\ UNCHANGED <<scanPort, replies>> /\ UNCHANGED dlgVars

(* WM_RBUTTONDOWN beside the list: the same menu, for whatever was selected before. *)
BackgroundMenu ==
  /\ win = "main" /\ win' = "menu"
  /\ UNCHANGED scanVars /\ UNCHANGED <<scanPort, replies>> /\ UNCHANGED dlgVars

LeaveMenu ==
  /\ win = "menu" /\ win' = "main"
  /\ UNCHANGED scanVars /\ UNCHANGED <<scanPort, replies>> /\ UNCHANGED dlgVars

Close ==
  /\ win = "main" /\ win' = "closed"
  /\ UNCHANGED scanVars /\ UNCHANGED <<scanPort, replies>> /\ UNCHANGED dlgVars

-----------------------------------------------------------------------------
(* The exchanges of the dialogs. *)

(* vlist_getcommip: the address column of the selected row.  For an index without row
   the control leaves the caller's buffer alone, and the buffer is uninitialised. *)
CommIp ==
  IF selected \in 0 .. Len(list) - 1 THEN {list[selected + 1]} ELSE Addresses

ScanHasPort == scanPort = "9999" /\ thread \in Scan!Listening \union {"send"}

DialogHasPort == win \in Blocked \union {"spin", "box"} /\ port = "9999"

(* udp_open(9999), the bind that may be refused. *)
Bound == IF ScanHasPort THEN "other" ELSE "9999"

(* What a gateway may answer: to a query the values, to a configuration request the
   values it was sent; both have the members of the dialog's kind.  The test target only
   gives answers that are "ok". *)
Answers(g, kind, to) == [from : {g}, kind : {kind}, result : Results, to : {to}]

(* udp_send to dst: the request or its answer may be lost, udp_send tells neither. *)
Send(to, kind) ==
  /\ dst' = to /\ port' = Bound
  /\ \/ UNCHANGED replies
     \/ /\ to \in Gateways
        /\ Cardinality(replies) < MaxReplies
        /\ \E r \in Answers(to, kind, Bound) : replies' = replies \union {r}

(* A menu command opens the dialog; WM_INITDIALOG calls query_x. *)
OpenDialog(kind) ==
  /\ win = "menu" /\ win' = "query"
  /\ kind \in Configurations /\ dlg' = kind
  /\ \E to \in CommIp : asked' = to /\ Send(to, kind)
  /\ UNCHANGED <<shown, box, moved, scanPort>> /\ UNCHANGED scanVars

(* query_x returns before it waits: no socket, or udp_send reports a failure. *)
OpenDialogUnasked(kind) ==
  /\ win = "menu" /\ win' = "dialog"
  /\ kind \in Configurations /\ dlg' = kind
  /\ asked' \in CommIp
  /\ UNCHANGED <<dst, port, shown, box, moved, replies, scanPort>>
  /\ UNCHANGED scanVars

(* Slip of PressOk: set_x does not fill its dstip. *)
PressOkUnfilled ==
  /\ win = "dialog" /\ win' = "set" /\ dlg \in Configurations
  /\ \E to \in Addresses : Send(to, dlg)
  /\ UNCHANGED <<dlg, asked, shown, box, moved, scanPort>> /\ UNCHANGED scanVars

(* IDOK: set_x reads the selected row again and sends the Config request. *)
PressOk ==
  /\ win = "dialog" /\ win' = "set" /\ dlg \in Configurations
  /\ \E to \in CommIp : Send(to, dlg)
  /\ UNCHANGED <<dlg, asked, shown, box, moved, scanPort>> /\ UNCHANGED scanVars

(* EndDialog. *)
ToMain ==
  /\ win' = "main" /\ dlg' = "none" /\ box' = "none" /\ shown' = NoReply
  /\ asked' = Blank /\ dst' = Blank /\ port' = "9999"
  /\ moved' = FALSE

(* IDOK when set_x returns before it waits: no socket, or udp_send reports a failure. *)
PressOkUnsent ==
  /\ win = "dialog" /\ dlg \in Configurations /\ ToMain
  /\ UNCHANGED <<replies, scanPort>> /\ UNCHANGED scanVars

(* IDCANCEL. *)
Cancel ==
  /\ win = "dialog" /\ ToMain
  /\ UNCHANGED <<replies, scanPort>> /\ UNCHANGED scanVars

(* closesocket: what is on its way to a port of its own finds nobody any more. *)
Discard(rs) == IF port = "9999" THEN rs ELSE {r \in rs : r.to = "9999"}

(* query_x returns and its locals are gone. *)
QueryReturns ==
  /\ win' = "dialog"
  /\ dst' = Blank /\ port' = "9999"
  /\ UNCHANGED <<dlg, asked, box, moved>>

(* Slip of QueryAnswered: the members of the data are not looked for. *)
QueryAnsweredBlindly(r, rest) ==
  /\ shown' = IF r.result = "ok" THEN r ELSE shown
  /\ replies' = Discard(rest)
  /\ QueryReturns

(* The rest of query_x after udp_recv returned r of dst: the fields are filled when
   ret is 0 and the data has the members this dialog wants. *)
QueryAnswered(r, rest) ==
  /\ shown' = IF r.result = "ok" /\ r.kind = dlg THEN r ELSE shown
  /\ replies' = Discard(rest)
  /\ QueryReturns

(* The rest of set_x.  A result is told in a message box, behind which the socket stays
   open; without one the dialog ends at once. *)
Tell(text, rest) ==
  /\ win' = "box" /\ box' = text /\ replies' = rest
  /\ UNCHANGED <<dlg, asked, dst, port, shown, moved>>

TellNothing(rest) == replies' = Discard(rest) /\ ToMain

(* set_mqtt: a ret of 0 is success, another one a failure. *)
SetMqttAnswered(r, rest) ==
  \/ r.result = "ok"      /\ Tell("success", rest)
  \/ r.result = "error"   /\ Tell("failure", rest)
  \/ r.result = "garbled" /\ TellNothing(rest)

(* set_wan and set_wifi test ret twice and never reach their failure box. *)
SetWanAnswered(r, rest) ==
  \/ r.result = "ok" /\ Tell("success", rest)
  \/ r.result \in {"error", "garbled"} /\ TellNothing(rest)

SetAnswered(r, rest) ==
  IF dlg = "mqtt" THEN SetMqttAnswered(r, rest) ELSE SetWanAnswered(r, rest)

(* Slip of Foreign: every set_x receives before its loop, as set_wifi does. *)
ForeignSpins(rest) ==
  /\ win' = IF win = "set" THEN "spin" ELSE win
  /\ replies' = rest
  /\ UNCHANGED dlgVars

(* A datagram of another address: the wait goes on. *)
Foreign(rest) ==
  /\ replies' = rest
  /\ UNCHANGED win /\ UNCHANGED dlgVars

(* set_wifi calls udp_recv once, before its loop, and never again. *)
SetWifiForeign(rest) ==
  /\ win' = "spin" /\ replies' = rest
  /\ UNCHANGED dlgVars

(* Slip of Consider: the sender's address is not compared with dstip. *)
ConsiderAnyone(r, rest) ==
  IF win = "query" THEN QueryAnswered(r, rest) ELSE SetAnswered(r, rest)

Consider(r, rest) ==
  IF r.from # dst
  THEN IF win = "set" /\ dlg = "wifi" THEN SetWifiForeign(rest) ELSE Foreign(rest)
  ELSE IF win = "query" THEN QueryAnswered(r, rest) ELSE SetAnswered(r, rest)

(* udp_recv delivers a configuration answer, of this exchange or of an earlier one. *)
UiRecvReply ==
  /\ win \in Blocked
  /\ \E r \in replies : r.to = port /\ Consider(r, replies \ {r})
  /\ UNCHANGED scanPort /\ UNCHANGED scanVars

(* udp_recv delivers an answer to a scan that is over.  Its data has none of the
   members a dialog wants, its ret is looked at like any other. *)
UiRecvScanAnswer ==
  /\ win \in Blocked /\ port = "9999" /\ scanPort = "9999"
  /\ \E g \in Gateways, res \in Results :
       /\ net[g] > 0 /\ net' = [net EXCEPT ![g] = @ - 1]
       /\ Consider([from |-> g, kind |-> "scan", result |-> res, to |-> port], replies)
  /\ UNCHANGED <<scanPort, enabled, event, list, selected, thread, devs, answer, ticks>>

(* udp_recv times out or fails: query_x leaves the fields empty, set_x says nothing. *)
UiRecvNothing ==
  /\ win \in Blocked
  /\ replies' = Discard(replies)
  /\ IF win = "query" THEN QueryReturns /\ UNCHANGED shown ELSE ToMain
  /\ UNCHANGED scanPort /\ UNCHANGED scanVars

CloseBox ==
  /\ win = "box" /\ ToMain
  /\ replies' = Discard(replies)
  /\ UNCHANGED scanPort /\ UNCHANGED scanVars

-----------------------------------------------------------------------------
(* The dialogs that run a command on the gateway. *)

(* They open without a query; asked is then the gateway of the selected row. *)
OpenCommand(kind) ==
  /\ win = "menu" /\ win' = "dialog"
  /\ kind \in Commands /\ dlg' = kind
  /\ asked' \in CommIp
  /\ UNCHANGED <<dst, port, shown, box, moved, replies, scanPort>>
  /\ UNCHANGED scanVars

(* shell_cmd and ntp_set read the selected row and call libssh2_main, which blocks;
   the gateway may hold them there for ever. *)
RunCommand ==
  /\ win = "dialog" /\ win' = "ssh" /\ dlg \in Commands
  /\ dst' \in CommIp
  /\ UNCHANGED <<dlg, asked, port, shown, box, moved, replies, scanPort>>
  /\ UNCHANGED scanVars

(* shell_cmd shows the output and the dialog stays. *)
ShellReturns ==
  /\ win = "ssh" /\ dlg = "shell" /\ win' = "dialog"
  /\ dst' = Blank
  /\ UNCHANGED <<dlg, asked, port, shown, box, moved, replies, scanPort>>
  /\ UNCHANGED scanVars

(* ntp_set looks for the server in the output, or for no server in its field. *)
NtpTells ==
  /\ dlg = "ntp" /\ win' = "note"
  /\ \/ win = "ssh"    /\ box' \in {"ntpSet", "ntpNotSet"}
     \/ win = "dialog" /\ box' = "ntpNotSet"
  /\ UNCHANGED <<dlg, asked, dst, port, shown, moved, replies, scanPort>>
  /\ UNCHANGED scanVars

(* Only the good news ends the dialog. *)
CloseNote ==
  /\ win = "note"
  /\ IF box = "ntpSet" THEN ToMain
     ELSE /\ win' = "dialog" /\ box' = "none" /\ dst' = Blank
          /\ UNCHANGED <<dlg, asked, port, shown, moved>>
  /\ UNCHANGED <<replies, scanPort>> /\ UNCHANGED scanVars

-----------------------------------------------------------------------------
(* The scan thread of GwScan, with its socket and its effect on the rows. *)

ScanOpensSocket ==
  /\ UNCHANGED <<win, replies>> /\ UNCHANGED dlgVars
  /\ Scan!OpenSocket
  /\ scanPort' = IF thread' # "send" THEN scanPort
                 ELSE IF DialogHasPort THEN "other" ELSE "9999"

ScanAddsRow ==
  /\ UNCHANGED <<win, replies, scanPort, dlg, asked, dst, port, shown, box>>
  /\ Scan!InsertRow \/ Scan!FillRow
  /\ moved' = (dlg # "none")

ScanElse ==
  /\ UNCHANGED <<win, replies, scanPort>> /\ UNCHANGED dlgVars
  /\ \/ Scan!Wake \/ Scan!Broadcast \/ Scan!BroadcastFails \/ Scan!SetRange
     \/ Scan!RecvTimeout \/ Scan!RecvError \/ Scan!Progress \/ Scan!Finish
     \/ Scan!Notify \/ Scan!Loop
     \/ \E g \in Gateways : Scan!RecvNew(g) \/ Scan!RecvIgnored(g)

(* The scan's socket gets a late configuration answer: it lacks a mac and is ignored. *)
ScanRecvReply ==
  /\ win # "closed" /\ thread = "recv" /\ scanPort = "9999"
  /\ \E r \in replies : r.to = "9999" /\ replies' = replies \ {r}
  /\ UNCHANGED <<win, scanPort>> /\ UNCHANGED scanVars /\ UNCHANGED dlgVars

LoseReply ==
  /\ win # "closed"
  /\ \E r \in replies : replies' = replies \ {r}
  /\ UNCHANGED <<win, scanPort>> /\ UNCHANGED scanVars /\ UNCHANGED dlgVars

LoseScanAnswer ==
  /\ UNCHANGED <<win, replies, scanPort>> /\ UNCHANGED dlgVars
  /\ \E g \in Gateways : Scan!Lose(g)

-----------------------------------------------------------------------------
ScanThread == ScanOpensSocket \/ ScanAddsRow \/ ScanElse \/ ScanRecvReply

UiReceives == UiRecvReply \/ UiRecvScanAnswer \/ UiRecvNothing

User ==
  \/ ClickScan \/ RowMenu \/ BackgroundMenu \/ LeaveMenu \/ Close
  \/ PressOk \/ PressOkUnsent \/ Cancel \/ CloseBox \/ RunCommand \/ CloseNote
  \/ \E kind \in Kinds : OpenDialog(kind) \/ OpenDialogUnasked(kind) \/ OpenCommand(kind)

Next ==
  \/ ScanThread \/ UiReceives \/ ShellReturns \/ NtpTells \/ User
  \/ LoseReply \/ LoseScanAnswer

(* The scan thread as in GwScan; a blocked udp_recv returns, libssh2_main need not.  Nothing is assumed of
   the user or of the network. *)
Fairness == SF_vars(ScanThread) /\ WF_vars(UiReceives)

Spec     == Init /\ [][Next]_vars
FairSpec == Spec /\ Fairness

-----------------------------------------------------------------------------
(* Properties. *)

(* The dialogs leave the scan alone: whatever the user does with them, the program
   is a gateway scan as GwScan specifies it. *)
IsScan == Scan!Spec

(* The values in a dialog's fields were sent by the gateway the dialog asked, and they
   are of the dialog's own kind, although port 9999 also gets the late answers of
   other gateways, of other dialogs and of scans. *)
ShownIsOfAsked ==
  shown # NoReply => shown.from = asked /\ shown.kind = dlg

(* With no row added since the dialog opened, OK configures the gateway the dialog
   asked, and a command runs on the one it was opened for: nothing but a running scan
   can put another one in the selected row. *)
OnlyScanMovesTarget ==
  win \in {"set", "box", "spin", "ssh"} /\ ~moved /\ selected \in 0 .. Len(list) - 1 => dst = asked

(* Rows are neither removed nor selected behind an open menu or dialog. *)
ListStaysUnderDialog ==
  [][ win # "main" => selected' = selected /\ Len(list') >= Len(list) ]_vars

(* The wait of a dialog ends, whatever else arrives on its port. *)
ExchangeEnds ==
  win \in Blocked ~> win \in {"main", "dialog", "box"}

(* A scan always enables its button again, although a dialog may be blocked while the
   scan thread waits for its messages to be handled. *)
ButtonComesBack == ~enabled ~> (enabled \/ win = "closed")
=============================================================================
