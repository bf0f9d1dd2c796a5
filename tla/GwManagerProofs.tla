---------------------------- MODULE GwManagerProofs ----------------------------
(***************************************************************************)
(* GwManager implements GwScan, for any gateways, dialogs and bounds; so   *)
(* what GwScanProofs proves of the scan holds with the dialogs around it.  *)
(* From this follow the manager's own invariants.                          *)
(***************************************************************************)
EXTENDS GwManager, SequenceTheorems, FiniteSetTheorems, TLAPS

ScanProofs == INSTANCE GwScanProofs WITH ui <- UiView

-----------------------------------------------------------------------------
(* What a received datagram does to the dialog. *)
Outcome ==
  \/ UNCHANGED win /\ UNCHANGED dlgVars
  \/ win = "set" /\ win' = "spin" /\ UNCHANGED dlgVars
  \/ /\ win = "query" /\ QueryReturns
     /\ \/ shown' = shown
        \/ /\ shown' \in replies \/ shown'.kind = "scan"
           /\ shown'.from = dst /\ shown'.kind = dlg
  \/ /\ win = "set" /\ win' = "box" /\ box' \in {"success", "failure"}
     /\ UNCHANGED <<dlg, asked, dst, port, shown, moved>>
  \/ win = "set" /\ ToMain

LEMMA ConsiderOutcome ==
  ASSUME win \in Blocked, NEW r, NEW rest, rest \subseteq replies, r \in replies \/ r.kind = "scan",
         Consider(r, rest)
  PROVE  Outcome /\ replies' \subseteq replies
<1>1. CASE r.from # dst
  BY <1>1 DEF Consider, SetWifiForeign, Foreign, Outcome
<1>2. CASE r.from = dst /\ win = "query"
  BY <1>2 DEF Consider, QueryAnswered, Discard, Outcome
<1>3. CASE r.from = dst /\ win = "set"
  BY <1>3 DEF Consider, SetAnswered, SetMqttAnswered, SetWanAnswered, Tell, TellNothing, Discard, Outcome
<1> QED BY <1>1, <1>2, <1>3 DEF Blocked

LEMMA ReceivesOutcome ==
  ASSUME UiReceives
  PROVE  /\ win \in Blocked /\ Outcome /\ replies' \subseteq replies
         /\ UNCHANGED <<scanPort, enabled, event, list, selected, thread, devs, answer, ticks>>
         /\ UNCHANGED net \/ \E g \in Gateways : Scan!Arrives(g)
<1>1. CASE UiRecvReply
  <2>1. PICK r \in replies : Consider(r, replies \ {r})
    BY <1>1 DEF UiRecvReply
  <2>2. win \in Blocked /\ UNCHANGED scanPort /\ UNCHANGED scanVars
    BY <1>1 DEF UiRecvReply
  <2> QED BY <2>1, <2>2, ConsiderOutcome DEF scanVars
<1>2. CASE UiRecvScanAnswer
  <2>1. PICK g \in Gateways, res \in Results :
          /\ net[g] > 0 /\ net' = [net EXCEPT ![g] = @ - 1]
          /\ Consider([from |-> g, kind |-> "scan", result |-> res, to |-> port], replies)
    BY <1>2 DEF UiRecvScanAnswer
  <2>2. /\ win \in Blocked
        /\ UNCHANGED <<scanPort, enabled, event, list, selected, thread, devs, answer, ticks>>
    BY <1>2 DEF UiRecvScanAnswer
  <2>3. Outcome /\ replies' \subseteq replies
    BY <2>1, <2>2, ConsiderOutcome
  <2>4. Scan!Arrives(g)
    BY <2>1 DEF Scan!Arrives
  <2> QED BY <2>2, <2>3, <2>4
<1>3. CASE UiRecvNothing
  BY <1>3 DEF UiRecvNothing, Discard, Outcome, Blocked, scanVars
<1> QED BY <1>1, <1>2, <1>3 DEF UiReceives

-----------------------------------------------------------------------------
(* The refinement.  The user-interface thread as the scan sees it: *)
LEMMA Views ==
  /\ win \in Pumps => UiView = "pump"
  /\ win \in Blocked \union {"spin", "ssh"} => UiView = "busy"
  /\ win = "closed" => UiView = "closed"
  /\ win' \in Pumps => UiView' = "pump"
  /\ win' \in Blocked \union {"spin", "ssh"} => UiView' = "busy"
  /\ win' = "closed" => UiView' = "closed"
  /\ win' = win => UiView' = UiView
BY DEF UiView, Pumps, Blocked

LEMMA Stutters ==
  ASSUME UNCHANGED scanVars, UiView' = UiView
  PROVE  [Scan!Next]_Scan!vars
BY DEF scanVars, Scan!vars

LEMMA Blocks ==
  ASSUME UNCHANGED scanVars, win \in Pumps, win' \in Blocked \union {"spin", "ssh"}
  PROVE  [Scan!Next]_Scan!vars
<1>1. Scan!UiBlock
  BY Views DEF scanVars, Scan!UiBlock, Scan!Pumping, Scan!scanVars
<1> QED BY <1>1 DEF Scan!Next, Scan!UserInterface

LEMMA Resumes ==
  ASSUME UNCHANGED <<enabled, event, list, selected, thread, devs, answer, ticks>>,
         UNCHANGED net \/ \E g \in Gateways : Scan!Arrives(g),
         win \in Blocked \union {"spin", "ssh"}, win' \in Pumps
  PROVE  [Scan!Next]_Scan!vars
<1>1. Scan!UiResume
  BY Views DEF Scan!UiResume, Scan!scanVars
<1> QED BY <1>1 DEF Scan!Next, Scan!UserInterface

LEMMA InitScan == Init => Scan!Init
BY Views DEF Init, Scan!Init, Pumps

(* Every step of the manager is one of the scan, or none. *)
LEMMA NextScan == [Next]_vars => [Scan!Next]_Scan!vars
<1> SUFFICES ASSUME [Next]_vars PROVE [Scan!Next]_Scan!vars
  OBVIOUS
<1>1. CASE ScanThread \/ LoseScanAnswer \/ ClickScan
  BY <1>1 DEF ScanThread, ScanOpensSocket, ScanAddsRow, ScanElse, ScanRecvReply, LoseScanAnswer, ClickScan,
     Scan!Next, Scan!ScanThread, Scan!UserInterface, Scan!vars, scanVars, UiView
<1>2. CASE RowMenu
  <2>1. PICK i \in 0 .. Len(list) - 1 : selected' = i
    BY <1>2 DEF RowMenu
  <2>2. Scan!RightClick(i)
    BY <1>2, <2>1, Views DEF RowMenu, Scan!RightClick, Scan!Pumping, Scan!scanVars, Pumps
  <2> QED BY <2>2 DEF Scan!Next, Scan!UserInterface
<1>3. CASE Close
  <2>1. Scan!Close
    BY <1>3, Views DEF Close, Scan!Close, Scan!Pumping, Scan!scanVars, scanVars, Pumps
  <2> QED BY <2>1 DEF Scan!Next, Scan!UserInterface
<1>4. CASE UiReceives
  <2>1. /\ win \in Blocked /\ Outcome
        /\ UNCHANGED <<enabled, event, list, selected, thread, devs, answer, ticks>>
        /\ UNCHANGED net \/ \E g \in Gateways : Scan!Arrives(g)
    BY <1>4, ReceivesOutcome
  <2>2. CASE win' \in Pumps
    BY <2>1, <2>2, Resumes
  <2>3. CASE win' \notin Pumps
    <3>1. win' \in Blocked \union {"spin"}
      BY <2>1, <2>3 DEF Outcome, QueryReturns, ToMain, Pumps
    <3>2. UiView = "busy" /\ UiView' = "busy"
      BY <2>1, <3>1, Views
    <3>3. CASE UNCHANGED net
      BY <2>1, <3>2, <3>3 DEF Scan!vars
    <3>4. ASSUME NEW g \in Gateways, Scan!Arrives(g) PROVE [Scan!Next]_Scan!vars
      <4>1. Scan!Lose(g)
        BY <2>1, <3>2, <3>4 DEF Scan!Lose, Scan!Alive, Scan!uiVars, Scan!scanVars
      <4> QED BY <4>1 DEF Scan!Next
    <3> QED BY <2>1, <3>3, <3>4
  <2> QED BY <2>2, <2>3
<1>5. CASE PressOk \/ RunCommand \/ \E kind \in Kinds : OpenDialog(kind)
  BY <1>5, Blocks DEF PressOk, RunCommand, OpenDialog, Pumps, Blocked
<1>6. CASE ShellReturns \/ (NtpTells /\ win = "ssh")
  BY <1>6, Resumes DEF ShellReturns, NtpTells, Pumps, scanVars
<1>7. CASE \/ BackgroundMenu \/ LeaveMenu \/ PressOkUnsent \/ Cancel \/ CloseBox \/ CloseNote
           \/ \E kind \in Kinds : OpenDialogUnasked(kind) \/ OpenCommand(kind)
           \/ NtpTells /\ win # "ssh"
  <2>1. UNCHANGED scanVars /\ win \in Pumps /\ win' \in Pumps
    BY <1>7 DEF BackgroundMenu, LeaveMenu, PressOkUnsent, Cancel, CloseBox, CloseNote, OpenDialogUnasked,
       OpenCommand, NtpTells, ToMain, Pumps
  <2> QED BY <2>1, Views, Stutters
<1>8. CASE LoseReply \/ UNCHANGED vars
  <2>1. UNCHANGED scanVars /\ win' = win
    BY <1>8 DEF LoseReply, vars
  <2> QED BY <2>1, Views, Stutters
<1> QED BY <1>1, <1>2, <1>3, <1>4, <1>5, <1>6, <1>7, <1>8 DEF Next, User

(* The dialogs leave the scan alone: GwManager implements GwScan, whatever the user,
   the gateways and the network do. *)
THEOREM ManagerIsScan == Spec => IsScan
BY InitScan, NextScan, PTL DEF Spec, IsScan, Scan!Spec

(* GwScanProofs is about an instance of its own. *)
LEMMA SameScan ==
  /\ Scan!Init <=> ScanProofs!Init
  /\ [Scan!Next]_Scan!vars <=> [ScanProofs!Next]_ScanProofs!vars
  /\ Scan!ScanInv <=> ScanProofs!ScanInv
<1>1. Scan!Init <=> ScanProofs!Init
  BY DEF Scan!Init, ScanProofs!Init
<1>2. [Scan!Next]_Scan!vars <=> [ScanProofs!Next]_ScanProofs!vars
  BY DEF Scan!ScanThread, Scan!UserInterface, Scan!Wake, Scan!OpenSocket, Scan!Broadcast,
         Scan!BroadcastFails, Scan!SetRange, Scan!RecvTimeout, Scan!RecvError, Scan!Progress,
         Scan!InsertRow, Scan!FillRow, Scan!Finish, Scan!Notify, Scan!Loop, Scan!RecvNew,
         Scan!RecvIgnored, Scan!ClickScan, Scan!UiBlock, Scan!UiResume, Scan!Close,
         Scan!RightClick, Scan!Lose, Scan!Goto, Scan!Arrives, Scan!Capped, Scan!Pumping,
         Scan!Alive, Scan!uiVars, Scan!scanVars, Scan!vars, Scan!Next, ScanProofs!ScanThread,
         ScanProofs!UserInterface, ScanProofs!Wake, ScanProofs!OpenSocket, ScanProofs!Broadcast,
         ScanProofs!BroadcastFails, ScanProofs!SetRange, ScanProofs!RecvTimeout,
         ScanProofs!RecvError, ScanProofs!Progress, ScanProofs!InsertRow, ScanProofs!FillRow,
         ScanProofs!Finish, ScanProofs!Notify, ScanProofs!Loop, ScanProofs!RecvNew,
         ScanProofs!RecvIgnored, ScanProofs!ClickScan, ScanProofs!UiBlock, ScanProofs!UiResume,
         ScanProofs!Close, ScanProofs!RightClick, ScanProofs!Lose, ScanProofs!Goto,
         ScanProofs!Arrives, ScanProofs!Capped, ScanProofs!Pumping, ScanProofs!Alive,
         ScanProofs!uiVars, ScanProofs!scanVars, ScanProofs!vars, ScanProofs!Next
<1>3. Scan!ScanInv <=> ScanProofs!ScanInv
  BY DEF Scan!ScanInv, Scan!TypeOK, Scan!ThreadStates, Scan!ButtonTellsIdle, Scan!NoDuplicateRow,
         Scan!BlankIsBeingFilled, Scan!ListShowsDevs, Scan!EventIsForIdle, Scan!ScanStartsEmpty,
         Scan!LocalsAreGone, Scan!AnswerIsMet, Scan!TicksBelowLimit, Scan!Listening, Scan!Rows,
         ScanProofs!ScanInv, ScanProofs!TypeOK, ScanProofs!ThreadStates,
         ScanProofs!ButtonTellsIdle, ScanProofs!NoDuplicateRow, ScanProofs!BlankIsBeingFilled,
         ScanProofs!ListShowsDevs, ScanProofs!EventIsForIdle, ScanProofs!ScanStartsEmpty,
         ScanProofs!LocalsAreGone, ScanProofs!AnswerIsMet, ScanProofs!TicksBelowLimit,
         ScanProofs!Listening, ScanProofs!Rows
<1> QED BY <1>1, <1>2, <1>3

LEMMA ScanInvariant == Spec => []Scan!ScanInv
<1>1. ScanProofs!Spec => []ScanProofs!ScanInv
  BY ScanProofs!ScanInvariance, GatewaysAssumption, BoundsAssumption
     DEF ScanProofs!GatewaysAssumption, ScanProofs!BoundsAssumption
<1> QED BY <1>1, InitScan, NextScan, SameScan, PTL DEF Spec, ScanProofs!Spec

(* With the dialogs around it the scan keeps all that GwScan promises: its list has no
   row twice and shows what was met, its button tells when it is idle. *)
THEOREM ScanStaysSound == Spec => [](Scan!ButtonTellsIdle /\ Scan!ListIsRight)
<1>1. Scan!ScanInv => Scan!ButtonTellsIdle /\ Scan!ListIsRight
  BY DEF Scan!ScanInv, Scan!ListIsRight
<1> QED BY <1>1, ScanInvariant, PTL

-----------------------------------------------------------------------------
(* The dialogs.  Types, but for the scan's. *)
OwnOK ==
  /\ scanPort \in Ports
  /\ win \in Pumps \union Blocked \union {"spin", "ssh", "closed"}
  /\ dlg \in Kinds \union {"none"}
  /\ asked \in Addresses /\ dst \in Addresses
  /\ port \in Ports
  /\ shown \in Reply \union {NoReply}
  /\ box \in {"none", "success", "failure", "ntpSet", "ntpNotSet"}
  /\ replies \in SUBSET Reply /\ IsFiniteSet(replies) /\ Cardinality(replies) <= MaxReplies
  /\ moved \in BOOLEAN

(* Only a dialog has values; while it is queried, the gateway asked is the one meant. *)
FieldsOfAsked ==
  /\ dlg = "none" <=> win \in {"main", "menu", "closed"}
  /\ dlg = "none" => shown = NoReply
  /\ win = "query" => dst = asked
  /\ ShownIsOfAsked

InRow == selected \in 0 .. Len(list) - 1

(* Until a row is added, the selected one is that of the gateway asked. *)
AimIsAsked ==
  /\ dlg # "none" /\ ~moved /\ InRow => list[selected + 1] = asked
  /\ OnlyScanMovesTarget

(* The steps that leave the dialog alone. *)
Aside == \/ ScanOpensSocket \/ ScanElse \/ ScanRecvReply \/ LoseReply \/ LoseScanAnswer \/ ClickScan
         \/ UNCHANGED vars

LEMMA AsideLeaves ==
  ASSUME Aside, OwnOK
  PROVE  /\ UNCHANGED win /\ UNCHANGED dlgVars /\ replies' \subseteq replies /\ scanPort' \in Ports
         /\ win # "main" => UNCHANGED <<list, selected>>
<1>1. UNCHANGED win /\ UNCHANGED dlgVars /\ replies' \subseteq replies
  BY DEF Aside, ScanOpensSocket, ScanElse, ScanRecvReply, LoseReply, LoseScanAnswer, ClickScan, vars
<1>2. scanPort' \in Ports
  BY DEF Aside, OwnOK, ScanOpensSocket, ScanElse, ScanRecvReply, LoseReply, LoseScanAnswer, ClickScan, vars, Ports
<1>3. win # "main" => UNCHANGED <<list, selected>>
  <2>1. CASE ScanElse
    BY <2>1 DEF ScanElse, Scan!Wake, Scan!Broadcast, Scan!BroadcastFails, Scan!SetRange,
       Scan!RecvTimeout, Scan!RecvError, Scan!Progress, Scan!Finish, Scan!Notify, Scan!Loop,
       Scan!RecvNew, Scan!RecvIgnored, Scan!uiVars, Scan!scanVars
  <2>2. CASE ScanOpensSocket \/ LoseScanAnswer
    BY <2>2 DEF ScanOpensSocket, LoseScanAnswer, Scan!OpenSocket, Scan!Lose, Scan!uiVars
  <2>3. CASE ScanRecvReply \/ LoseReply \/ ClickScan \/ UNCHANGED vars
    BY <2>3 DEF ScanRecvReply, LoseReply, ClickScan, vars, scanVars
  <2> QED BY <2>1, <2>2, <2>3 DEF Aside
<1> QED BY <1>1, <1>2, <1>3

LEMMA AddsRowLeaves ==
  ASSUME ScanAddsRow
  PROVE  /\ UNCHANGED <<win, replies, scanPort, dlg, asked, dst, port, shown, box>>
         /\ moved' = (dlg # "none") /\ selected' = selected
BY DEF ScanAddsRow, Scan!InsertRow, Scan!FillRow, Scan!uiVars

(* The menus. *)
LEMMA MenusLeave ==
  ASSUME RowMenu \/ BackgroundMenu \/ LeaveMenu \/ Close
  PROVE  /\ win \in {"main", "menu"} /\ win' \in {"main", "menu", "closed"}
         /\ UNCHANGED dlgVars /\ UNCHANGED <<scanPort, replies>>
BY DEF RowMenu, BackgroundMenu, LeaveMenu, Close

(* The steps that open a dialog. *)
Opens == \E kind \in Kinds : OpenDialog(kind) \/ OpenDialogUnasked(kind) \/ OpenCommand(kind)

LEMMA OpensDo ==
  ASSUME Opens
  PROVE  /\ win = "menu" /\ win' \in {"query", "dialog"} /\ dlg' \in Kinds /\ asked' \in CommIp
         /\ UNCHANGED <<shown, box, moved, scanPort>> /\ UNCHANGED scanVars
         /\ \/ dst' = asked' /\ \E kind \in Configurations : Send(asked', kind)
            \/ win' # "query" /\ UNCHANGED <<dst, port, replies>>
BY DEF Opens, OpenDialog, OpenDialogUnasked, OpenCommand, Send

(* The steps in which OK sends something. *)
LEMMA OksDo ==
  ASSUME PressOk \/ RunCommand
  PROVE  /\ win = "dialog" /\ win' \in {"set", "ssh"} /\ dst' \in CommIp
         /\ UNCHANGED <<dlg, asked, shown, box, moved, scanPort>> /\ UNCHANGED scanVars
         /\ \/ dlg \in Configurations /\ \E to \in CommIp : Send(to, dlg)
            \/ UNCHANGED <<port, replies>>
BY DEF PressOk, RunCommand, Send

(* The steps that end a dialog. *)
Ends == PressOkUnsent \/ Cancel \/ CloseBox \/ (CloseNote /\ box = "ntpSet")

LEMMA EndsDo ==
  ASSUME Ends
  PROVE  /\ ToMain /\ replies' \subseteq replies /\ UNCHANGED scanPort /\ UNCHANGED scanVars
         /\ win \in {"dialog", "box", "note"}
BY DEF Ends, PressOkUnsent, Cancel, CloseBox, CloseNote, Discard

(* The rest of the commands' steps. *)
Tells == ShellReturns \/ NtpTells \/ (CloseNote /\ box # "ntpSet")

LEMMA TellsDo ==
  ASSUME Tells
  PROVE  /\ win \in {"dialog", "ssh", "note"} /\ win' \in {"dialog", "note"}
         /\ dst' \in {dst, Blank} /\ box' \in {box, "none", "ntpSet", "ntpNotSet"}
         /\ UNCHANGED <<dlg, asked, port, shown, moved, replies, scanPort>> /\ UNCHANGED scanVars
BY DEF Tells, ShellReturns, NtpTells, CloseNote

(* Every step is of one of these groups. *)
LEMMA StepGroups ==
  ASSUME [Next]_vars
  PROVE  Aside \/ ScanAddsRow \/ RowMenu \/ BackgroundMenu \/ LeaveMenu \/ Close \/ Opens
         \/ PressOk \/ RunCommand \/ Ends \/ Tells \/ UiReceives
BY DEF Next, User, ScanThread, Aside, Opens, Ends, Tells

-----------------------------------------------------------------------------
(* Types. *)
LEMMA CommIpType ==
  ASSUME Scan!TypeOK
  PROVE  CommIp \subseteq Addresses
<1>1. CASE InRow
  <2>1. selected + 1 \in 1 .. Len(list)
    BY <1>1 DEF InRow, Scan!TypeOK
  <2>2. list[selected + 1] \in Gateways \union {Blank}
    BY <2>1, ElementOfSeq DEF Scan!TypeOK
  <2> QED BY <1>1, <2>2 DEF InRow, CommIp, Addresses
<1>2. CASE ~InRow
  BY <1>2 DEF InRow, CommIp
<1> QED BY <1>1, <1>2

LEMMA FewerReplies ==
  ASSUME OwnOK, NEW rs, rs \subseteq replies
  PROVE  rs \in SUBSET Reply /\ IsFiniteSet(rs) /\ Cardinality(rs) <= MaxReplies
<1>1. IsFiniteSet(rs) /\ Cardinality(rs) <= Cardinality(replies)
  BY FS_Subset DEF OwnOK
<1>2. Cardinality(rs) \in Nat /\ Cardinality(replies) \in Nat
  BY <1>1, FS_CardinalityType DEF OwnOK
<1> QED BY <1>1, <1>2, RepliesAssumption DEF OwnOK

LEMMA SendType ==
  ASSUME OwnOK, NEW to, NEW kind \in Configurations, Send(to, kind)
  PROVE  /\ replies' \in SUBSET Reply /\ IsFiniteSet(replies') /\ Cardinality(replies') <= MaxReplies
         /\ port' \in Ports
<1>1. port' \in Ports /\ Bound \in Ports
  BY DEF Send, Bound, Ports
<1>2. CASE UNCHANGED replies
  BY <1>1, <1>2, FewerReplies
<1>3. CASE ~UNCHANGED replies
  <2>1. /\ to \in Gateways /\ Cardinality(replies) < MaxReplies
        /\ \E r \in Answers(to, kind, Bound) : replies' = replies \union {r}
    BY <1>3 DEF Send
  <2>2. PICK r \in Answers(to, kind, Bound) : replies' = replies \union {r}
    BY <2>1
  <2>3. r \in Reply
    BY <1>1, <2>1 DEF Answers, Reply
  <2>4. /\ IsFiniteSet(replies')
        /\ Cardinality(replies') = Cardinality(replies) \/ Cardinality(replies') = Cardinality(replies) + 1
    BY <2>2, FS_AddElement DEF OwnOK
  <2>5. Cardinality(replies) \in Nat
    BY FS_CardinalityType DEF OwnOK
  <2> QED BY <1>1, <2>1, <2>2, <2>3, <2>4, <2>5, RepliesAssumption DEF OwnOK
<1> QED BY <1>2, <1>3

LEMMA OwnKept ==
  ASSUME OwnOK, Scan!TypeOK, [Next]_vars
  PROVE  OwnOK'
<1> USE DEF OwnOK
<1>1. CASE Aside
  <2>1. /\ UNCHANGED win /\ UNCHANGED dlgVars /\ replies' \subseteq replies /\ scanPort' \in Ports
    BY <1>1, AsideLeaves
  <2> QED BY <2>1, FewerReplies DEF dlgVars
<1>2. CASE ScanAddsRow
  BY <1>2, AddsRowLeaves
<1>3. CASE RowMenu \/ BackgroundMenu \/ LeaveMenu \/ Close
  <2>1. /\ win' \in {"main", "menu", "closed"} /\ UNCHANGED dlgVars /\ UNCHANGED <<scanPort, replies>>
    BY <1>3, MenusLeave
  <2> QED BY <2>1 DEF dlgVars, Pumps
<1>4. CASE Opens
  <2>1. /\ win' \in {"query", "dialog"} /\ dlg' \in Kinds /\ asked' \in Addresses
        /\ UNCHANGED <<shown, box, moved, scanPort>>
        /\ \/ dst' = asked' /\ \E kind \in Configurations : Send(asked', kind)
           \/ UNCHANGED <<dst, port, replies>>
    BY <1>4, OpensDo, CommIpType
  <2>2. CASE UNCHANGED <<dst, port, replies>>
    BY <2>1, <2>2 DEF Pumps, Blocked
  <2>3. CASE ~UNCHANGED <<dst, port, replies>>
    <3>1. PICK to : to = asked'
      OBVIOUS
    <3>2. PICK kind \in Configurations : Send(to, kind)
      BY <2>1, <2>3, <3>1
    <3>3. /\ replies' \in SUBSET Reply /\ IsFiniteSet(replies') /\ Cardinality(replies') <= MaxReplies
          /\ port' \in Ports
      BY <3>2, SendType
    <3> QED BY <2>1, <2>3, <3>3 DEF Pumps, Blocked
  <2> QED BY <2>2, <2>3
<1>5. CASE PressOk \/ RunCommand
  <2>1. /\ win' \in {"set", "ssh"} /\ dst' \in Addresses
        /\ UNCHANGED <<dlg, asked, shown, box, moved, scanPort>>
        /\ \/ dlg \in Configurations /\ \E to \in CommIp : Send(to, dlg)
           \/ UNCHANGED <<port, replies>>
    BY <1>5, OksDo, CommIpType
  <2>2. /\ replies' \in SUBSET Reply /\ IsFiniteSet(replies') /\ Cardinality(replies') <= MaxReplies
        /\ port' \in Ports
    BY <2>1, SendType
  <2> QED BY <2>1, <2>2 DEF Pumps, Blocked
<1>6. CASE Ends
  <2>1. ToMain /\ replies' \subseteq replies /\ UNCHANGED scanPort
    BY <1>6, EndsDo
  <2> QED BY <2>1, FewerReplies DEF ToMain, Pumps, Addresses, Ports
<1>7. CASE Tells
  <2>1. /\ win' \in {"dialog", "note"}
        /\ dst' \in {dst, Blank} /\ box' \in {box, "none", "ntpSet", "ntpNotSet"}
        /\ UNCHANGED <<dlg, asked, port, shown, moved, replies, scanPort>>
    BY <1>7, TellsDo
  <2> QED BY <2>1 DEF Pumps, Addresses
<1>8. CASE UiReceives
  <2>1. Outcome /\ replies' \subseteq replies /\ UNCHANGED scanPort
    BY <1>8, ReceivesOutcome
  <2>2. /\ replies' \in SUBSET Reply /\ IsFiniteSet(replies') /\ Cardinality(replies') <= MaxReplies
    BY <2>1, FewerReplies
  <2>3. CASE UNCHANGED dlgVars /\ (win' = win \/ win' = "spin")
    BY <2>1, <2>2, <2>3 DEF dlgVars
  <2>4. CASE /\ win = "query" /\ QueryReturns
             /\ \/ shown' = shown
                \/ /\ shown' \in replies \/ shown'.kind = "scan"
                   /\ shown'.from = dst /\ shown'.kind = dlg
    <3>1. dlg # "scan"
      BY KindsAssumption DEF Configurations, Commands
    <3>2. shown' \in Reply \union {NoReply}
      BY <2>4, <3>1
    <3> QED BY <2>1, <2>2, <2>4, <3>2 DEF QueryReturns, Pumps, Addresses, Ports
  <2>5. CASE /\ win' = "box" /\ box' \in {"success", "failure"}
             /\ UNCHANGED <<dlg, asked, dst, port, shown, moved>>
    BY <2>1, <2>2, <2>5 DEF Pumps
  <2>6. CASE ToMain
    BY <2>1, <2>2, <2>6 DEF ToMain, Pumps, Addresses, Ports
  <2> QED BY <2>1, <2>3, <2>4, <2>5, <2>6 DEF Outcome
<1> QED BY <1>1, <1>2, <1>3, <1>4, <1>5, <1>6, <1>7, <1>8, StepGroups

-----------------------------------------------------------------------------
(* The fields and the gateway asked. *)
LEMMA FieldsKept ==
  ASSUME OwnOK, FieldsOfAsked, [Next]_vars
  PROVE  FieldsOfAsked'
<1> USE DEF FieldsOfAsked, ShownIsOfAsked
<1>k. "none" \notin Kinds
  BY KindsAssumption DEF Configurations, Commands
<1>1. CASE Aside
  <2>1. UNCHANGED win /\ UNCHANGED dlgVars
    BY <1>1, AsideLeaves
  <2> QED BY <2>1 DEF dlgVars
<1>2. CASE ScanAddsRow
  BY <1>2, AddsRowLeaves
<1>3. CASE RowMenu \/ BackgroundMenu \/ LeaveMenu \/ Close
  <2>1. /\ win \in {"main", "menu"} /\ win' \in {"main", "menu", "closed"} /\ UNCHANGED dlgVars
    BY <1>3, MenusLeave
  <2> QED BY <2>1 DEF dlgVars
<1>4. CASE Opens
  <2>1. /\ win = "menu" /\ win' \in {"query", "dialog"} /\ dlg' \in Kinds
        /\ shown' = shown /\ (win' = "query" => dst' = asked')
    BY <1>4, OpensDo
  <2> QED BY <1>k, <2>1
<1>5. CASE PressOk \/ RunCommand
  <2>1. win = "dialog" /\ win' \in {"set", "ssh"} /\ UNCHANGED <<dlg, asked, shown>>
    BY <1>5, OksDo
  <2> QED BY <2>1
<1>6. CASE Ends
  <2>1. ToMain
    BY <1>6, EndsDo
  <2> QED BY <2>1 DEF ToMain
<1>7. CASE Tells
  <2>1. /\ win \in {"dialog", "ssh", "note"} /\ win' \in {"dialog", "note"} /\ UNCHANGED <<dlg, asked, shown>>
    BY <1>7, TellsDo
  <2> QED BY <2>1
<1>8. CASE UiReceives
  <2>1. Outcome /\ win \in Blocked
    BY <1>8, ReceivesOutcome
  <2> QED BY <2>1 DEF Outcome, QueryReturns, ToMain, Blocked, dlgVars
<1> QED BY <1>1, <1>2, <1>3, <1>4, <1>5, <1>6, <1>7, <1>8, StepGroups

-----------------------------------------------------------------------------
(* The target. *)
LEMMA CommIpInRow ==
  ASSUME InRow
  PROVE  CommIp = {list[selected + 1]}
BY DEF InRow, CommIp

LEMMA AimKept ==
  ASSUME OwnOK, FieldsOfAsked, AimIsAsked, [Next]_vars
  PROVE  AimIsAsked'
<1> USE DEF AimIsAsked, OnlyScanMovesTarget, InRow
<1>d. dlg = "none" <=> win \in {"main", "menu", "closed"}
  BY DEF FieldsOfAsked
<1>1. CASE Aside
  <2>1. /\ UNCHANGED win /\ UNCHANGED dlgVars
        /\ win # "main" => UNCHANGED <<list, selected>>
    BY <1>1, AsideLeaves
  <2> QED BY <1>d, <2>1 DEF dlgVars
<1>2. CASE ScanAddsRow
  BY <1>d, <1>2, AddsRowLeaves
<1>3. CASE RowMenu \/ BackgroundMenu \/ LeaveMenu \/ Close
  <2>1. /\ win \in {"main", "menu"} /\ win' \in {"main", "menu", "closed"} /\ UNCHANGED dlgVars
    BY <1>3, MenusLeave
  <2> QED BY <1>d, <2>1 DEF dlgVars
<1>4. CASE Opens
  <2>1. /\ win' \in {"query", "dialog"} /\ asked' \in CommIp /\ UNCHANGED scanVars
    BY <1>4, OpensDo
  <2>2. InRow => asked' = list[selected + 1]
    BY <2>1, CommIpInRow
  <2> QED BY <2>1, <2>2 DEF scanVars
<1>5. CASE PressOk \/ RunCommand
  <2>1. /\ win = "dialog" /\ dst' \in CommIp /\ UNCHANGED <<dlg, asked, moved>> /\ UNCHANGED scanVars
    BY <1>5, OksDo
  <2>2. InRow => dst' = list[selected + 1]
    BY <2>1, CommIpInRow
  <2> QED BY <1>d, <2>1, <2>2 DEF scanVars
<1>6. CASE Ends
  <2>1. ToMain
    BY <1>6, EndsDo
  <2> QED BY <2>1 DEF ToMain
<1>7. CASE Tells
  <2>1. win' \in {"dialog", "note"} /\ UNCHANGED <<dlg, asked, moved>> /\ UNCHANGED scanVars
    BY <1>7, TellsDo
  <2> QED BY <2>1 DEF scanVars
<1>8. CASE UiReceives
  <2>1. Outcome /\ win \in Blocked /\ UNCHANGED <<list, selected>>
    BY <1>8, ReceivesOutcome
  <2> QED BY <2>1 DEF Outcome, QueryReturns, ToMain, Blocked, dlgVars
<1> QED BY <1>1, <1>2, <1>3, <1>4, <1>5, <1>6, <1>7, <1>8, StepGroups

-----------------------------------------------------------------------------
(* The inductive invariant, on top of that of the scan. *)
ManagerInv == OwnOK /\ FieldsOfAsked /\ AimIsAsked

LEMMA InitManager == Init => ManagerInv
<1> SUFFICES ASSUME Init PROVE ManagerInv
  OBVIOUS
<1>1. IsFiniteSet({}) /\ Cardinality({}) = 0
  BY FS_EmptySet
<1>2. OwnOK
  <2>1. /\ replies \in SUBSET Reply /\ IsFiniteSet(replies) /\ Cardinality(replies) <= MaxReplies
    BY <1>1, RepliesAssumption DEF Init
  <2>2. /\ scanPort \in Ports /\ port \in Ports /\ asked \in Addresses /\ dst \in Addresses
        /\ win \in Pumps /\ box = "none" /\ dlg = "none" /\ shown = NoReply /\ moved \in BOOLEAN
    BY DEF Init, Ports, Pumps, Addresses
  <2> QED BY <2>1, <2>2 DEF OwnOK
<1> QED BY <1>2 DEF Init, ManagerInv, FieldsOfAsked, ShownIsOfAsked, AimIsAsked, OnlyScanMovesTarget

LEMMA ManagerInvariant == Spec => [](Scan!ScanInv /\ ManagerInv)
<1>1. Scan!ScanInv /\ ManagerInv /\ [Next]_vars => ManagerInv'
  BY OwnKept, FieldsKept, AimKept DEF ManagerInv, Scan!ScanInv
<1> QED BY <1>1, InitManager, ScanInvariant, PTL DEF Spec

(* Whatever is received on port 9999, and whatever the dialogs do, the variables keep
   their types and no more answers are under way than the bound. *)
THEOREM ManagerTypeCorrect == Spec => []TypeOK
<1>1. Scan!ScanInv /\ ManagerInv => TypeOK
  BY DEF ManagerInv, OwnOK, TypeOK, Scan!ScanInv
<1> QED BY <1>1, ManagerInvariant, PTL

(* The fields of a dialog hold values of its own kind, sent by the gateway it asked: the
   address and the members that query_mqtt, query_wan and query_wifi compare are enough. *)
THEOREM FieldsAreOfAsked == Spec => []ShownIsOfAsked
<1>1. ManagerInv => ShownIsOfAsked
  BY DEF ManagerInv, FieldsOfAsked
<1> QED BY <1>1, ManagerInvariant, PTL

(* Nothing but a row added by a scan can make set_x, shell_cmd or ntp_set address
   another gateway than the one the dialog was opened for. *)
THEOREM TargetIsAsked == Spec => []OnlyScanMovesTarget
<1>1. ManagerInv => OnlyScanMovesTarget
  BY DEF ManagerInv, AimIsAsked
<1> QED BY <1>1, ManagerInvariant, PTL

(* Behind an open menu or dialog rows are only added, and the selection stays. *)
THEOREM ListIsStable == Spec => ListStaysUnderDialog
<1>1. ASSUME Scan!ScanInv, ManagerInv, [Next]_vars, win # "main"
      PROVE  selected' = selected /\ Len(list') >= Len(list)
  <2>1. list \in Seq(Gateways \union {Blank}) /\ Len(list) \in Nat
    BY <1>1 DEF Scan!ScanInv, Scan!TypeOK
  <2>2. CASE UNCHANGED <<selected, list>>
    BY <2>1, <2>2
  <2>3. CASE ScanAddsRow
    <3>1. selected' = selected
      BY <2>3, AddsRowLeaves
    <3>2. CASE Scan!InsertRow
      <4>1. list' = <<Blank>> \o list
        BY <3>2 DEF Scan!InsertRow
      <4> QED BY <2>1, <3>1, <4>1
    <3>3. CASE Scan!FillRow
      <4>1. list' = [list EXCEPT ![1] = answer]
        BY <3>3 DEF Scan!FillRow
      <4>2. DOMAIN list' = DOMAIN list
        BY <4>1
      <4>3. Len(list') = Len(list)
        BY <2>1, <4>1
      <4> QED BY <2>1, <3>1, <4>3
    <3> QED BY <2>3, <3>2, <3>3 DEF ScanAddsRow
  <2>4. ~ScanAddsRow => UNCHANGED <<selected, list>>
    <3>1. CASE Aside
      BY <1>1, <3>1, AsideLeaves DEF ManagerInv
    <3>2. CASE Opens \/ PressOk \/ RunCommand \/ Ends \/ Tells \/ UiReceives
      BY <3>2, OpensDo, OksDo, EndsDo, TellsDo, ReceivesOutcome DEF scanVars
    <3>3. CASE RowMenu \/ BackgroundMenu \/ LeaveMenu \/ Close
      BY <1>1, <3>3 DEF RowMenu, BackgroundMenu, LeaveMenu, Close, scanVars
    <3> QED BY <1>1, <3>1, <3>2, <3>3, StepGroups
  <2> QED BY <2>2, <2>3, <2>4
<1> QED BY <1>1, ManagerInvariant, PTL DEF Spec, ListStaysUnderDialog
=============================================================================
