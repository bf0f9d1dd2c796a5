---------------------------- MODULE GwScanProofs ----------------------------
(* Proofs about the gateway scan, for every set of gateways and every bound. *)
EXTENDS GwScan, TLAPS

USE GatewaysAssumption, BoundsAssumption

(* The row vlist_append inserts goes in front: the rows that were there are found
   one place further down. *)
LEMMA InsertedInFront ==
  ASSUME NEW S, NEW s \in Seq(S), NEW e \in S
  PROVE  LET t == <<e>> \o s
         IN  /\ t \in Seq(S)
             /\ Len(t) = Len(s) + 1
             /\ DOMAIN t = 1 .. Len(s) + 1
             /\ t[1] = e
             /\ \A i \in 2 .. Len(s) + 1 : t[i] = s[i - 1]
  OBVIOUS

(* Inserting an element that is not there keeps the elements of a list distinct, and
   adds only that element to them. *)
LEMMA InsertedIsAdded ==
  ASSUME NEW S, NEW s \in Seq(S), NEW e \in S, NEW t, t = <<e>> \o s,
         \A i \in DOMAIN s : s[i] # e,
         \A i, j \in DOMAIN s : s[i] = s[j] => i = j
  PROVE  /\ \A i, j \in DOMAIN t : t[i] = t[j] => i = j
         /\ \A i \in DOMAIN s : i + 1 \in DOMAIN t /\ t[i + 1] = s[i]
         /\ \A i \in DOMAIN t : t[i] # e => i - 1 \in DOMAIN s /\ t[i] = s[i - 1]
         /\ \A i \in DOMAIN t : t[i] = e => i = 1
<1>1. /\ DOMAIN t = 1 .. Len(s) + 1 /\ Len(s) \in Nat /\ DOMAIN s = 1 .. Len(s)
      /\ t[1] = e
      /\ \A i \in 2 .. Len(s) + 1 : t[i] = s[i - 1]
  BY InsertedInFront
<1>2. \A i \in DOMAIN t \ {1} : i - 1 \in DOMAIN s /\ t[i] = s[i - 1] /\ t[i] # e
  BY <1>1
<1>3. \A i \in DOMAIN s : i + 1 \in DOMAIN t \ {1} /\ t[i + 1] = s[i]
  BY <1>1
<1>4. \A i, j \in DOMAIN t \ {1} : i - 1 = j - 1 => i = j
  BY <1>1
<1>5. \A i, j \in DOMAIN t : t[i] = t[j] => i = j
  BY <1>1, <1>2, <1>4
<1>6. /\ \A i \in DOMAIN s : i + 1 \in DOMAIN t /\ t[i + 1] = s[i]
      /\ \A i \in DOMAIN t : t[i] # e => i - 1 \in DOMAIN s /\ t[i] = s[i - 1]
  BY <1>1, <1>2, <1>3
<1>7. QED
  BY <1>2, <1>5, <1>6

(* Initially nothing is listed and no scan is asked for. *)
LEMMA InitScanInv == Init => ScanInv
<1> SUFFICES ASSUME Init PROVE ScanInv
  OBVIOUS
<1>1. list = <<>> /\ DOMAIN list = {} /\ list \in Seq(Gateways \union {Blank})
  BY DEF Init
<1>2. TypeOK
  <2>1. ticks \in 0 .. MaxTicks /\ 0 \in 0 .. MaxCopies
    BY DEF Init
  <2>2. net \in [Gateways -> 0 .. MaxCopies]
    BY <2>1 DEF Init
  <2>3. selected \in Int /\ devs \in SUBSET Gateways /\ answer \in Gateways \union {Blank}
    BY DEF Init
  <2>4. ui \in {"pump", "busy", "closed"} /\ enabled \in BOOLEAN /\ event \in BOOLEAN
    BY DEF Init
  <2>5. thread \in ThreadStates
    BY DEF Init, ThreadStates
  <2>6. QED
    BY <1>1, <2>1, <2>2, <2>3, <2>4, <2>5 DEF TypeOK
<1>3. NoDuplicateRow /\ BlankIsBeingFilled
  BY <1>1 DEF Init, NoDuplicateRow, BlankIsBeingFilled
<1>4. ButtonTellsIdle /\ ListShowsDevs /\ EventIsForIdle /\ LocalsAreGone
  BY DEF Init, LocalsAreGone, ButtonTellsIdle, ListShowsDevs, Listening, EventIsForIdle
<1>5. ScanStartsEmpty /\ AnswerIsMet /\ TicksBelowLimit
  BY DEF Init, ScanStartsEmpty, AnswerIsMet, TicksBelowLimit
<1>6. QED
  BY <1>2, <1>3, <1>4, <1>5 DEF ScanInv

(* Every step keeps the list, the event and the scan thread in agreement. *)
LEMMA NextScanInv == ScanInv /\ [Next]_vars => ScanInv'
<1>0. SUFFICES ASSUME ScanInv, [Next]_vars PROVE ScanInv'
  OBVIOUS
<1> USE DEF ScanInv, TypeOK, ThreadStates, ButtonTellsIdle, NoDuplicateRow,
            BlankIsBeingFilled, ListShowsDevs, EventIsForIdle, ScanStartsEmpty,
            LocalsAreGone, AnswerIsMet, TicksBelowLimit, Listening, Rows, Pumping, Alive, Goto,
            uiVars, scanVars
<1>1. CASE ClickScan
  <2>1. /\ list' = <<>> /\ event' /\ enabled' = FALSE
        /\ UNCHANGED <<thread, devs, ticks>>
    BY <1>0, <1>1 DEF ClickScan
  <2>2. ~event /\ thread \in {"wait", "loop"}
    BY <1>0, <1>1 DEF ClickScan
  <2>3. TypeOK'
    <3>1. <<>> \in Seq(Gateways \union {Blank})
      OBVIOUS
    <3>2. QED
      BY <1>0, <1>1, <3>1 DEF ClickScan
  <2>4. DOMAIN list' = {}
    BY <2>1
  <2>5. NoDuplicateRow' /\ BlankIsBeingFilled'
    BY <1>0, <2>1, <2>2, <2>4
  <2>6. QED
    BY <1>0, <2>1, <2>2, <2>3, <2>5
<1>2. ASSUME NEW i \in 0 .. Len(list) - 1, RightClick(i)
      PROVE  ScanInv'
  <2>1. /\ selected' \in Int
        /\ UNCHANGED <<ui, enabled, event, list, thread, devs, answer, ticks, net>>
    BY <1>0, <1>2 DEF RightClick
  <2>2. QED
    BY <1>0, <2>1
<1>3. CASE UiBlock \/ UiResume \/ Close
  <2>1. /\ ui' \in {"pump", "busy", "closed"}
        /\ net' \in [Gateways -> 0 .. MaxCopies]
        /\ UNCHANGED <<enabled, selected, event, list, thread, devs, answer, ticks>>
    BY <1>0, <1>3 DEF UiBlock, UiResume, Close, Arrives
  <2>2. QED
    BY <1>0, <2>1
<1>4. CASE Wake
  BY <1>0, <1>4 DEF Wake
<1>15. CASE OpenSocket
  BY <1>0, <1>15 DEF OpenSocket
<1>5. CASE Broadcast
  <2>1. net' \in [Gateways -> 0 .. MaxCopies]
    BY <1>0, <1>5 DEF Broadcast, Capped
  <2>2. /\ thread = "send" /\ thread' = "range"
        /\ UNCHANGED <<ui, enabled, selected, event, list, devs, answer, ticks>>
    BY <1>5 DEF Broadcast
  <2>3. list = <<>> /\ devs = {} /\ ticks = 0
    BY <1>0, <2>2
  <2>4. TypeOK' /\ TicksBelowLimit'
    BY <1>0, <2>1, <2>2, <2>3, BoundsAssumption
  <2>5. Rows' = {}
    BY <2>2, <2>3
  <2>6. QED
    BY <1>0, <2>2, <2>3, <2>4, <2>5
<1>6. CASE BroadcastFails \/ SetRange \/ RecvTimeout \/ RecvError
  BY <1>0, <1>6 DEF BroadcastFails, SetRange, RecvTimeout, RecvError
<1>7. ASSUME NEW g \in Gateways, RecvNew(g)
      PROVE  ScanInv'
  BY <1>0, <1>7 DEF RecvNew, Arrives
<1>8. ASSUME NEW g \in Gateways, RecvIgnored(g) \/ Lose(g)
      PROVE  ScanInv'
  <2>1. /\ net' \in [Gateways -> 0 .. MaxCopies]
        /\ UNCHANGED <<ui, enabled, selected, event, list, thread, devs, answer, ticks>>
    BY <1>0, <1>8 DEF RecvIgnored, Lose, Arrives
  <2>2. QED
    BY <1>0, <2>1
<1>9. CASE Progress
  BY <1>0, <1>9 DEF Progress
<1>10. CASE InsertRow
  <2>1. list' = <<Blank>> \o list /\ thread = "insert" /\ thread' = "fill"
    BY <1>0, <1>10 DEF InsertRow
  <2>2. /\ list \in Seq(Gateways \union {Blank})
        /\ \A i \in DOMAIN list : list[i] # Blank
        /\ \A i, j \in DOMAIN list : list[i] = list[j] => i = j
    BY <1>0, <2>1
  <2>3. /\ list' \in Seq(Gateways \union {Blank})
        /\ list' # <<>>
        /\ list'[1] = Blank
    BY <2>1, <2>2, InsertedInFront
  <2>4. /\ NoDuplicateRow'
        /\ Rows' \ {Blank} = Rows
        /\ \A i \in DOMAIN list' : list'[i] = Blank => i = 1
    <3>1. Blank \in Gateways \union {Blank}
      OBVIOUS
    <3> DEFINE S == Gateways \union {Blank}
    <3>2. list \in Seq(S) /\ Blank \in S
      BY <2>2, <3>1
    <3> HIDE DEF S
    <3>3. \A i, j \in DOMAIN list' : list'[i] = list'[j] => i = j
      BY <2>1, <2>2, <3>2, InsertedIsAdded
    <3>4. /\ \A i \in DOMAIN list : i + 1 \in DOMAIN list' /\ list'[i + 1] = list[i]
          /\ \A i \in DOMAIN list' :
               list'[i] # Blank => i - 1 \in DOMAIN list /\ list'[i] = list[i - 1]
      BY <2>1, <2>2, <3>2, InsertedIsAdded
    <3>5. \A i \in DOMAIN list' : list'[i] = Blank => i = 1
      BY <2>1, <2>2, <3>2, InsertedIsAdded
    <3>6. Rows' \ {Blank} = Rows
      <4>1. \A r \in Rows : r \in Rows' /\ r # Blank
        BY <2>2, <3>4
      <4>2. \A r \in Rows' \ {Blank} : r \in Rows
        BY <3>4
      <4>3. QED
        BY <4>1, <4>2
    <3>7. QED
      BY <3>3, <3>5, <3>6
  <2>5. Rows = devs \ {answer} /\ devs' = devs /\ answer' = answer
    BY <1>0, <1>10, <2>1, <2>2 DEF InsertRow
  <2>6. QED
    BY <1>0, <1>10, <2>1, <2>3, <2>4, <2>5 DEF InsertRow
<1>11. CASE FillRow
  <2>1. /\ list' \in Seq(Gateways \union {Blank})
        /\ DOMAIN list' = DOMAIN list
        /\ 1 \in DOMAIN list
        /\ list'[1] = answer
        /\ \A i \in DOMAIN list \ {1} : list'[i] = list[i]
    BY <1>0, <1>11 DEF FillRow
  <2>2. answer \notin Rows /\ answer # Blank /\ answer \in devs
    BY <1>0, <1>11 DEF FillRow
  <2>3. NoDuplicateRow'
    BY <1>0, <2>1, <2>2
  <2>4. Rows' \ {Blank} = devs
    BY <1>0, <1>11, <2>1, <2>2 DEF FillRow
  <2>5. BlankIsBeingFilled'
    BY <1>0, <1>11, <2>1, <2>2 DEF FillRow
  <2>6. QED
    BY <1>0, <1>11, <2>1, <2>3, <2>4, <2>5 DEF FillRow
<1>12. CASE Finish
  BY <1>0, <1>12 DEF Finish
<1>17. CASE Loop
  BY <1>0, <1>17 DEF Loop
<1>16. CASE Notify
  BY <1>0, <1>16 DEF Notify
<1>13. CASE UNCHANGED vars
  BY <1>0, <1>13 DEF vars
<1>14. QED
  BY <1>0, <1>1, <1>2, <1>3, <1>4, <1>5, <1>6, <1>7, <1>8, <1>9, <1>10, <1>11, <1>12, <1>13,
     <1>15, <1>16, <1>17
     DEF Next, ScanThread, UserInterface

(* The inductive invariant holds in every reachable state of the scan. *)
THEOREM ScanInvariance == Spec => []ScanInv
  BY InitScanInv, NextScanInv, PTL DEF Spec

(* Whatever the network and the user do, the variables keep their types. *)
THEOREM ScanTypeCorrect == Spec => []TypeOK
<1>1. ScanInv => TypeOK
  BY DEF ScanInv
<1>2. QED
  BY <1>1, ScanInvariance, PTL

(* The scan button is enabled exactly while no scan is asked for or under way. *)
THEOREM ButtonIsSound == Spec => []ButtonTellsIdle
<1>1. ScanInv => ButtonTellsIdle
  BY DEF ScanInv
<1>2. QED
  BY <1>1, ScanInvariance, PTL

(* No gateway is ever listed twice, and the list shows what the scan has met. *)
THEOREM ListIsSound == Spec => []ListIsRight
<1>1. ScanInv => ListIsRight
  BY DEF ScanInv, ListIsRight
<1>2. QED
  BY <1>1, ScanInvariance, PTL

(* Only a click removes rows, and only while no scan is there to refer to them; a row
   that is inserted pushes the others down and changes none. *)
THEOREM RowsAreStable == Spec => RowsOnlyMoveDown
<1> DEFINE Moves ==
      \/ thread' \in {"wait", "loop"} /\ event' /\ list' = <<>>
      \/ /\ Len(list') >= Len(list)
         /\ \A i \in DOMAIN list :
              list[i] # Blank => list'[i + Len(list') - Len(list)] = list[i]
<1>1. ASSUME ScanInv, list' = list PROVE Moves
  <2>1. Len(list) \in Nat /\ DOMAIN list = 1 .. Len(list)
    BY <1>1 DEF ScanInv, TypeOK
  <2>2. QED
    BY <1>1, <2>1
<1>2. ASSUME ScanInv, [Next]_vars PROVE Moves \/ UNCHANGED vars
  <2>1. CASE ClickScan
    BY <1>2, <2>1 DEF ClickScan, ScanInv, ButtonTellsIdle
  <2>2. CASE InsertRow
    <3>1. list' = <<Blank>> \o list /\ list \in Seq(Gateways \union {Blank})
      BY <1>2, <2>2 DEF InsertRow, ScanInv, TypeOK
    <3>2. /\ Len(list) \in Nat /\ DOMAIN list = 1 .. Len(list)
          /\ Len(list') = Len(list) + 1
          /\ \A i \in 2 .. Len(list) + 1 : list'[i] = list[i - 1]
      BY <3>1, InsertedInFront
    <3>3. \A i \in DOMAIN list :
             i + Len(list') - Len(list) = i + 1 /\ list'[i + 1] = list[i]
      BY <3>2
    <3>4. QED
      BY <3>2, <3>3
  <2>3. CASE FillRow
    <3>1. /\ list \in Seq(Gateways \union {Blank}) /\ list # <<>> /\ list[1] = Blank
          /\ list' = [list EXCEPT ![1] = answer]
      BY <1>2, <2>3 DEF FillRow, Goto, ScanInv, TypeOK, BlankIsBeingFilled
    <3>2. /\ Len(list) \in Nat /\ DOMAIN list = 1 .. Len(list)
          /\ Len(list') = Len(list)
          /\ \A i \in DOMAIN list : list[i] # Blank => list'[i] = list[i]
      BY <3>1
    <3>3. \A i \in DOMAIN list : i + Len(list') - Len(list) = i
      BY <3>2
    <3>4. QED
      BY <3>2, <3>3
  <2>4. CASE list' = list
    BY <1>1, <1>2, <2>4
  <2>5. QED
    BY <1>2, <2>1, <2>2, <2>3, <2>4
       DEF Next, ScanThread, UserInterface, RightClick, UiBlock, UiResume, Close, Wake,
           OpenSocket, Broadcast, BroadcastFails, SetRange, RecvNew, RecvIgnored,
           RecvTimeout, RecvError, Progress, Finish, Notify, Loop, Lose, vars
<1>3. QED
  BY <1>2, ScanInvariance, PTL DEF Spec, RowsOnlyMoveDown
=============================================================================
