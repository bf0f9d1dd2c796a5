--------------------------- MODULE FsMonitorProofs ---------------------------
(***************************************************************************)
(* Proofs about two parts of the test target's library.                    *)
(*                                                                         *)
(* FsMonitor, for any number of paths, places, files and descriptors, and  *)
(* any two strings for one place: first the shape of the state, then the   *)
(* watches.                                                                *)
(*                                                                         *)
(* Conversions, for every text: what the codings write they read back,     *)
(* parse_argv finds the words of the text, the paths fit together, and the *)
(* addresses of the right form are taken.                                  *)
(***************************************************************************)
EXTENDS FsMonitor, Conversions, SequenceTheorems, FiniteSetTheorems, WellFoundedInduction, TLAPS

(* inotify watches a file once. *)
OneWatch == \A v, w \in 1 .. MaxWds :
  watch[v].file # NoFile /\ watch[v].file = watch[w].file => v = w

(* The locals of fs_monitor_handle_event: an event while one is handled, and then its
   watcher unless its callback has freed it. *)
WatcherIsListed ==
  /\ step \in {"out", "loop"} => event = NoEvent
  /\ step \in {"callback", "called"} /\ watcher # NoPath
       => watcher \in listed /\ wd[watcher] = event.wd

(* Descriptors that two watchers have are known to be shared. *)
OwnersAreShared == \A p, q \in listed : p \notin shared /\ p # q => wd[p] # wd[q]

Sound == TypeOK /\ OneWatch /\ WatcherIsListed /\ OwnersAreShared
Watched == WatchersAreAwake /\ NoStrayWatch
FsInvariant == Sound /\ Watched

-----------------------------------------------------------------------------
(* Events that wait. *)

LEMMA WaitingInBoth ==
  ASSUME NEW s \in Seq(Events), NEW t \in Seq(Events), NEW w, NEW kinds
  PROVE  Waiting(s \o t, w, kinds) <=> Waiting(s, w, kinds) \/ Waiting(t, w, kinds)
<1> DEFINE st == s \o t
<1>1. /\ Len(s) \in Nat /\ Len(t) \in Nat
      /\ DOMAIN s = 1 .. Len(s) /\ DOMAIN t = 1 .. Len(t) /\ DOMAIN st = 1 .. Len(s) + Len(t)
      /\ \A i \in 1 .. Len(s) : st[i] = s[i]
      /\ \A i \in 1 .. Len(t) : st[Len(s) + i] = t[i]
  OBVIOUS
<1>2. \A i \in DOMAIN st : i \in DOMAIN s \/ (i - Len(s) \in DOMAIN t /\ st[i] = t[i - Len(s)])
  BY <1>1
<1>3. \A i \in DOMAIN t : Len(s) + i \in DOMAIN st
  BY <1>1
<1> HIDE DEF st
<1>4. Waiting(st, w, kinds) => Waiting(s, w, kinds) \/ Waiting(t, w, kinds)
  BY <1>1, <1>2 DEF Waiting
<1>5. Waiting(s, w, kinds) => Waiting(st, w, kinds)
  BY <1>1 DEF Waiting
<1>6. Waiting(t, w, kinds) => Waiting(st, w, kinds)
  BY <1>1, <1>3 DEF Waiting
<1> QED BY <1>4, <1>5, <1>6 DEF st

LEMMA OneWaiting ==
  ASSUME NEW e \in Events, NEW w, NEW kinds
  PROVE  /\ <<e>> \in Seq(Events)
         /\ Waiting(<<e>>, w, kinds) <=> e.wd = w /\ e.kind \in kinds
<1>1. DOMAIN <<e>> = {1} /\ <<e>>[1] = e
  OBVIOUS
<1> QED BY <1>1 DEF Waiting

LEMMA NoneWaiting ==
  ASSUME NEW w, NEW kinds
  PROVE  ~Waiting(<<>>, w, kinds) /\ <<>> \in Seq(Events)
BY DEF Waiting

LEMMA WaitingFirst ==
  ASSUME NEW s \in Seq(Events), s # <<>>, NEW w, NEW kinds
  PROVE  /\ Head(s) \in Events /\ Tail(s) \in Seq(Events)
         /\ Waiting(s, w, kinds) <=>
              (Head(s).wd = w /\ Head(s).kind \in kinds) \/ Waiting(Tail(s), w, kinds)
<1> DEFINE t == Tail(s)
<1>1. /\ Head(s) \in Events /\ t \in Seq(Events)
      /\ Len(s) \in Nat \ {0} /\ DOMAIN s = 1 .. Len(s) /\ DOMAIN t = 1 .. Len(s) - 1
      /\ Head(s) = s[1] /\ \A i \in DOMAIN t : t[i] = s[i + 1]
  BY HeadTailProperties
<1> HIDE DEF t
<1>2. \A i \in DOMAIN s : i = 1 \/ (i - 1 \in DOMAIN t /\ t[i - 1] = s[i])
  BY <1>1
<1>3. 1 \in DOMAIN s /\ \A i \in DOMAIN t : i + 1 \in DOMAIN s
  BY <1>1
<1>4. Waiting(s, w, kinds) => (s[1].wd = w /\ s[1].kind \in kinds) \/ Waiting(t, w, kinds)
  BY <1>2 DEF Waiting
<1>5. Waiting(t, w, kinds) => Waiting(s, w, kinds)
  BY <1>1, <1>3 DEF Waiting
<1>6. s[1].wd = w /\ s[1].kind \in kinds => Waiting(s, w, kinds)
  BY <1>3 DEF Waiting
<1> QED BY <1>1, <1>4, <1>5, <1>6 DEF t

-----------------------------------------------------------------------------
(* Each of the sequences of events an action appends. *)

LEMMA RmEventsType ==
  ASSUME TypeOK, NEW w \in 0 .. MaxWds
  PROVE  /\ RmEvents(w) \in Seq(Events)
         /\ watch[w].file # NoFile /\ w # 0 => Waiting(RmEvents(w), w, {"ignored"})
<1>1. CASE w \in Live
  <2>1. [wd |-> w, kind |-> "ignored"] \in Events
    BY <1>1 DEF Live, Events, Kinds
  <2> QED BY <1>1, <2>1, OneWaiting DEF RmEvents
<1>2. CASE w \notin Live
  BY <1>2, BoundsAssumption DEF RmEvents, Live
<1> QED BY <1>1, <1>2

LEMMA IgnoredType ==
  ASSUME TypeOK
  PROVE  SetToSeq({[wd |-> w, kind |-> "ignored"] : w \in Live}) \in Seq(Events)
<1> DEFINE S == {[wd |-> w, kind |-> "ignored"] : w \in Live}
           T == {[wd |-> w, kind |-> "ignored"] : w \in 1 .. MaxWds}
           f == [w \in 1 .. MaxWds |-> [wd |-> w, kind |-> "ignored"]]
<1>1. S \subseteq T /\ S \subseteq Events
  BY DEF Live, Events, Kinds
<1>2. IsFiniteSet(1 .. MaxWds)
  BY FS_Interval, BoundsAssumption
<1>3. f \in Surjection(1 .. MaxWds, T)
  BY DEF Surjection
<1>4. IsFiniteSet(S)
  BY <1>1, <1>2, <1>3, FS_Surjection, FS_Subset
<1> HIDE DEF S
<1>5. Cardinality(S) \in Nat /\ \E g : g \in Bijection(1 .. Cardinality(S), S)
  BY <1>4, FS_CardinalityType DEF ExistsBijection
<1>6. \E g \in [1 .. Cardinality(S) -> S] : IsInjective(g)
  BY <1>5 DEF Bijection, Injection
<1>7. SetToSeq(S) \in [1 .. Cardinality(S) -> S]
  BY <1>6 DEF SetToSeq
<1>8. SetToSeq(S) \in Seq(S)
  BY <1>5, <1>7
<1>9. SetToSeq(S) \in Seq(Events)
  BY <1>1, <1>8, SeqMonotonic
<1> QED BY <1>9 DEF S

LEMMA NotifyType ==
  ASSUME TypeOK, NEW f, NEW kind \in {"modify", "gone"}
  PROVE  /\ Notify(f, kind) \in Seq(Events)
         /\ \A w, kinds : Waiting(queue, w, kinds) => Waiting(Notify(f, kind), w, kinds)
         /\ \A kinds : \A w \in 1 .. MaxWds :
              /\ OneWatch /\ f # NoFile /\ watch[w].file = f /\ kind \in watch[w].mask /\ kind \in kinds
              => Waiting(Notify(f, kind), w, kinds)
<1> DEFINE asking == {w \in WatchesOf(f) : kind \in watch[w].mask}
           x == CHOOSE w \in asking : TRUE
           e == [wd |-> x, kind |-> kind]
<1>0. queue \in Seq(Events) /\ asking \subseteq 1 .. MaxWds
  BY DEF TypeOK, WatchesOf, WatchesIn
<1>1. CASE asking = {}
  <2>1. Notify(f, kind) = queue
    BY <1>1 DEF Notify
  <2>2. \A w \in 1 .. MaxWds : ~(watch[w].file = f /\ kind \in watch[w].mask)
    BY <1>1 DEF WatchesOf, WatchesIn
  <2> QED BY <1>0, <2>1, <2>2
<1>2. CASE asking # {}
  <2>1. x \in asking /\ e \in Events
    BY <1>0, <1>2 DEF Events, Kinds
  <2>2. Notify(f, kind) = Queued(e)
    BY <1>2 DEF Notify
  <2>3. /\ Queued(e) \in Seq(Events)
        /\ \A w, kinds : Waiting(queue, w, kinds) => Waiting(Queued(e), w, kinds)
        /\ \A kinds : kind \in kinds => Waiting(Queued(e), x, kinds)
    <3> HIDE DEF x
    <3>1. CASE queue # <<>> /\ queue[Len(queue)] = e
      <4>1. Queued(e) = queue /\ Len(queue) \in DOMAIN queue
        BY <1>0, <3>1 DEF Queued
      <4>2. \A kinds : kind \in kinds => Waiting(queue, x, kinds)
        BY <3>1, <4>1 DEF Waiting
      <4> QED BY <1>0, <4>1, <4>2
    <3>2. CASE ~(queue # <<>> /\ queue[Len(queue)] = e)
      <4> HIDE DEF e
      <4>1. Queued(e) = queue \o <<e>>
        BY <1>0, <2>1, <3>2 DEF Queued
      <4>2. <<e>> \in Seq(Events) /\ queue \o <<e>> \in Seq(Events)
        BY <1>0, <2>1
      <4>3. \A w, kinds : Waiting(queue \o <<e>>, w, kinds)
                            <=> Waiting(queue, w, kinds) \/ (e.wd = w /\ e.kind \in kinds)
        BY <1>0, <2>1, <4>2, WaitingInBoth, OneWaiting
      <4>4. e.wd = x /\ e.kind = kind
        BY DEF e
      <4> QED BY <4>1, <4>2, <4>3, <4>4
    <3> QED BY <3>1, <3>2
  <2>4. \A w \in 1 .. MaxWds :
          OneWatch /\ f # NoFile /\ watch[w].file = f /\ kind \in watch[w].mask => w = x
    BY <1>0, <2>1 DEF OneWatch, WatchesOf, WatchesIn
  <2> QED BY <2>2, <2>3, <2>4
<1> QED BY <1>1, <1>2

Sharing(p, w) == {q \in listed \ {p} : wd[q] = w}

(* AddWatch with table k gives p descriptor w. *)
Added(k, p, m, w) ==
  LET f == at[Place[p]] IN
  /\ f \in Files /\ wd' = [wd EXCEPT ![p] = w]
  /\ watch' = [k EXCEPT ![w] = [file |-> f, mask |-> m]]
  /\ \A v \in 1 .. MaxWds : k[v].file = f => k[w].file = f
  /\ nextWd' \in 1 .. MaxWds + 1
  /\ shared' = IF Sharing(p, w) = {} THEN shared \ {p}
               ELSE shared \union Sharing(p, w) \union {p}

(* inotify_add_watch: the watcher gets a descriptor, maybe that of others. *)
LEMMA AddWatchFacts ==
  ASSUME TypeOK, NEW p \in Paths, NEW m \in SUBSET Kinds,
         NEW k \in [1 .. MaxWds -> [file : Files \union {NoFile}, mask : SUBSET Kinds]],
         AddWatch(k, p, m)
  PROVE  \E w \in 1 .. MaxWds : Added(k, p, m, w)
<1> DEFINE f == at[Place[p]]
           w == IF WatchesIn(k, f) = {} THEN nextWd ELSE CHOOSE x \in WatchesIn(k, f) : TRUE
<1>1. w \in 1 .. MaxWds /\ (WatchesIn(k, f) # {} => w \in WatchesIn(k, f))
  BY BoundsAssumption DEF AddWatch, WatchesIn, TypeOK
<1>2. f \in Files
  BY PlaceAssumption DEF AddWatch, TypeOK
<1>3. \A v \in 1 .. MaxWds : k[v].file = f => k[w].file = f
  BY <1>1 DEF WatchesIn
<1>4. nextWd' \in 1 .. MaxWds + 1
  <2>1. nextWd' = IF w = nextWd THEN nextWd + 1 ELSE nextWd
    BY DEF AddWatch
  <2> HIDE DEF w
  <2> QED BY <1>1, <2>1, BoundsAssumption DEF TypeOK
<1>5. /\ wd' = [wd EXCEPT ![p] = w]
      /\ watch' = [k EXCEPT ![w] = [file |-> f, mask |-> m]]
      /\ shared' = IF Sharing(p, w) = {} THEN shared \ {p}
                     ELSE shared \union Sharing(p, w) \union {p}
  BY DEF AddWatch, Sharing
<1>6. Added(k, p, m, w)
  BY <1>2, <1>3, <1>4, <1>5 DEF Added, Sharing
<1> QED BY <1>1, <1>6

-----------------------------------------------------------------------------
(* The shape of the state, kept by each step. *)

LEMMA SoundStart == Init => Sound
<1> SUFFICES ASSUME Init PROVE Sound
  OBVIOUS
<1>1. TypeOK
  <2>1. /\ 0 \in 0 .. MaxWds /\ 1 \in 1 .. MaxWds + 1 /\ <<>> \in Seq(Events)
        /\ Unwatched \in [file : Files \union {NoFile}, mask : SUBSET Kinds]
    BY BoundsAssumption, NoneWaiting DEF Unwatched
  <2> QED BY <2>1 DEF Init, TypeOK
<1>2. OneWatch
  BY DEF Init, OneWatch, Unwatched
<1>3. WatcherIsListed /\ OwnersAreShared
  BY DEF Init, WatcherIsListed, OwnersAreShared
<1> QED BY <1>1, <1>2, <1>3 DEF Sound

LEMMA FilesKeepSound ==
  ASSUME Sound, FileStep
  PROVE  Sound'
<1>t. TypeOK
  BY DEF Sound
<1>k. /\ "modify" \in Kinds /\ "gone" \in Kinds /\ "ignored" \in Kinds
      /\ Unwatched \in [file : Files \union {NoFile}, mask : SUBSET Kinds]
  BY DEF Kinds, Unwatched
<1>u. UNCHANGED <<nextWd, open, watchers, task>>
  BY DEF FileStep, Modify, Unlink, MoveAway, MoveHere, Create, inotify
<1> DEFINE Shape ==
      /\ at' \in [Places -> Files \union {NoFile}] /\ away' \in SUBSET Files
      /\ queue' \in Seq(Events)
      /\ watch' \in [1 .. MaxWds -> [file : Files \union {NoFile}, mask : SUBSET Kinds]]
      /\ \A w \in 1 .. MaxWds : watch'[w] = watch[w] \/ watch'[w] = Unwatched
<1>1. Shape
  <2>1. ASSUME NEW f \in Files, Modify(f) PROVE Shape
    BY <1>t, <2>1, NotifyType DEF Modify, TypeOK
  <2>2. ASSUME NEW p \in Places, NEW f \in Files, Create(p, f) PROVE Shape
    BY <1>t, <2>2 DEF Create, TypeOK, inotify
  <2>3. ASSUME NEW p \in Places, Unlink(p) PROVE Shape
    <3> DEFINE ws == WatchesOf(at[p])
               e == [wd |-> CHOOSE w \in ws : TRUE, kind |-> "ignored"]
    <3>1. (IF ws = {} THEN <<>> ELSE <<e>>) \in Seq(Events)
      <4>1. ws # {} => e \in Events
        BY <1>k DEF Events, WatchesOf, WatchesIn
      <4> QED BY <4>1, NoneWaiting, OneWaiting
    <3>2. queue' = Notify(at[p], "gone") \o (IF ws = {} THEN <<>> ELSE <<e>>)
      BY <2>3 DEF Unlink
    <3>3. queue' \in Seq(Events)
      BY <1>t, <3>1, <3>2, NotifyType, ConcatProperties
    <3> QED BY <1>t, <1>k, <2>3, <3>3 DEF Unlink, TypeOK
  <2>4. ASSUME NEW p \in Places, MoveAway(p) PROVE Shape
    BY <1>t, <2>4, NotifyType DEF MoveAway, TypeOK
  <2>5. ASSUME NEW p \in Places, NEW f \in Files, MoveHere(p, f) PROVE Shape
    BY <1>t, <2>5, NotifyType DEF MoveHere, TypeOK
  <2> QED BY <2>1, <2>2, <2>3, <2>4, <2>5 DEF FileStep
<1>2. TypeOK'
  BY <1>t, <1>u, <1>1 DEF TypeOK, watchers, task
<1>3. OneWatch'
  BY <1>1 DEF OneWatch, Sound, Unwatched
<1>4. WatcherIsListed' /\ OwnersAreShared'
  BY <1>u DEF Sound, WatcherIsListed, OwnersAreShared, watchers, task
<1> QED BY <1>2, <1>3, <1>4 DEF Sound

(* Watchers that are removed. *)
LEMMA ForgetKeeps ==
  ASSUME TypeOK, WatcherIsListed, OwnersAreShared, NEW ps \in SUBSET Paths,
         Forget(ps), step' = step, event' = event \/ (event' = NoEvent /\ watcher' = NoPath)
  PROVE  /\ listed' \in SUBSET Paths /\ shared' \in SUBSET Paths
         /\ wd' \in [Paths -> 0 .. MaxWds] /\ mask' \in [Paths -> SUBSET Kinds]
         /\ watcher' \in Paths \union {NoPath}
         /\ WatcherIsListed' /\ OwnersAreShared'
         /\ \A q \in listed' : q \in listed /\ q \notin ps /\ wd'[q] = wd[q]
<1>1. /\ listed' = listed \ ps /\ shared' = shared \ ps
      /\ wd' = [q \in Paths |-> IF q \in ps THEN 0 ELSE wd[q]]
      /\ mask' = [q \in Paths |-> IF q \in ps THEN {} ELSE mask[q]]
      /\ watcher' = IF watcher \in ps THEN NoPath ELSE watcher
  BY DEF Forget
<1>2. /\ listed' \in SUBSET Paths /\ shared' \in SUBSET Paths
      /\ watcher' \in Paths \union {NoPath}
  BY <1>1 DEF TypeOK
<1>3. wd' \in [Paths -> 0 .. MaxWds] /\ mask' \in [Paths -> SUBSET Kinds]
  BY <1>1, BoundsAssumption DEF TypeOK
<1>4. \A q \in listed' : q \in listed /\ q \notin ps /\ wd'[q] = wd[q]
  BY <1>1 DEF TypeOK
<1>5. OwnersAreShared'
  BY <1>1, <1>4 DEF OwnersAreShared
<1>6. WatcherIsListed'
  BY <1>1, PathsAssumption DEF WatcherIsListed, TypeOK
<1> QED BY <1>2, <1>3, <1>4, <1>5, <1>6

LEMMA WithoutKeeps ==
  ASSUME TypeOK, NEW w \in 0 .. MaxWds
  PROVE  /\ Without(w) \in [1 .. MaxWds -> [file : Files \union {NoFile}, mask : SUBSET Kinds]]
         /\ \A v \in 1 .. MaxWds : Without(w)[v] = IF v = w THEN Unwatched ELSE watch[v]
<1>1. Unwatched \in [file : Files \union {NoFile}, mask : SUBSET Kinds]
  BY DEF Unwatched
<1> QED BY <1>1 DEF Without, TypeOK

(* A watcher that is added or restored, with the table k before it. *)
LEMMA AddWatchKeeps ==
  ASSUME TypeOK, OwnersAreShared, NEW p \in Paths, NEW m \in SUBSET Kinds,
         NEW k \in [1 .. MaxWds -> [file : Files \union {NoFile}, mask : SUBSET Kinds]],
         \A v, w \in 1 .. MaxWds : k[v].file # NoFile /\ k[v].file = k[w].file => v = w,
         AddWatch(k, p, m), listed' = listed \union {p}
  PROVE  /\ watch' \in [1 .. MaxWds -> [file : Files \union {NoFile}, mask : SUBSET Kinds]]
         /\ wd' \in [Paths -> 0 .. MaxWds] /\ nextWd' \in 1 .. MaxWds + 1
         /\ shared' \in SUBSET Paths /\ listed' \in SUBSET Paths
         /\ OneWatch' /\ OwnersAreShared'
         /\ \A q \in Paths \ {p} : wd'[q] = wd[q]
<1> DEFINE f == at[Place[p]]
<1>w. PICK w \in 1 .. MaxWds : Added(k, p, m, w)
  BY AddWatchFacts
<1>1. /\ f \in Files /\ wd' = [wd EXCEPT ![p] = w]
      /\ watch' = [k EXCEPT ![w] = [file |-> f, mask |-> m]]
      /\ nextWd' \in 1 .. MaxWds + 1
      /\ shared' = IF Sharing(p, w) = {} THEN shared \ {p}
                   ELSE shared \union Sharing(p, w) \union {p}
  BY <1>w DEF Added
<1>f. \A v \in 1 .. MaxWds : k[v].file = f => k[w].file = f
  BY <1>w DEF Added
<1>2. /\ watch' \in [1 .. MaxWds -> [file : Files \union {NoFile}, mask : SUBSET Kinds]]
      /\ wd' \in [Paths -> 0 .. MaxWds] /\ nextWd' \in 1 .. MaxWds + 1
      /\ listed' \in SUBSET Paths
      /\ \A q \in Paths \ {p} : wd'[q] = wd[q]
  BY <1>1, BoundsAssumption DEF TypeOK
<1>3. shared' \in SUBSET Paths
  BY <1>1 DEF TypeOK, Sharing
<1>4. OneWatch'
  <2>1. \A v \in 1 .. MaxWds : watch'[v].file = IF v = w THEN f ELSE k[v].file
    BY <1>1
  <2>2. \A v \in 1 .. MaxWds : v # w => k[v].file # f
    BY <1>1, <1>f, FilesAssumption
  <2> QED BY <2>1, <2>2 DEF OneWatch
<1>5. ASSUME NEW q \in listed', NEW r \in listed', q \notin shared', q # r, wd'[q] = wd'[r]
      PROVE  FALSE
  <2> DEFINE sharing == {x \in listed \ {p} : wd[x] = w}
  <2>1. wd'[p] = w /\ \A x \in listed \ {p} : x \in Paths /\ wd'[x] = wd[x]
    BY <1>1 DEF TypeOK
  <2>2. shared' = IF sharing = {} THEN shared \ {p} ELSE shared \union sharing \union {p}
    BY <1>1 DEF Sharing
  <2>3. CASE q = p
    <3>1. sharing = {}
      BY <1>5, <2>2, <2>3
    <3> QED BY <1>5, <2>1, <2>3, <3>1
  <2>4. CASE q # p /\ r = p
    <3>1. q \in listed \ {p} /\ wd[q] = w
      BY <1>5, <2>1, <2>4
    <3> QED BY <1>5, <2>2, <3>1
  <2>5. CASE q # p /\ r # p
    <3>1. q \in listed /\ r \in listed /\ wd[q] = wd[r] /\ q \notin shared
      BY <1>5, <2>1, <2>2, <2>5
    <3> QED BY <1>5, <3>1 DEF OwnersAreShared
  <2> QED BY <2>3, <2>4, <2>5
<1> QED BY <1>2, <1>3, <1>4, <1>5 DEF OwnersAreShared

(* The calls of the program. *)
LEMMA UsersKeepSound ==
  ASSUME Sound, UserStep
  PROVE  Sound'
<1>t. TypeOK /\ OneWatch /\ WatcherIsListed /\ OwnersAreShared
  BY DEF Sound
<1>u. [w \in 1 .. MaxWds |-> Unwatched] \in [1 .. MaxWds -> [file : Files \union {NoFile}, mask : SUBSET Kinds]]
  BY DEF Unwatched
<1>1. CASE FsInit
  BY <1>t, <1>1 DEF FsInit, inotify, watchers, task, Sound, TypeOK, OneWatch, WatcherIsListed,
                    OwnersAreShared
<1>2. ASSUME FsInitAgain \/ FsCleanup PROVE Sound'
  <2>1. Forget(Paths) /\ at' = at /\ away' = away /\ step' = step /\ batch' = batch
        /\ watch' = [w \in 1 .. MaxWds |-> Unwatched]
    BY <1>2 DEF FsInitAgain, FsCleanup
  <2>v. event' = event \/ event' = NoEvent
    BY <1>2 DEF FsInitAgain, FsCleanup
  <2>w. watcher' = NoPath
    <3>1. watcher' = IF watcher \in Paths THEN NoPath ELSE watcher
      BY <2>1 DEF Forget
    <3>2. watcher \in Paths \union {NoPath}
      BY <1>t DEF TypeOK
    <3> QED BY <3>1, <3>2
  <2>e. event' \in Events \union {NoEvent}
    BY <1>t, <2>v DEF TypeOK
  <2>2. open' \in BOOLEAN /\ nextWd' \in 1 .. MaxWds + 1 /\ lost' \in BOOLEAN
    <3>1. 1 \in 1 .. MaxWds + 1 /\ nextWd \in 1 .. MaxWds + 1 /\ lost \in BOOLEAN
      BY <1>t, BoundsAssumption DEF TypeOK
    <3> QED BY <1>2, <3>1 DEF FsInitAgain, FsCleanup
  <2>3. queue' \in Seq(Events)
    <3>1. CASE FsInitAgain
      BY <1>t, <3>1, IgnoredType, ConcatProperties DEF FsInitAgain, TypeOK
    <3>2. CASE FsCleanup
      BY <3>2, NoneWaiting DEF FsCleanup
    <3> QED BY <1>2, <3>1, <3>2
  <2>4. /\ listed' \in SUBSET Paths /\ shared' \in SUBSET Paths
        /\ wd' \in [Paths -> 0 .. MaxWds] /\ mask' \in [Paths -> SUBSET Kinds]
        /\ watcher' \in Paths \union {NoPath}
        /\ WatcherIsListed' /\ OwnersAreShared'
    <3>1. step' = step /\ (event' = event \/ (event' = NoEvent /\ watcher' = NoPath))
      BY <2>1, <2>v, <2>w
    <3>2. PICK ps \in SUBSET Paths : ps = Paths
      OBVIOUS
    <3>3. Forget(ps)
      BY <2>1, <3>2
    <3> QED BY <1>t, <3>1, <3>3, ForgetKeeps
  <2>5. TypeOK'
    BY <1>t, <1>u, <2>1, <2>2, <2>3, <2>4, <2>e DEF TypeOK
  <2>6. OneWatch'
    BY <2>1 DEF OneWatch, Unwatched
  <2> QED BY <2>4, <2>5, <2>6 DEF Sound
<1>3. ASSUME NEW p \in Paths, DelWatcher(p) PROVE Sound'
  <2>1. /\ p \in listed /\ wd[p] \in 0 .. MaxWds /\ Forget({p})
        /\ watch' = Without(wd[p]) /\ queue' = queue \o RmEvents(wd[p])
        /\ UNCHANGED <<at, away, nextWd, open, step, batch, event, lost>>
    BY <1>t, <1>3 DEF DelWatcher, TypeOK
  <2>2. queue' \in Seq(Events)
    BY <1>t, <2>1, RmEventsType, ConcatProperties DEF TypeOK
  <2>3. /\ watch' \in [1 .. MaxWds -> [file : Files \union {NoFile}, mask : SUBSET Kinds]]
        /\ \A v \in 1 .. MaxWds : watch'[v] = IF v = wd[p] THEN Unwatched ELSE watch[v]
    BY <1>t, <2>1, WithoutKeeps
  <2>4. /\ listed' \in SUBSET Paths /\ shared' \in SUBSET Paths
        /\ wd' \in [Paths -> 0 .. MaxWds] /\ mask' \in [Paths -> SUBSET Kinds]
        /\ watcher' \in Paths \union {NoPath}
        /\ WatcherIsListed' /\ OwnersAreShared'
    BY <1>t, <2>1, ForgetKeeps
  <2>5. TypeOK'
    BY <1>t, <2>1, <2>2, <2>3, <2>4 DEF TypeOK
  <2>6. OneWatch'
    BY <1>t, <2>3 DEF OneWatch, Unwatched
  <2> QED BY <2>4, <2>5, <2>6 DEF Sound
<1>4. ASSUME NEW p \in Paths, NEW m \in Asked, AddWatcher(p, m) PROVE Sound'
  <2>1. /\ p \notin listed /\ AddWatch(watch, p, m \union {"gone"})
        /\ listed' = listed \union {p} /\ mask' = [mask EXCEPT ![p] = m]
        /\ UNCHANGED <<at, away, queue, open, step, batch, event, watcher, lost>>
    BY <1>4 DEF AddWatcher, task
  <2>2. m \in SUBSET Kinds /\ m \union {"gone"} \in SUBSET Kinds
    BY AskedAssumption DEF Kinds
  <2>3. /\ watch' \in [1 .. MaxWds -> [file : Files \union {NoFile}, mask : SUBSET Kinds]]
        /\ wd' \in [Paths -> 0 .. MaxWds] /\ nextWd' \in 1 .. MaxWds + 1
        /\ shared' \in SUBSET Paths /\ listed' \in SUBSET Paths
        /\ OneWatch' /\ OwnersAreShared'
        /\ \A q \in Paths \ {p} : wd'[q] = wd[q]
    <3>1. /\ watch \in [1 .. MaxWds -> [file : Files \union {NoFile}, mask : SUBSET Kinds]]
          /\ \A v, w \in 1 .. MaxWds : watch[v].file # NoFile /\ watch[v].file = watch[w].file => v = w
      BY <1>t DEF TypeOK, OneWatch
    <3> QED BY <1>t, <2>1, <2>2, <3>1, AddWatchKeeps
  <2>4. TypeOK'
    BY <1>t, <2>1, <2>2, <2>3 DEF TypeOK
  <2>5. WatcherIsListed'
    BY <1>t, <2>1, <2>3 DEF WatcherIsListed, TypeOK
  <2> QED BY <2>3, <2>4, <2>5 DEF Sound
<1> QED BY <1>1, <1>2, <1>3, <1>4 DEF UserStep

LEMMA EventType == TypeOK => event.wd \in 0 .. MaxWds
<1> SUFFICES ASSUME TypeOK PROVE event.wd \in 0 .. MaxWds
  OBVIOUS
<1>1. CASE event \in Events
  <2>1. event.wd \in 1 .. MaxWds
    BY <1>1 DEF Events
  <2> QED BY <2>1, BoundsAssumption
<1>2. CASE event = NoEvent
  BY <1>2, BoundsAssumption DEF NoEvent
<1> QED BY <1>1, <1>2 DEF TypeOK

(* The end of the handling of an event. *)
LEMMA DoneIsTyped ==
  ASSUME TypeOK, EventDone
  PROVE  /\ step' \in {"loop", "dangling"} /\ event' = NoEvent /\ watcher' = NoPath
         /\ lost' \in BOOLEAN /\ batch' = batch /\ WatcherIsListed'
BY DEF EventDone, WatcherIsListed

LEMMA TasksKeepSound ==
  ASSUME Sound, TaskStep
  PROVE  Sound'
<1>t. TypeOK /\ OneWatch /\ WatcherIsListed /\ OwnersAreShared
  BY DEF Sound
<1>1. ASSUME Read \/ TaskReturns \/ Dispatch \/ Pass \/ UseFreed PROVE Sound'
  <2>1. UNCHANGED <<at, away, watch, nextWd, open, listed, wd, mask, shared>>
    BY <1>1 DEF Read, TaskReturns, Dispatch, Pass, UseFreed, inotify, watchers
  <2>2. queue' \in Seq(Events) /\ batch' \in Seq(Events)
    <3>1. batch # <<>> => Tail(batch) \in Seq(Events)
      BY <1>t, HeadTailProperties DEF TypeOK
    <3>2. <<>> \in Seq(Events)
      BY NoneWaiting
    <3> QED BY <1>t, <1>1, <3>1, <3>2
            DEF Read, TaskReturns, Dispatch, Pass, UseFreed, EventDone, inotify, TypeOK
  <2>3. /\ step' \in {"out", "loop", "callback", "called", "dangling"}
        /\ event' \in Events \union {NoEvent} /\ watcher' \in Paths \union {NoPath}
        /\ lost' \in BOOLEAN /\ WatcherIsListed'
    <3>1. CASE Read
      BY <1>t, <2>1, <3>1 DEF Read, TypeOK, WatcherIsListed
    <3>2. CASE TaskReturns
      BY <1>t, <2>1, <3>2 DEF TaskReturns, TypeOK, WatcherIsListed
    <3>3. CASE Dispatch
      <4> DEFINE e == Head(batch)
                 found == {p \in listed : wd[p] = e.wd}
      <4>1. /\ step = "loop" /\ batch # <<>> /\ lost' = lost
            /\ \/ UNCHANGED <<step, event, watcher>>
               \/ \E p \in found : /\ event' = e /\ watcher' = p
                                   /\ step' = IF e.kind \in mask[p] THEN "callback" ELSE "called"
        BY <3>3 DEF Dispatch
      <4>2. e \in Events
        BY <1>t, <4>1, HeadTailProperties DEF TypeOK
      <4> HIDE DEF e
      <4>3. CASE UNCHANGED <<step, event, watcher>>
        BY <1>t, <2>1, <4>1, <4>3 DEF TypeOK, WatcherIsListed
      <4>4. CASE \E p \in found : /\ event' = e /\ watcher' = p
                                  /\ step' = IF e.kind \in mask[p] THEN "callback" ELSE "called"
        BY <1>t, <2>1, <4>1, <4>2, <4>4 DEF TypeOK, WatcherIsListed
      <4> QED BY <4>1, <4>3, <4>4
    <3>4. CASE Pass
      BY <1>t, <3>4, DoneIsTyped DEF Pass
    <3>5. CASE UseFreed
      BY <1>t, <3>5 DEF UseFreed, TypeOK, WatcherIsListed
    <3> QED BY <1>1, <3>1, <3>2, <3>3, <3>4, <3>5
  <2>4. TypeOK'
    BY <1>t, <2>1, <2>2, <2>3 DEF TypeOK
  <2> QED BY <1>t, <2>1, <2>3, <2>4 DEF Sound, OneWatch, OwnersAreShared
<1>2. ASSUME Restore PROVE Sound'
  <2>1. PICK p \in Paths, m \in SUBSET Kinds, g \in 0 .. MaxWds :
          p = watcher /\ m = mask[watcher] /\ g = event.wd /\ p \in listed
    BY <1>t, <1>2, EventType DEF Restore, Called, TypeOK, WatcherIsListed
  <2>2. PICK k \in [1 .. MaxWds -> [file : Files \union {NoFile}, mask : SUBSET Kinds]] :
          k = Without(g) /\ \A v \in 1 .. MaxWds : k[v] = IF v = g THEN Unwatched ELSE watch[v]
    BY <1>t, WithoutKeeps
  <2>3. /\ AddWatch(k, p, m) /\ EventDone /\ queue' = queue \o RmEvents(g)
        /\ UNCHANGED <<at, away, open, listed, mask>>
    BY <1>2, <2>1, <2>2 DEF Restore
  <2>4. \A v, w \in 1 .. MaxWds : k[v].file # NoFile /\ k[v].file = k[w].file => v = w
    BY <1>t, <2>2 DEF OneWatch, Unwatched
  <2>5. listed' = listed \union {p}
    BY <2>1, <2>3
  <2>6. /\ watch' \in [1 .. MaxWds -> [file : Files \union {NoFile}, mask : SUBSET Kinds]]
        /\ wd' \in [Paths -> 0 .. MaxWds] /\ nextWd' \in 1 .. MaxWds + 1
        /\ shared' \in SUBSET Paths /\ listed' \in SUBSET Paths
        /\ OneWatch' /\ OwnersAreShared'
    BY <1>t, <2>2, <2>3, <2>4, <2>5, AddWatchKeeps
  <2>7. queue' \in Seq(Events)
    BY <1>t, <2>3, RmEventsType, ConcatProperties DEF TypeOK
  <2>8. /\ step' \in {"loop", "dangling"} /\ event' = NoEvent /\ watcher' = NoPath
        /\ lost' \in BOOLEAN /\ batch' = batch /\ WatcherIsListed'
    BY <1>t, <2>3, DoneIsTyped
  <2>9. TypeOK'
    BY <1>t, <2>3, <2>6, <2>7, <2>8 DEF TypeOK
  <2> QED BY <2>6, <2>8, <2>9 DEF Sound
<1>3. ASSUME RestoreFails PROVE Sound'
  <2>1. /\ watcher \in Paths /\ event.wd \in 0 .. MaxWds
    BY <1>t, <1>3, EventType DEF RestoreFails, TypeOK
  <2>2. /\ watch' = Without(event.wd) /\ EventDone /\ queue' = queue \o RmEvents(event.wd)
        /\ listed' = listed \ {watcher} /\ shared' = shared \ {watcher}
        /\ wd' = [wd EXCEPT ![watcher] = 0] /\ mask' = [mask EXCEPT ![watcher] = {}]
        /\ UNCHANGED <<at, away, nextWd, open>>
    BY <1>3 DEF RestoreFails
  <2>3. /\ watch' \in [1 .. MaxWds -> [file : Files \union {NoFile}, mask : SUBSET Kinds]]
        /\ \A v \in 1 .. MaxWds : watch'[v] = IF v = event.wd THEN Unwatched ELSE watch[v]
    BY <1>t, <2>1, <2>2, WithoutKeeps
  <2>4. queue' \in Seq(Events)
    BY <1>t, <2>1, <2>2, RmEventsType, ConcatProperties DEF TypeOK
  <2>5. /\ step' \in {"loop", "dangling"} /\ event' = NoEvent /\ watcher' = NoPath
        /\ lost' \in BOOLEAN /\ batch' = batch /\ WatcherIsListed'
    BY <1>t, <2>2, DoneIsTyped
  <2>6. wd' \in [Paths -> 0 .. MaxWds] /\ mask' \in [Paths -> SUBSET Kinds]
    <3>1. 0 \in 0 .. MaxWds
      BY BoundsAssumption
    <3> QED BY <1>t, <2>2, <3>1 DEF TypeOK
  <2>7. TypeOK'
    BY <1>t, <2>2, <2>3, <2>4, <2>5, <2>6 DEF TypeOK
  <2>8. OneWatch'
    BY <1>t, <2>3 DEF OneWatch, Unwatched
  <2>9. OwnersAreShared'
    BY <1>t, <2>2 DEF OwnersAreShared, TypeOK
  <2> QED BY <2>5, <2>7, <2>8, <2>9 DEF Sound
<1> QED BY <1>1, <1>2, <1>3 DEF TaskStep, HandleEvent

LEMMA SoundKept == Sound /\ [Next]_vars => Sound'
<1>1. ASSUME Sound, UNCHANGED vars PROVE Sound'
  BY <1>1 DEF vars, inotify, watchers, task, Sound, TypeOK, OneWatch, WatcherIsListed, OwnersAreShared
<1> QED BY <1>1, FilesKeepSound, UsersKeepSound, TasksKeepSound DEF Next

-----------------------------------------------------------------------------
(* Watchers stay awake, and watches keep a watcher. *)

(* What the step leaves under way for descriptor w, if it was. *)
KeepsPending(w) == \A kinds \in SUBSET {"gone", "ignored"} : Pending(w, kinds) => Pending(w, kinds)'

LEMMA BothPending ==
  ASSUME NEW w, KeepsPending(w)
  PROVE  /\ Pending(w, {"gone", "ignored"}) => Pending(w, {"gone", "ignored"})'
         /\ Pending(w, {"gone"}) => Pending(w, {"gone"})'
BY DEF KeepsPending

LEMMA StaysAwake ==
  ASSUME NEW q \in Paths, NEW w, wd[q] = w, wd'[q] = w, Awake(q),
         w \in Live <=> w \in Live', w \in Live => watch'[w] = watch[w],
         at'[Place[q]] = at[Place[q]], KeepsPending(w)
  PROVE  Awake(q)'
<1>1. /\ Pending(w, {"gone", "ignored"}) => Pending(w, {"gone", "ignored"})'
      /\ Pending(w, {"gone"}) => Pending(w, {"gone"})'
  BY BothPending
<1> QED BY <1>1 DEF Awake, Watching, Pending

(* Events that are added to the queue. *)
LEMMA MoreIsPending ==
  ASSUME TypeOK, NEW more \in Seq(Events), queue' = queue \o more, batch' = batch, NEW w,
         event' = event \/ event.wd # w \/ event.kind \notin {"gone", "ignored"}
  PROVE  KeepsPending(w)
<1>1. \A kinds : Waiting(queue, w, kinds) => Waiting(queue', w, kinds)
  BY WaitingInBoth DEF TypeOK
<1> QED BY <1>1 DEF KeepsPending, Pending

(* A watcher p is added or restored, when inotify has no descriptor g any more. *)
LEMMA AddedStayWatched ==
  ASSUME TypeOK, Watched, step # "dangling", NEW p \in Paths, NEW m \in SUBSET Kinds, NEW g,
         NEW k \in [1 .. MaxWds -> [file : Files \union {NoFile}, mask : SUBSET Kinds]],
         \A v \in 1 .. MaxWds : k[v] = IF v = g THEN Unwatched ELSE watch[v],
         AddWatch(k, p, m), listed' = listed \union {p}, at' = at,
         p \in listed => wd[p] = g,
         \A q \in listed \ {p} : q \notin shared => wd[q] # g,
         \A v : v # g => KeepsPending(v)
  PROVE  Watched'
<1> DEFINE f == at[Place[p]]
<1>w. PICK w \in 1 .. MaxWds : Added(k, p, m, w)
  BY AddWatchFacts
<1>1. /\ f \in Files /\ wd' = [wd EXCEPT ![p] = w]
      /\ watch' = [k EXCEPT ![w] = [file |-> f, mask |-> m]]
      /\ nextWd' \in 1 .. MaxWds + 1
      /\ shared' = IF Sharing(p, w) = {} THEN shared \ {p}
                   ELSE shared \union Sharing(p, w) \union {p}
  BY <1>w DEF Added
<1>f. \A v \in 1 .. MaxWds : k[v].file = f => k[w].file = f
  BY <1>w DEF Added
<1> HIDE DEF f
<1>2. /\ wd'[p] = w /\ \A q \in Paths \ {p} : wd'[q] = wd[q]
      /\ \A q \in listed \ {p} : q \in Paths
  BY <1>1 DEF TypeOK
<1>3. /\ watch'[w].file = f /\ f # NoFile /\ w \in Live'
      /\ \A v \in 1 .. MaxWds : v # w /\ v # g => watch'[v] = watch[v]
  <2>1. watch'[w] = [file |-> f, mask |-> m] /\ f # NoFile
    BY <1>1, FilesAssumption
  <2> QED BY <1>1, <2>1 DEF Live
<1>4. \A v \in 1 .. MaxWds : v # w /\ v = g => v \notin Live'
  BY <1>1 DEF Live, Unwatched
<1>5. \A q \in listed \ {p} : q \notin shared' => q \notin shared /\ wd[q] # w
  BY <1>1 DEF Sharing
<1>6. ASSUME NEW q \in listed', q \notin shared' PROVE Awake(q)'
  <2>1. CASE q = p
    <3>1. wd'[q] \in Live' /\ watch'[wd'[q]].file = at'[Place[q]]
      BY <1>2, <1>3, <2>1 DEF f
    <3> QED BY <3>1 DEF Awake, Watching
  <2>2. CASE q # p
    <3>v. PICK v : wd[q] = v
      OBVIOUS
    <3>1. q \in listed \ {p} /\ q \in Paths /\ q \notin shared /\ v # w /\ v # g /\ wd'[q] = v
      BY <1>2, <1>5, <1>6, <2>2, <3>v
    <3>2. Awake(q)
      BY <3>1 DEF Watched, WatchersAreAwake
    <3>3. (v \in Live <=> v \in Live') /\ (v \in Live => watch'[v] = watch[v])
      BY <1>3, <3>1 DEF Live
    <3>4. KeepsPending(v)
      BY <3>1
    <3> QED BY <3>v, <3>1, <3>2, <3>3, <3>4, StaysAwake
  <2> QED BY <2>1, <2>2
<1>7. ASSUME NEW v \in Live' PROVE \E q \in listed' : wd'[q] = v
  <2>1. CASE v = w
    BY <1>2, <2>1
  <2>2. CASE v # w
    <3>1. v \in Live /\ v # g
      BY <1>3, <1>4, <1>7, <2>2 DEF Live
    <3>2. PICK q \in listed : wd[q] = v
      BY <3>1 DEF Watched, NoStrayWatch
    <3>3. q # p
      BY <3>1, <3>2
    <3> QED BY <1>2, <3>2, <3>3
  <2> QED BY <2>1, <2>2
<1> QED BY <1>6, <1>7 DEF Watched, WatchersAreAwake, NoStrayWatch

(* A watcher p with descriptor g leaves the list, and inotify the descriptor. *)
LEMMA OthersStayWatched ==
  ASSUME TypeOK, Watched, OwnersAreShared, step # "dangling", NEW p \in listed, NEW g, wd[p] = g,
         \A v \in 1 .. MaxWds : watch'[v] = IF v = g THEN Unwatched ELSE watch[v],
         listed' = listed \ {p}, shared' = shared \ {p}, at' = at,
         \A q \in listed \ {p} : wd'[q] = wd[q],
         \A v : v # g => KeepsPending(v)
  PROVE  Watched'
<1>1. ASSUME NEW q \in listed', q \notin shared' PROVE Awake(q)'
  <2>v. PICK v : wd[q] = v
    OBVIOUS
  <2>1. q \in listed /\ q \in Paths /\ q # p /\ q \notin shared /\ wd'[q] = v
    BY <1>1, <2>v DEF TypeOK
  <2>2. v # g
    BY <2>v, <2>1 DEF OwnersAreShared
  <2>3. Awake(q)
    BY <2>1 DEF Watched, WatchersAreAwake
  <2>4. (v \in Live <=> v \in Live') /\ (v \in Live => watch'[v] = watch[v])
    BY <2>2 DEF Live
  <2>5. KeepsPending(v)
    BY <2>2
  <2> QED BY <2>v, <2>1, <2>3, <2>4, <2>5, StaysAwake
<1>2. ASSUME NEW v \in Live' PROVE \E q \in listed' : wd'[q] = v
  <2>1. v \in Live /\ v # g
    BY <1>2 DEF Live, Unwatched
  <2>2. PICK q \in listed : wd[q] = v
    BY <2>1 DEF Watched, NoStrayWatch
  <2> QED BY <2>1, <2>2
<1> QED BY <1>1, <1>2 DEF Watched, WatchersAreAwake, NoStrayWatch

(* Watchers and inotify's table are left alone, and no file comes or goes. *)
LEMMA AllStayWatched ==
  ASSUME TypeOK, Watched, step # "dangling", UNCHANGED <<at, watch, listed, wd, shared>>,
         \A w : (\E q \in listed : wd[q] = w) => KeepsPending(w)
  PROVE  Watched'
<1>1. Live' = Live
  BY DEF Live
<1>2. ASSUME NEW q \in listed, q \notin shared PROVE Awake(q)'
  <2>1. PICK w : wd[q] = w
    OBVIOUS
  <2>2. q \in Paths /\ Awake(q) /\ KeepsPending(w) /\ wd'[q] = w
    BY <1>2, <2>1 DEF TypeOK, Watched, WatchersAreAwake
  <2> QED BY <1>1, <2>1, <2>2, StaysAwake
<1> QED BY <1>1, <1>2 DEF Watched, WatchersAreAwake, NoStrayWatch

LEMMA NoneStaysWatched ==
  ASSUME listed' = {}, watch' = [w \in 1 .. MaxWds |-> Unwatched]
  PROVE  Watched'
BY DEF Watched, WatchersAreAwake, NoStrayWatch, Live, Unwatched

(* Files that change. *)
LEMMA FilesKeepWatched ==
  ASSUME Sound, Watched, FileStep
  PROVE  Watched'
<1>t. TypeOK /\ OneWatch
  BY DEF Sound
<1>u. step # "dangling" /\ UNCHANGED <<listed, wd, shared, batch, event>>
  BY DEF FileStep, FilesChange, Modify, Unlink, MoveAway, MoveHere, Create, watchers, task
<1>k. \A w : (\A kinds : Waiting(queue, w, kinds) => Waiting(queue', w, kinds)) => KeepsPending(w)
  BY <1>u DEF KeepsPending, Pending
<1>a. \A q \in listed \ shared : q \in Paths /\ Place[q] \in Places /\ Awake(q)
  BY <1>t, <1>u, PlaceAssumption DEF TypeOK, Watched, WatchersAreAwake
<1>1. ASSUME NEW f \in Files, Modify(f) PROVE Watched'
  <2>1. queue' = Notify(f, "modify") /\ UNCHANGED <<at, watch>>
    BY <1>1 DEF Modify
  <2>2. \A w : (\E q \in listed : wd[q] = w) => KeepsPending(w)
    BY <1>t, <1>k, <2>1, NotifyType
  <2> QED BY <1>t, <1>u, <2>1, <2>2, AllStayWatched
<1>2. ASSUME NEW p \in Places, NEW f, NEW ws \in SUBSET WatchesOf(at[p]),
             f = NoFile \/ at[p] = NoFile,
             at[p] # NoFile => \A w \in 1 .. MaxWds :
               watch[w].file = at[p] =>
                 \/ w \in ws /\ Waiting(queue', w, {"gone", "ignored"})
                 \/ w \notin ws /\ ("gone" \in watch[w].mask => Waiting(queue', w, {"gone"})),
             at' = [at EXCEPT ![p] = f],
             watch' = [w \in 1 .. MaxWds |-> IF w \in ws THEN Unwatched ELSE watch[w]],
             ws # {} => at[p] # NoFile,
             \A w, kinds : Waiting(queue, w, kinds) => Waiting(queue', w, kinds)
      PROVE  Watched'
  <2>1. ASSUME NEW q \in listed \ shared PROVE Awake(q)'
    <3>w. PICK w : wd[q] = w
      OBVIOUS
    <3>1. q \in Paths /\ Place[q] \in Places /\ Awake(q) /\ wd[q] = w /\ wd'[q] = w
      BY <1>a, <1>u, <2>1, <3>w
    <3>p. /\ Pending(w, {"gone", "ignored"}) => Pending(w, {"gone", "ignored"})'
          /\ Pending(w, {"gone"}) => Pending(w, {"gone"})'
      BY <1>k, <1>2, BothPending
    <3>2. CASE w \notin Live
      <4>1. w \notin Live'
        BY <1>2, <3>2 DEF Live, Unwatched
      <4> QED BY <3>1, <3>p, <3>2, <4>1 DEF Awake, Watching, Pending
    <3>3. CASE w \in Live /\ w \in ws
      <4>1. w \notin Live' /\ w \in 1 .. MaxWds /\ watch[w].file = at[p] /\ at[p] # NoFile
        BY <1>2, <3>3 DEF Live, Unwatched, WatchesOf, WatchesIn
      <4>2. Waiting(queue', w, {"gone", "ignored"})
        BY <1>2, <3>3, <4>1
      <4> QED BY <3>1, <4>1, <4>2 DEF Awake, Watching, Pending
    <3>4. CASE w \in Live /\ w \notin ws
      <4>1. w \in Live' /\ w \in 1 .. MaxWds /\ watch'[w] = watch[w] /\ watch[w].file # NoFile
        BY <1>2, <3>4 DEF Live
      <4>2. ASSUME watch[w].file # at'[Place[q]], "gone" \in watch[w].mask
            PROVE  Waiting(queue', w, {"gone"}) \/ Pending(w, {"gone"})
        <5>1. CASE watch[w].file # at[Place[q]]
          BY <3>1, <3>4, <4>2, <5>1 DEF Awake, Watching
        <5>2. CASE watch[w].file = at[Place[q]]
          <6>1. Place[q] = p /\ at[p] # NoFile /\ watch[w].file = at[p]
            BY <1>t, <1>2, <3>1, <4>1, <4>2, <5>2 DEF TypeOK
          <6> QED BY <1>2, <3>4, <4>1, <4>2, <6>1
        <5> QED BY <5>1, <5>2
      <4>3. watch[w].file # at'[Place[q]] /\ "gone" \in watch[w].mask => Pending(w, {"gone"})'
        BY <3>p, <4>2 DEF Pending
      <4> QED BY <3>1, <4>1, <4>3 DEF Awake, Watching, Pending
    <3> QED BY <3>2, <3>3, <3>4
  <2>2. Live' \subseteq Live
    BY <1>2 DEF Live, Unwatched
  <2> QED BY <1>u, <2>1, <2>2 DEF Watched, WatchersAreAwake, NoStrayWatch
<1>3. \A p \in Places : at[p] # NoFile => at[p] \in Files
  BY <1>t DEF TypeOK
<1>w. watch = [w \in 1 .. MaxWds |-> IF w \in {} THEN Unwatched ELSE watch[w]]
  BY <1>t DEF TypeOK
<1>4. ASSUME NEW p \in Places, NEW f \in Files, Create(p, f) PROVE Watched'
  <2>1. at[p] = NoFile /\ at' = [at EXCEPT ![p] = f] /\ watch' = watch /\ queue' = queue
    BY <1>4 DEF Create, inotify
  <2> DEFINE ws == {}
  <2>2. ws \in SUBSET WatchesOf(at[p]) /\ watch' = [w \in 1 .. MaxWds |-> IF w \in ws THEN Unwatched ELSE watch[w]]
    BY <1>w, <2>1
  <2> QED BY <1>2, <2>1, <2>2
<1>5. ASSUME NEW p \in Places, Unlink(p) PROVE Watched'
  <2> DEFINE ws == WatchesOf(at[p])
             e == [wd |-> CHOOSE w \in ws : TRUE, kind |-> "ignored"]
             more == IF ws = {} THEN <<>> ELSE <<e>>
             told == Notify(at[p], "gone")
  <2>1. /\ at[p] # NoFile /\ at' = [at EXCEPT ![p] = NoFile]
        /\ watch' = [w \in 1 .. MaxWds |-> IF w \in ws THEN Unwatched ELSE watch[w]]
        /\ queue' = told \o more
    BY <1>5 DEF Unlink
  <2>2. /\ told \in Seq(Events)
        /\ \A w, kinds : Waiting(queue, w, kinds) => Waiting(told, w, kinds)
    BY <1>t, NotifyType
  <2>3. more \in Seq(Events) /\ (ws # {} => Waiting(more, CHOOSE w \in ws : TRUE, {"gone", "ignored"}))
    <3>1. CASE ws = {}
      BY <3>1, NoneWaiting
    <3>2. CASE ws # {}
      <4>1. e \in Events
        BY <3>2 DEF Events, Kinds, WatchesOf, WatchesIn
      <4>2. <<e>> \in Seq(Events) /\ Waiting(<<e>>, e.wd, {"gone", "ignored"})
        BY <4>1, OneWaiting
      <4> QED BY <3>2, <4>2
    <3> QED BY <3>1, <3>2
  <2> HIDE DEF more, told
  <2>4. \A w, kinds : Waiting(queue', w, kinds) <=> Waiting(told, w, kinds) \/ Waiting(more, w, kinds)
    BY <2>1, <2>2, <2>3, WaitingInBoth
  <2>5. ASSUME NEW w \in 1 .. MaxWds, watch[w].file = at[p]
        PROVE  w \in ws /\ Waiting(queue', w, {"gone", "ignored"})
    <3>1. w \in ws /\ \A x \in ws : x = w
      BY <1>t, <2>1, <2>5 DEF OneWatch, WatchesOf, WatchesIn
    <3>2. w = CHOOSE x \in ws : TRUE
      BY <3>1
    <3> QED BY <2>3, <2>4, <3>1, <3>2
  <2> HIDE DEF ws
  <2>6. ws \in SUBSET WatchesOf(at[p])
    BY DEF ws
  <2> QED BY <1>2, <2>1, <2>2, <2>4, <2>5, <2>6
<1>6. ASSUME NEW p \in Places, MoveAway(p) PROVE Watched'
  <2>1. /\ at[p] # NoFile /\ at' = [at EXCEPT ![p] = NoFile] /\ watch' = watch
        /\ queue' = Notify(at[p], "gone")
    BY <1>6 DEF MoveAway
  <2>2. /\ \A w, kinds : Waiting(queue, w, kinds) => Waiting(queue', w, kinds)
        /\ \A w \in 1 .. MaxWds :
             watch[w].file = at[p] /\ "gone" \in watch[w].mask => Waiting(queue', w, {"gone"})
    BY <1>t, <1>3, <2>1, NotifyType
  <2> DEFINE ws == {}
  <2>3. ws \in SUBSET WatchesOf(at[p]) /\ watch' = [w \in 1 .. MaxWds |-> IF w \in ws THEN Unwatched ELSE watch[w]]
    BY <1>w, <2>1
  <2> QED BY <1>2, <2>1, <2>2, <2>3
<1>7. ASSUME NEW p \in Places, NEW f \in Files, MoveHere(p, f) PROVE Watched'
  <2>1. /\ at[p] = NoFile /\ at' = [at EXCEPT ![p] = f] /\ watch' = watch
        /\ queue' = Notify(f, "gone")
    BY <1>7 DEF MoveHere
  <2>2. \A w, kinds : Waiting(queue, w, kinds) => Waiting(queue', w, kinds)
    BY <1>t, <2>1, NotifyType
  <2> DEFINE ws == {}
  <2>3. ws \in SUBSET WatchesOf(at[p]) /\ watch' = [w \in 1 .. MaxWds |-> IF w \in ws THEN Unwatched ELSE watch[w]]
    BY <1>w, <2>1
  <2> QED BY <1>2, <2>1, <2>2, <2>3
<1> QED BY <1>1, <1>4, <1>5, <1>6, <1>7 DEF FileStep

LEMMA UsersKeepWatched ==
  ASSUME Sound, Watched, UserStep
  PROVE  Watched'
<1>t. TypeOK /\ OwnersAreShared
  BY DEF Sound
<1>u. step # "dangling" /\ UNCHANGED <<at, batch>>
  BY DEF UserStep, Calling, FsInit, FsInitAgain, FsCleanup, AddWatcher, DelWatcher, task
<1>1. CASE FsInit
  <2>1. UNCHANGED <<at, watch, queue, batch, event, listed, wd, shared>>
    BY <1>1 DEF FsInit, inotify, watchers, task
  <2>2. \A w : (\E q \in listed : wd[q] = w) => KeepsPending(w)
    BY <2>1 DEF KeepsPending, Pending
  <2> QED BY <1>t, <1>u, <2>1, <2>2, AllStayWatched
<1>2. ASSUME FsInitAgain \/ FsCleanup PROVE Watched'
  <2>1. listed' = {} /\ watch' = [w \in 1 .. MaxWds |-> Unwatched]
    BY <1>t, <1>2 DEF FsInitAgain, FsCleanup, Forget, TypeOK
  <2> QED BY <2>1, NoneStaysWatched
<1>3. ASSUME NEW p \in Paths, DelWatcher(p) PROVE Watched'
  <2>g. PICK g : wd[p] = g
    OBVIOUS
  <2>1. /\ p \in listed /\ g \in 0 .. MaxWds /\ watch' = Without(g)
        /\ queue' = queue \o RmEvents(g) /\ event' = event
        /\ listed' = listed \ {p} /\ shared' = shared \ {p}
        /\ wd' = [q \in Paths |-> IF q \in {p} THEN 0 ELSE wd[q]]
    BY <1>t, <1>3, <2>g DEF DelWatcher, Forget, TypeOK
  <2>2. \A q \in listed \ {p} : wd'[q] = wd[q]
    BY <1>t, <2>1 DEF TypeOK
  <2>3. \A v \in 1 .. MaxWds : watch'[v] = IF v = g THEN Unwatched ELSE watch[v]
    BY <1>t, <2>1, WithoutKeeps
  <2>4. \A v : v # g => KeepsPending(v)
    BY <1>t, <1>u, <2>1, RmEventsType, MoreIsPending
  <2> QED BY <1>t, <1>u, <2>g, <2>1, <2>2, <2>3, <2>4, OthersStayWatched
<1>4. ASSUME NEW p \in Paths, NEW m \in Asked, AddWatcher(p, m) PROVE Watched'
  <2>1. /\ p \notin listed /\ AddWatch(watch, p, m \union {"gone"})
        /\ listed' = listed \union {p} /\ queue' = queue /\ event' = event
    BY <1>4 DEF AddWatcher, task
  <2>2. m \union {"gone"} \in SUBSET Kinds
    BY AskedAssumption DEF Kinds
  <2> DEFINE g == -1
  <2>k. PICK k \in [1 .. MaxWds -> [file : Files \union {NoFile}, mask : SUBSET Kinds]] : k = watch
    BY <1>t DEF TypeOK
  <2>3. /\ AddWatch(k, p, m \union {"gone"})
        /\ \A v \in 1 .. MaxWds : k[v] = IF v = g THEN Unwatched ELSE watch[v]
        /\ \A q \in listed \ {p} : q \notin shared => wd[q] # g
    BY <1>t, <2>1, <2>k DEF TypeOK
  <2>4. \A v : v # g => KeepsPending(v)
    BY <1>u, <2>1 DEF KeepsPending, Pending
  <2> HIDE DEF g
  <2> QED BY <1>t, <1>u, <2>1, <2>2, <2>3, <2>4, AddedStayWatched
<1> QED BY <1>1, <1>2, <1>3, <1>4 DEF UserStep

LEMMA TasksKeepWatched ==
  ASSUME Sound, Watched, TaskStep
  PROVE  Watched'
<1>t. TypeOK /\ WatcherIsListed /\ OwnersAreShared
  BY DEF Sound
<1>u. step # "dangling"
  BY DEF TaskStep, HandleEvent, Called, Read, TaskReturns, Dispatch, Pass, UseFreed, Restore, RestoreFails
<1>1. ASSUME Read \/ TaskReturns \/ Dispatch \/ Pass PROVE Watched'
  <2>1. UNCHANGED <<at, watch, listed, wd, shared>>
    BY <1>1 DEF Read, TaskReturns, Dispatch, Pass, inotify, watchers
  <2>2. CASE Read
    <3>1. batch = <<>> /\ batch' = queue /\ queue' = <<>> /\ event' = event
      BY <2>2 DEF Read
    <3>2. \A w : (\E q \in listed : wd[q] = w) => KeepsPending(w)
      BY <3>1, NoneWaiting DEF KeepsPending, Pending
    <3> QED BY <1>t, <1>u, <2>1, <3>2, AllStayWatched
  <2>3. CASE TaskReturns
    <3>1. \A w : (\E q \in listed : wd[q] = w) => KeepsPending(w)
      BY <2>3 DEF TaskReturns, inotify, KeepsPending, Pending
    <3> QED BY <1>t, <1>u, <2>1, <3>1, AllStayWatched
  <2>4. CASE Dispatch
    <3> DEFINE e == Head(batch)
    <3>1. /\ step = "loop" /\ batch # <<>> /\ batch' = Tail(batch) /\ queue' = queue
          /\ event' = e \/ (event' = event /\ {p \in listed : wd[p] = e.wd} = {})
      BY <2>4 DEF Dispatch, inotify
    <3>2. event = NoEvent
      BY <1>t, <3>1 DEF WatcherIsListed
    <3>3. \A w, kinds : Waiting(batch, w, kinds) <=> (e.wd = w /\ e.kind \in kinds) \/ Waiting(Tail(batch), w, kinds)
      BY <1>t, <3>1, WaitingFirst DEF TypeOK
    <3> HIDE DEF e
    <3>4. \A w : (\E q \in listed : wd[q] = w) => KeepsPending(w)
      BY <3>1, <3>2, <3>3 DEF KeepsPending, Pending, NoEvent
    <3> QED BY <1>t, <1>u, <2>1, <3>4, AllStayWatched
  <2>5. CASE Pass
    <3>1. queue' = queue /\ batch' = batch /\ event.kind \notin {"gone", "ignored"}
      BY <2>5 DEF Pass, PathChanged, EventDone, inotify
    <3>2. \A w : (\E q \in listed : wd[q] = w) => KeepsPending(w)
      BY <3>1 DEF KeepsPending, Pending
    <3> QED BY <1>t, <1>u, <2>1, <3>2, AllStayWatched
  <2> QED BY <1>1, <2>2, <2>3, <2>4, <2>5
<1>2. ASSUME UseFreed PROVE Watched'
  BY <1>2 DEF UseFreed, Watched, WatchersAreAwake, NoStrayWatch
<1>3. PICK g \in 0 .. MaxWds : g = event.wd
  BY <1>t, EventType
<1>4. ASSUME NEW more \in Seq(Events), queue' = queue \o more, EventDone, NEW v, v # g
      PROVE  KeepsPending(v)
  <2>1. batch' = batch
    BY <1>4 DEF EventDone
  <2> QED BY <1>t, <1>3, <1>4, <2>1, MoreIsPending
<1>5. ASSUME Called, watcher # NoPath
      PROVE  \E p \in Paths : /\ p = watcher /\ p \in listed /\ wd[p] = g
                              /\ \A q \in listed \ {p} : q \notin shared => wd[q] # g
  <2>1. watcher \in Paths /\ watcher \in listed /\ wd[watcher] = g
    BY <1>t, <1>3, <1>5 DEF Called, TypeOK, WatcherIsListed
  <2>2. \A q \in listed \ {watcher} : q \notin shared => wd[q] # g
    BY <1>t, <2>1 DEF OwnersAreShared
  <2> QED BY <2>1, <2>2
<1>6. /\ RmEvents(g) \in Seq(Events)
      /\ Without(g) \in [1 .. MaxWds -> [file : Files \union {NoFile}, mask : SUBSET Kinds]]
      /\ \A v \in 1 .. MaxWds : Without(g)[v] = IF v = g THEN Unwatched ELSE watch[v]
  BY <1>t, RmEventsType, WithoutKeeps
<1>7. ASSUME Restore PROVE Watched'
  <2>1. PICK p \in Paths : /\ p = watcher /\ p \in listed /\ wd[p] = g
                           /\ \A q \in listed \ {p} : q \notin shared => wd[q] # g
    BY <1>5, <1>7 DEF Restore
  <2>2. PICK m \in SUBSET Kinds,
             k \in [1 .. MaxWds -> [file : Files \union {NoFile}, mask : SUBSET Kinds]] :
          m = mask[p] /\ k = Without(g)
    BY <1>t, <1>6 DEF TypeOK
  <2>3. /\ AddWatch(k, p, m) /\ EventDone /\ queue' = queue \o RmEvents(g)
        /\ at' = at /\ listed' = listed
    BY <1>3, <1>7, <2>1, <2>2 DEF Restore
  <2>4. \A v : v # g => KeepsPending(v)
    BY <1>4, <1>6, <2>3
  <2>5. \A v \in 1 .. MaxWds : k[v] = IF v = g THEN Unwatched ELSE watch[v]
    BY <1>6, <2>2
  <2>6. listed' = listed \union {p}
    BY <2>1, <2>3
  <2> QED BY <1>t, <1>u, <2>1, <2>3, <2>4, <2>5, <2>6, AddedStayWatched
<1>8. ASSUME RestoreFails PROVE Watched'
  <2>1. PICK p \in Paths : /\ p = watcher /\ p \in listed /\ wd[p] = g
                           /\ \A q \in listed \ {p} : q \notin shared => wd[q] # g
    BY <1>5, <1>8 DEF RestoreFails
  <2>2. /\ watch' = Without(g) /\ EventDone /\ queue' = queue \o RmEvents(g)
        /\ listed' = listed \ {p} /\ shared' = shared \ {p}
        /\ wd' = [wd EXCEPT ![p] = 0] /\ at' = at
    BY <1>3, <1>8, <2>1 DEF RestoreFails
  <2>3. \A q \in listed \ {p} : wd'[q] = wd[q]
    BY <1>t, <2>1, <2>2 DEF TypeOK
  <2>4. \A v : v # g => KeepsPending(v)
    BY <1>4, <1>6, <2>2
  <2>5. \A v \in 1 .. MaxWds : watch'[v] = IF v = g THEN Unwatched ELSE watch[v]
    BY <1>6, <2>2
  <2> QED BY <1>t, <1>u, <2>1, <2>2, <2>3, <2>4, <2>5, OthersStayWatched
<1> QED BY <1>1, <1>2, <1>7, <1>8 DEF TaskStep, HandleEvent

LEMMA WatchedKept == Sound /\ Watched /\ [Next]_vars => Watched'
<1>1. ASSUME Watched, UNCHANGED vars PROVE Watched'
  BY <1>1 DEF vars, inotify, watchers, task, Watched, WatchersAreAwake, NoStrayWatch, Awake,
              Watching, Pending, Live
<1> QED BY <1>1, FilesKeepWatched, UsersKeepWatched, TasksKeepWatched DEF Next

-----------------------------------------------------------------------------
(* The variables have their types, and what else FsInvariant says, for any   *)
(* number of watchers, places and files.                                     *)
THEOREM MonitorIsSound == Spec => []FsInvariant
<1>1. Init => FsInvariant
  <2>1. Init => Watched
    BY DEF Init, Watched, WatchersAreAwake, NoStrayWatch, Live, Unwatched
  <2> QED BY <2>1, SoundStart DEF FsInvariant
<1>2. FsInvariant /\ [Next]_vars => FsInvariant'
  BY SoundKept, WatchedKept DEF FsInvariant
<1> QED BY <1>1, <1>2, PTL DEF Spec

(* A watcher that shares its descriptor with none hears of its file, or an  *)
(* event that will have it restored or removed is under way.                *)
THEOREM NoWatcherSleeps == Spec => []WatchersAreAwake
<1>1. FsInvariant => WatchersAreAwake
  BY DEF FsInvariant, Watched
<1> QED BY <1>1, MonitorIsSound, PTL

(* Each descriptor inotify has belongs to a watcher on the list. *)
THEOREM NoWatchStrays == Spec => []NoStrayWatch
<1>1. FsInvariant => NoStrayWatch
  BY DEF FsInvariant, Watched
<1> QED BY <1>1, MonitorIsSound, PTL

-----------------------------------------------------------------------------
(* The conversions.  Numbers and rows first, as in LibraryProofs. *)
Less == {p \in Nat \X Nat : p[1] < p[2]}

LEMMA Least ==
  ASSUME NEW T, T \subseteq Nat, T # {}
  PROVE  \E x \in T : \A y \in T : x <= y
<1>1. IsWellFoundedOn(Less, Nat)
  BY NatLessThanWellFounded DEF OpToRel, Less
<1>2. PICK x \in T : \A y \in T : ~ (<<y, x>> \in Less)
  BY <1>1, WFMin
<1>3. \A y \in T : x \in Nat /\ y \in Nat /\ ~ (y < x)
  BY <1>2 DEF Less
<1>4. QED
  BY <1>3

(* A function defined step by step exists. *)
Steps(g, n, a, G) ==
  g = [i \in 0 .. n |-> IF i = 0 THEN a ELSE G[i][g[i - 1]]]

LEMMA StepsExist ==
  ASSUME NEW X, NEW a \in X, NEW n \in Nat, NEW G \in [1 .. n -> [X -> X]]
  PROVE  \E g \in [0 .. n -> X] : Steps(g, n, a, G)
<1>1. PICK T : T = {m \in 0 .. n : ~ \E g \in [0 .. m -> X] : Steps(g, m, a, G)}
  OBVIOUS
<1>2. CASE T = {}
  BY <1>1, <1>2
<1>3. CASE T # {}
  <2>1. T \subseteq Nat
    BY <1>1
  <2>2. PICK m \in T : \A l \in T : m <= l
    BY <1>3, <2>1, Least
  <2>3. m \in 0 .. n
    BY <1>1
  <2>4. m # 0
    <3> SUFFICES ASSUME m = 0 PROVE FALSE
      OBVIOUS
    <3>1. PICK g : g = [i \in 0 .. 0 |-> a]
      OBVIOUS
    <3>2. g \in [0 .. 0 -> X] /\ Steps(g, 0, a, G)
      BY <3>1 DEF Steps
    <3>3. QED
      BY <1>1, <3>2
  <2>5. m - 1 \in 0 .. n /\ ~(m <= m - 1)
    BY <2>3, <2>4
  <2>6. PICK h \in [0 .. m - 1 -> X] : Steps(h, m - 1, a, G)
    BY <1>1, <2>2, <2>5
  <2>7. h[0] = a /\ \A i \in 1 .. m - 1 : h[i] = G[i][h[i - 1]]
    BY <2>3, <2>4, <2>6 DEF Steps
  <2>8. PICK y \in X : y = G[m][h[m - 1]]
    BY <2>3, <2>4, <2>6
  <2>9. PICK g : g = [i \in 0 .. m |-> IF i = m THEN y ELSE h[i]]
    OBVIOUS
  <2>10. g \in [0 .. m -> X]
    BY <2>3, <2>4, <2>6, <2>9
  <2>11. g[m] = y /\ \A i \in 0 .. m - 1 : g[i] = h[i]
    BY <2>3, <2>4, <2>9
  <2>12. ASSUME NEW i \in 0 .. m PROVE g[i] = IF i = 0 THEN a ELSE G[i][g[i - 1]]
    <3>1. CASE i = 0
      BY <2>3, <2>4, <2>7, <2>11, <3>1
    <3>2. CASE i = m
      <4>1. m - 1 \in 0 .. m - 1
        BY <2>3, <2>4
      <4>2. QED
        BY <2>4, <2>8, <2>11, <3>2, <4>1
    <3>3. CASE i # 0 /\ i # m
      <4>1. i \in 1 .. m - 1 /\ i \in 0 .. m - 1 /\ i - 1 \in 0 .. m - 1
        BY <2>3, <3>3
      <4>2. QED
        BY <2>7, <2>11, <3>3, <4>1
    <3>4. QED
      BY <3>1, <3>2, <3>3
  <2>13. Steps(g, m, a, G)
    BY <2>10, <2>12 DEF Steps
  <2>14. QED
    BY <1>1, <2>2, <2>10, <2>13
<1>4. QED
  BY <1>2, <1>3

(* A function on 1 .. n is a sequence. *)
LEMMA RowIs ==
  ASSUME NEW n \in Nat, NEW S, NEW f \in [1 .. n -> S]
  PROVE  f \in Seq(S) /\ Len(f) = n
OBVIOUS

(* Bytes and their bits. *)
Byte == 0 .. 255

(* Sequences in a row.  off says where each ends. *)
Ends(s, off, n) == off[0] = 0 /\ \A j \in 1 .. n : off[j] = off[j - 1] + Len(s[j])

FlatFrom(f, s) ==
  f = [i \in 1 .. Len(s) |-> IF i = 1 THEN s[i] ELSE f[i - 1] \o s[i]]

Holding(r, s, off, i) ==
  /\ Len(r) = off[i]
  /\ \A j \in 1 .. i, k \in Nat \ {0} :
       k <= Len(s[j]) => off[j - 1] + k \in 1 .. off[i] /\ r[off[j - 1] + k] = s[j][k]

LEMMA RowGrows ==
  ASSUME NEW S, NEW n \in Nat, NEW s \in [1 .. n -> Seq(S)], NEW off \in [0 .. n -> Nat],
         Ends(s, off, n), NEW i \in 1 .. n, NEW r \in Seq(S), Holding(r, s, off, i - 1)
  PROVE  r \o s[i] \in Seq(S) /\ Holding(r \o s[i], s, off, i)
<1>1. PICK b \in Seq(S) : b = s[i]
  OBVIOUS
<1>2. PICK l \in Nat, m \in Nat, e \in Nat : l = Len(r) /\ m = Len(b) /\ e = off[i]
  OBVIOUS
<1>3. PICK t : t = r \o b
  OBVIOUS
<1>4. /\ t \in Seq(S) /\ Len(t) = l + m
      /\ \A j \in 1 .. l + m : t[j] = IF j <= l THEN r[j] ELSE b[j - l]
  BY <1>2, <1>3, ConcatProperties
<1>5. l = off[i - 1]
  BY <1>2 DEF Holding
<1>6. e = l + m
  BY <1>1, <1>2, <1>5 DEF Ends
<1>7. ASSUME NEW j \in 1 .. i, NEW k \in Nat \ {0}, k <= Len(s[j])
      PROVE  off[j - 1] + k \in 1 .. e /\ t[off[j - 1] + k] = s[j][k]
  <2>1. CASE j = i
    <3>1. l + k \in 1 .. l + m /\ ~(l + k <= l) /\ (l + k) - l = k
      BY <1>1, <1>2, <1>7, <2>1
    <3>2. t[l + k] = b[k]
      BY <1>4, <3>1
    <3>3. QED
      BY <1>1, <1>5, <1>6, <2>1, <3>1, <3>2
  <2>2. CASE j # i
    <3>1. j \in 1 .. i - 1
      BY <2>2
    <3>2. PICK o \in Nat : o = off[j - 1]
      BY <3>1
    <3>3. o + k \in 1 .. off[i - 1] /\ r[o + k] = s[j][k]
      BY <1>7, <3>1, <3>2 DEF Holding
    <3>4. o + k \in 1 .. l
      BY <1>5, <3>3
    <3>5. o + k \in 1 .. l + m /\ o + k <= l
      BY <3>4
    <3>6. t[o + k] = r[o + k]
      BY <1>4, <3>5
    <3>7. QED
      BY <1>6, <3>2, <3>3, <3>5, <3>6
  <2>3. QED
    BY <2>1, <2>2
<1>8. Holding(t, s, off, i)
  BY <1>2, <1>4, <1>6, <1>7 DEF Holding
<1>9. QED
  BY <1>1, <1>3, <1>4, <1>8

LEMMA FlattenIs ==
  ASSUME NEW S, NEW n \in Nat, NEW s \in [1 .. n -> Seq(S)], NEW off \in [0 .. n -> Nat],
         Ends(s, off, n)
  PROVE  FlattenSeq(s) \in Seq(S) /\ Holding(FlattenSeq(s), s, off, n)
<1>1. Len(s) = n /\ n \in Nat
  BY RowIs
<1>2. CASE n = 0
  <2>1. FlattenSeq(s) = s
    BY <1>1, <1>2 DEF FlattenSeq
  <2>2. s \in [1 .. 0 -> S] /\ 0 \in Nat
    BY <1>2
  <2>3. s \in Seq(S)
    BY <2>2, RowIs
  <2>4. off[n] = 0
    BY <1>2 DEF Ends
  <2>5. QED
    BY <1>1, <1>2, <2>1, <2>3, <2>4 DEF Holding
<1>3. CASE n # 0
  <2>1. PICK G : G = [i \in 1 .. n |-> [x \in Seq(S) |-> x \o s[i]]]
    OBVIOUS
  <2>2. <<>> \in Seq(S) /\ G \in [1 .. n -> [Seq(S) -> Seq(S)]]
    BY <2>1, ConcatProperties
  <2>3. PICK h \in [0 .. n -> Seq(S)] : Steps(h, n, <<>>, G)
    BY <2>2, StepsExist
  <2>4. h[0] = <<>>
    BY <2>3 DEF Steps
  <2>5. ASSUME NEW i \in 1 .. n PROVE h[i] = h[i - 1] \o s[i] /\ h[i - 1] \in Seq(S)
    <3>1. i \in 0 .. n /\ i - 1 \in 0 .. n /\ i # 0
      OBVIOUS
    <3>2. h[i] = G[i][h[i - 1]]
      BY <2>3, <3>1 DEF Steps
    <3>3. PICK r \in Seq(S) : r = h[i - 1]
      BY <2>3, <3>1
    <3>4. G[i][r] = r \o s[i]
      BY <2>1
    <3>5. QED
      BY <3>2, <3>3, <3>4
  <2>6. \A i \in 0 .. n : Holding(h[i], s, off, i)
    <3>1. PICK T : T = {i \in 0 .. n : ~Holding(h[i], s, off, i)}
      OBVIOUS
    <3>2. CASE T # {}
      <4>1. T \subseteq Nat
        BY <3>1
      <4>2. PICK i \in T : \A j \in T : i <= j
        BY <3>2, <4>1, Least
      <4>3. i \in 0 .. n /\ ~Holding(h[i], s, off, i)
        BY <3>1
      <4>4. i # 0
        <5>1. Holding(h[0], s, off, 0)
          BY <2>4 DEF Holding, Ends
        <5>2. QED
          BY <4>3, <5>1
      <4>5. i \in 1 .. n /\ i - 1 \in 0 .. n /\ i - 1 \notin T
        BY <4>2, <4>3, <4>4
      <4>6. Holding(h[i - 1], s, off, i - 1)
        BY <3>1, <4>5
      <4>7. h[i] = h[i - 1] \o s[i] /\ h[i - 1] \in Seq(S)
        BY <2>5, <4>5
      <4>8. Holding(h[i], s, off, i)
        <5>1. PICK r \in Seq(S) : r = h[i - 1]
          BY <4>7
        <5>2. Holding(r \o s[i], s, off, i)
          BY <4>5, <4>6, <5>1, RowGrows
        <5>3. QED
          BY <4>7, <5>1, <5>2
      <4>9. QED
        BY <4>3, <4>8
    <3>3. QED
      BY <3>1, <3>2
  <2>7. PICK f : f = [i \in 1 .. n |-> h[i]]
    OBVIOUS
  <2>8. FlatFrom(f, s)
    <3>1. ASSUME NEW i \in 1 .. n PROVE h[i] = IF i = 1 THEN s[i] ELSE f[i - 1] \o s[i]
      <4>1. CASE i = 1
        <5>1. h[i] = <<>> \o s[i] /\ s[i] \in Seq(S)
          <6>1. h[i] = h[i - 1] \o s[i]
            BY <2>5
          <6>2. i - 1 = 0
            BY <4>1
          <6>3. s[i] \in Seq(S)
            OBVIOUS
          <6>4. QED
            BY <2>4, <6>1, <6>2, <6>3
        <5>2. <<>> \o s[i] = s[i]
          BY <5>1
        <5>3. QED
          BY <4>1, <5>1, <5>2
      <4>2. CASE i # 1
        <5>1. i - 1 \in 1 .. n
          BY <4>2
        <5>2. QED
          BY <2>5, <2>7, <4>2, <5>1
      <4>3. QED
        BY <4>1, <4>2
    <3>2. QED
      BY <1>1, <2>7, <3>1 DEF FlatFrom
  <2>9. PICK g : g = CHOOSE x : FlatFrom(x, s)
    OBVIOUS
  <2>10. FlatFrom(g, s)
    BY <2>8, <2>9
  <2>11. FlattenSeq(s) = g[n]
    BY <1>1, <1>3, <2>9 DEF FlattenSeq, FlatFrom
  <2>12. \A i \in 1 .. n : g[i] = IF i = 1 THEN s[i] ELSE g[i - 1] \o s[i]
    BY <1>1, <2>10 DEF FlatFrom
  <2>13. \A i \in 1 .. n : f[i] = IF i = 1 THEN s[i] ELSE f[i - 1] \o s[i]
    BY <1>1, <2>8 DEF FlatFrom
  <2>14. PICK T : T = {i \in 1 .. n : g[i] # f[i]}
    OBVIOUS
  <2>15. CASE T # {}
    <3>1. T \subseteq Nat
      BY <2>14
    <3>2. PICK i \in T : \A j \in T : i <= j
      BY <2>15, <3>1, Least
    <3>3. i \in 1 .. n /\ g[i] # f[i]
      BY <2>14
    <3>4. i # 1
      BY <2>12, <2>13, <3>3
    <3>5. i - 1 \in 1 .. n /\ i - 1 \notin T
      BY <3>2, <3>3, <3>4
    <3>6. g[i - 1] = f[i - 1]
      BY <2>14, <3>5
    <3>7. QED
      BY <2>12, <2>13, <3>3, <3>4, <3>6
  <2>16. CASE T = {}
    <3>1. n \in 1 .. n
      BY <1>3
    <3>2. g[n] = h[n]
      BY <2>7, <2>14, <2>16, <3>1
    <3>3. QED
      BY <2>6, <2>11, <3>1, <3>2
  <2>17. QED
    BY <2>15, <2>16
<1>4. QED
  BY <1>2, <1>3

(* Padding, and what is joined behind it. *)
Letter == 1 .. 255

-----------------------------------------------------------------------------
(* Rows: joined, cut, and made of pieces of one length. *)
LEMMA RowsJoined ==
  ASSUME NEW S, NEW s \in Seq(S), NEW t \in Seq(S)
  PROVE  /\ s \o t \in Seq(S) /\ Len(s \o t) = Len(s) + Len(t)
         /\ \A i \in 1 .. Len(s) : (s \o t)[i] = s[i]
         /\ \A i \in 1 .. Len(t) : (s \o t)[Len(s) + i] = t[i]
<1>1. PICK l \in Nat, m \in Nat : l = Len(s) /\ m = Len(t)
  OBVIOUS
<1>2. PICK x : x = s \o t
  OBVIOUS
<1>3. /\ x \in Seq(S) /\ Len(x) = l + m
      /\ \A i \in 1 .. l + m : x[i] = IF i <= l THEN s[i] ELSE t[i - l]
  BY <1>1, <1>2, ConcatProperties
<1>4. \A i \in 1 .. l : x[i] = s[i]
  BY <1>3
<1>5. ASSUME NEW i \in 1 .. m PROVE x[l + i] = t[i]
  <2>1. l + i \in 1 .. l + m /\ ~(l + i <= l) /\ (l + i) - l = i
    OBVIOUS
  <2>2. QED
    BY <1>3, <2>1
<1>6. QED
  BY <1>1, <1>2, <1>3, <1>4, <1>5

LEMMA RowCut ==
  ASSUME NEW S, NEW s \in Seq(S), NEW p \in Nat \ {0}, NEW q \in Int, q <= Len(s)
  PROVE  /\ SubSeq(s, p, q) \in Seq(S)
         /\ Len(SubSeq(s, p, q)) = IF p <= q THEN q - p + 1 ELSE 0
         /\ \A i \in 1 .. q - p + 1 : SubSeq(s, p, q)[i] = s[p + i - 1]
<1>1. \A i \in p .. q : s[i] \in S
  OBVIOUS
<1>2. QED
  BY <1>1, SubSeqProperties

(* The first l of a row. *)
HeadRow(t, s, l) == Len(t) = l /\ \A i \in 1 .. l : t[i] = s[i]

LEMMA RowHead ==
  ASSUME NEW S, NEW s \in Seq(S), NEW l \in Nat, l <= Len(s), NEW q \in Int,
         l = IF q > 0 THEN q ELSE 0
  PROVE  SubSeq(s, 1, q) \in Seq(S) /\ HeadRow(SubSeq(s, 1, q), s, l)
<1>1. PICK t : t = SubSeq(s, 1, q)
  OBVIOUS
<1>2. 1 \in Nat \ {0} /\ q <= Len(s)
  OBVIOUS
<1>3. /\ t \in Seq(S) /\ Len(t) = IF 1 <= q THEN q - 1 + 1 ELSE 0
      /\ \A i \in 1 .. q - 1 + 1 : t[i] = s[1 + i - 1]
  <2>1. PICK p \in Nat \ {0} : p = 1
    BY <1>2
  <2>2. /\ SubSeq(s, p, q) \in Seq(S)
        /\ Len(SubSeq(s, p, q)) = IF p <= q THEN q - p + 1 ELSE 0
        /\ \A i \in 1 .. q - p + 1 : SubSeq(s, p, q)[i] = s[p + i - 1]
    BY <1>2, RowCut
  <2>3. QED
    BY <1>1, <2>1, <2>2
<1>4. Len(t) = l /\ \A i \in 1 .. l : i \in 1 .. q - 1 + 1 /\ 1 + i - 1 = i
  BY <1>3
<1>5. QED
  BY <1>1, <1>3, <1>4 DEF HeadRow

LEMMA WiderRow ==
  ASSUME NEW S, NEW T, S \subseteq T, NEW s \in Seq(S)
  PROVE  s \in Seq(T)
  OBVIOUS

Even(s, n, w) == \A i \in 1 .. n : Len(s[i]) = w
EvenRow(r, s, n, w) ==
  Len(r) = w * n /\ \A i \in 1 .. n, k \in 1 .. w : r[w * (i - 1) + k] = s[i][k]

LEMMA EvenRows ==
  ASSUME NEW S, NEW n \in Nat, NEW w \in {2, 3, 4}, NEW s \in [1 .. n -> Seq(S)], Even(s, n, w)
  PROVE  FlattenSeq(s) \in Seq(S) /\ EvenRow(FlattenSeq(s), s, n, w)
<1>1. PICK off : off = [i \in 0 .. n |-> w * i]
  OBVIOUS
<1>2. off \in [0 .. n -> Nat]
  BY <1>1
<1>3. ASSUME NEW j \in 1 .. n PROVE off[j] = off[j - 1] + Len(s[j])
  <2>1. off[j] = w * j /\ off[j - 1] = w * (j - 1)
    BY <1>1
  <2>2. w * j = w * (j - 1) + w
    OBVIOUS
  <2>3. Len(s[j]) = w
    BY DEF Even
  <2>4. QED
    BY <2>1, <2>2, <2>3
<1>4. off[0] = 0
  BY <1>1
<1>5. Ends(s, off, n)
  BY <1>3, <1>4 DEF Ends
<1>6. PICK r \in Seq(S) : r = FlattenSeq(s) /\ Holding(r, s, off, n)
  BY <1>2, <1>5, FlattenIs
<1>7. Len(r) = w * n
  BY <1>1, <1>6 DEF Holding
<1>8. ASSUME NEW i \in 1 .. n, NEW k \in 1 .. w PROVE r[w * (i - 1) + k] = s[i][k]
  <2>1. off[i - 1] = w * (i - 1)
    BY <1>1
  <2>2. k \in Nat \ {0} /\ k <= Len(s[i])
    BY DEF Even
  <2>3. r[off[i - 1] + k] = s[i][k]
    BY <1>6, <2>2 DEF Holding
  <2>4. QED
    BY <2>1, <2>3
<1>9. QED
  BY <1>6, <1>7, <1>8 DEF EvenRow

-----------------------------------------------------------------------------
(* base64.c.  What is coded, and where the first character that is none cuts it. *)
Symbols64 == 0 .. 63
Codes == 0 .. 64
CodesOf(data, i) == Sextets(At(data, 3 * i - 2), At(data, 3 * i - 1), At(data, 3 * i))
CodedLen(n) == 4 * (n \div 3) + IF n % 3 = 0 THEN 0 ELSE (n % 3) + 1

IsCoded(c, data) ==
  /\ c \in Seq(Symbols64) /\ Len(c) = CodedLen(Len(data))
  /\ \A i \in Nat \ {0}, k \in 1 .. 4 :
       4 * (i - 1) + k <= Len(c) => c[4 * (i - 1) + k] = CodesOf(data, i)[k]

LEMMA BytesAt ==
  ASSUME NEW data \in Seq(Byte), NEW i \in Int
  PROVE  At(data, i) \in Byte
<1>1. 0 \in Byte
  BY DEF Byte
<1>2. CASE i \in DOMAIN data
  BY <1>2 DEF At
<1>3. QED
  BY <1>1, <1>2 DEF At

(* The symbols of a group, and what they are read back as. *)
LEMMA CodesAre ==
  ASSUME NEW data \in Seq(Byte), NEW i \in Nat \ {0}
  PROVE  /\ CodesOf(data, i) \in Seq(Symbols64) /\ Len(CodesOf(data, i)) = 4
         /\ CodesOf(data, i)[1] * 4 + (CodesOf(data, i)[2] \div 16) = At(data, 3 * i - 2)
         /\ (CodesOf(data, i)[2] % 16) * 16 + (CodesOf(data, i)[3] \div 4) = At(data, 3 * i - 1)
         /\ (CodesOf(data, i)[3] % 4) * 64 + CodesOf(data, i)[4] = At(data, 3 * i)
<1>1. PICK a \in Byte, b \in Byte, c \in Byte :
        a = At(data, 3 * i - 2) /\ b = At(data, 3 * i - 1) /\ c = At(data, 3 * i)
  BY BytesAt
<1>2. PICK p, q, r, s : /\ p = a \div 4 /\ q = (a % 4) * 16 + (b \div 16)
                        /\ r = (b % 16) * 4 + (c \div 64) /\ s = c % 64
  OBVIOUS
<1>3. /\ p \in Symbols64 /\ q \in Symbols64 /\ r \in Symbols64 /\ s \in Symbols64
      /\ p * 4 + (q \div 16) = a /\ (q % 16) * 16 + (r \div 4) = b /\ (r % 4) * 64 + s = c
  BY <1>2, SMTT(30) DEF Byte, Symbols64
<1>4. CodesOf(data, i) = <<p, q, r, s>>
  BY <1>1, <1>2 DEF CodesOf, Sextets
<1>5. PICK g : g = <<p, q, r, s>>
  OBVIOUS
<1>6. g \in Seq(Symbols64) /\ Len(g) = 4 /\ g[1] = p /\ g[2] = q /\ g[3] = r /\ g[4] = s
  BY <1>3, <1>5
<1>7. QED
  BY <1>1, <1>3, <1>4, <1>5, <1>6

LEMMA CodedIs ==
  ASSUME NEW txt \in Seq(Codes), NEW n \in Nat, n <= Len(txt),
         \A i \in 1 .. n : txt[i] \in Symbols64,
         \A i \in n + 1 .. Len(txt) : txt[i] = 64
  PROVE  /\ Coded(txt) \in Seq(Symbols64) /\ Len(Coded(txt)) = n
         /\ \A i \in 1 .. n : Coded(txt)[i] = txt[i]
<1>1. PICK l \in Nat : l = Len(txt) /\ DOMAIN txt = 1 .. l
  OBVIOUS
<1>2. PICK others : others = {i \in DOMAIN txt : txt[i] > 63}
  OBVIOUS
<1>3. others = n + 1 .. l
  <2>1. ASSUME NEW i \in 1 .. n PROVE ~(txt[i] > 63)
    <3>1. \A c \in Symbols64 : ~(c > 63)
      BY DEF Symbols64
    <3>2. txt[i] \in Symbols64
      OBVIOUS
    <3>3. QED
      BY <3>1, <3>2
  <2>2. \A i \in n + 1 .. l : txt[i] > 63
    BY <1>1
  <2>3. QED
    BY <1>1, <1>2, <2>1, <2>2
<1>4. PICK c : c = SubSeq(txt, 1, n)
  OBVIOUS
<1>5. c \in Seq(Symbols64) /\ Len(c) = n /\ \A i \in 1 .. n : c[i] = txt[i]
  <2>1. 1 \in Int /\ n \in Int /\ (IF 1 <= n THEN n - 1 + 1 ELSE 0) = n /\ n - 1 + 1 = n
    OBVIOUS
  <2>2. /\ c \in Seq(Symbols64) /\ Len(c) = IF 1 <= n THEN n - 1 + 1 ELSE 0
        /\ \A i \in 1 .. n - 1 + 1 : c[i] = txt[1 + i - 1]
    BY <1>4, <2>1, SubSeqProperties
  <2>3. \A i \in 1 .. n : 1 + i - 1 = i
    OBVIOUS
  <2>4. QED
    BY <2>1, <2>2, <2>3
<1>6. Coded(txt) = c
  <2>1. CASE n = l
    <3>1. others = {}
      BY <1>3, <2>1
    <3>2. Coded(txt) = txt
      BY <1>2, <3>1 DEF Coded
    <3>3. Len(txt) = Len(c) /\ \A i \in 1 .. Len(txt) : txt[i] = c[i]
      BY <1>1, <1>5, <2>1
    <3>4. c \in Seq(Codes)
      BY <1>5 DEF Symbols64, Codes
    <3>5. txt = c
      BY <3>3, <3>4, SeqEqual
    <3>6. QED
      BY <3>2, <3>5
  <2>2. CASE n # l
    <3>1. n + 1 \in others /\ \A i \in others : n + 1 <= i
      BY <1>1, <1>3, <2>2
    <3>2. PICK m : m = Min(others)
      OBVIOUS
    <3>3. m \in others /\ \A i \in others : m <= i
      BY <3>1, <3>2 DEF Min
    <3>4. m = n + 1
      BY <1>3, <3>1, <3>3
    <3>5. m - 1 = n
      BY <3>4
    <3>6. Coded(txt) = SubSeq(txt, 1, m - 1)
      BY <1>2, <3>1, <3>2 DEF Coded
    <3>7. QED
      BY <1>4, <3>5, <3>6
  <2>3. QED
    BY <2>1, <2>2
<1>7. QED
  BY <1>5, <1>6

(* The groups of four symbols, and the last one, padded. *)
HeadOf(data) == FlattenSeq([i \in 1 .. Len(data) \div 3 |-> CodesOf(data, i)])
TailOf(data) ==
  LET n == Len(data)
  IN CASE n % 3 = 0 -> <<>>
       [] n % 3 = 1 -> SubSeq(CodesOf(data, (n \div 3) + 1), 1, 2) \o <<64, 64>>
       [] n % 3 = 2 -> SubSeq(CodesOf(data, (n \div 3) + 1), 1, 3) \o <<64>>

LEMMA EncodedIs ==
  ASSUME NEW data
  PROVE  /\ Base64encode(data).text = HeadOf(data) \o TailOf(data)
         /\ Base64encode(data).ret = Len(HeadOf(data) \o TailOf(data)) + 1
  BY DEF Base64encode, HeadOf, TailOf, CodesOf

LEMMA HeadIs ==
  ASSUME NEW data \in Seq(Byte), NEW q \in Nat, q = Len(data) \div 3
  PROVE  /\ HeadOf(data) \in Seq(Symbols64) /\ Len(HeadOf(data)) = 4 * q
         /\ \A i \in 1 .. q, k \in 1 .. 4 : HeadOf(data)[4 * (i - 1) + k] = CodesOf(data, i)[k]
<1>1. PICK s : s = [i \in 1 .. q |-> CodesOf(data, i)]
  OBVIOUS
<1>2. ASSUME NEW i \in 1 .. q PROVE CodesOf(data, i) \in Seq(Symbols64) /\ Len(CodesOf(data, i)) = 4
  BY CodesAre
<1>3. s \in [1 .. q -> Seq(Symbols64)] /\ \A i \in 1 .. q : Len(s[i]) = 4
  BY <1>1, <1>2
<1>4. HeadOf(data) = FlattenSeq(s)
  BY <1>1 DEF HeadOf
<1>5. 4 \in {2, 3, 4} /\ Even(s, q, 4)
  BY <1>3 DEF Even
<1>6. FlattenSeq(s) \in Seq(Symbols64) /\ EvenRow(FlattenSeq(s), s, q, 4)
  BY <1>3, <1>5, EvenRows
<1>7. QED
  BY <1>1, <1>4, <1>6, SMTT(30) DEF EvenRow

(* r symbols of the last group count. *)
TailIsCut(t, data, q, r) ==
  /\ t \in Seq(Codes) /\ Len(t) = IF r = 0 THEN 0 ELSE 4
  /\ \A k \in 1 .. r : t[k] = CodesOf(data, q + 1)[k] /\ t[k] \in Symbols64
  /\ \A k \in r + 1 .. Len(t) : t[k] = 64

LEMMA TailIs ==
  ASSUME NEW data \in Seq(Byte), NEW q \in Nat, q = Len(data) \div 3,
         NEW r \in {0, 2, 3}, r = IF Len(data) % 3 = 0 THEN 0 ELSE (Len(data) % 3) + 1
  PROVE  TailIsCut(TailOf(data), data, q, r)
<1>1. PICK g : g = CodesOf(data, q + 1)
  OBVIOUS
<1>2. g \in Seq(Symbols64) /\ Len(g) = 4
  BY <1>1, CodesAre
<1>3. PICK d \in 0 .. 2 : d = Len(data) % 3
  OBVIOUS
<1>4. Symbols64 \subseteq Codes /\ 64 \in Codes
  BY DEF Symbols64, Codes
<1>5. CASE d = 0
  <2>1. TailOf(data) = <<>>
    BY <1>3, <1>5 DEF TailOf
  <2>2. r = 0
    BY <1>3, <1>5
  <2>3. <<>> \in Seq(Codes) /\ Len(<<>>) = 0
    OBVIOUS
  <2>4. QED
    BY <2>1, <2>2, <2>3 DEF TailIsCut
<1>6. ASSUME NEW e \in {1, 2}, d = e
      PROVE  LET h == SubSeq(g, 1, e + 1) IN
             h \in Seq(Codes) /\ Len(h) = e + 1 /\ \A k \in 1 .. e + 1 : h[k] = g[k] /\ h[k] \in Symbols64
  <2>1. PICK h : h = SubSeq(g, 1, e + 1)
    OBVIOUS
  <2>2. 1 \in Nat \ {0} /\ e + 1 \in Int /\ e + 1 <= 4 /\ e + 1 - 1 + 1 = e + 1 /\ 1 <= e + 1
    OBVIOUS
  <2>3. /\ h \in Seq(Symbols64) /\ Len(h) = e + 1 - 1 + 1
        /\ \A k \in 1 .. e + 1 - 1 + 1 : h[k] = g[1 + k - 1]
    BY <1>2, <2>1, <2>2, RowCut
  <2>4. \A k \in 1 .. e + 1 : 1 + k - 1 = k
    OBVIOUS
  <2>5. h \in Seq(Symbols64) /\ Len(h) = e + 1 /\ \A k \in 1 .. e + 1 : h[k] = g[k]
    BY <2>2, <2>3, <2>4
  <2>6. h \in Seq(Codes) /\ \A k \in 1 .. e + 1 : h[k] \in Symbols64
    BY <1>4, <2>5
  <2>7. QED
    BY <2>1, <2>5, <2>6
<1>7. CASE d = 1
  <2>1. PICK h : h = SubSeq(g, 1, 2)
    OBVIOUS
  <2>2. h \in Seq(Codes) /\ Len(h) = 2 /\ \A k \in 1 .. 2 : h[k] = g[k] /\ h[k] \in Symbols64
    BY <1>6, <1>7, <2>1
  <2>3. PICK p : p = <<64, 64>>
    OBVIOUS
  <2>4. p \in Seq(Codes) /\ Len(p) = 2 /\ p[1] = 64 /\ p[2] = 64
    BY <1>4, <2>3
  <2>5. TailOf(data) = h \o p
    <3>1. ~(d = 0) /\ ~(d = 2)
      BY <1>7
    <3>2. TailOf(data) = SubSeq(CodesOf(data, q + 1), 1, 2) \o <<64, 64>>
      BY <1>3, <1>7, <3>1 DEF TailOf
    <3>3. QED
      BY <1>1, <2>1, <2>3, <3>2
  <2>6. PICK t : t = h \o p
    OBVIOUS
  <2>7. /\ t \in Seq(Codes) /\ Len(t) = 4 /\ \A i \in 1 .. 2 : t[i] = h[i]
        /\ \A i \in 1 .. 2 : t[2 + i] = p[i]
    <3>1. h \in Seq(Codes) /\ p \in Seq(Codes)
      BY <2>2, <2>4
    <3>2. /\ t \in Seq(Codes) /\ Len(t) = Len(h) + Len(p) /\ \A i \in 1 .. Len(h) : t[i] = h[i]
          /\ \A i \in 1 .. Len(p) : t[Len(h) + i] = p[i]
      BY <2>6, <3>1, RowsJoined
    <3>3. QED
      BY <2>2, <2>4, <3>2
  <2>8. t[3] = 64 /\ t[4] = 64
    <3>1. t[2 + 1] = p[1] /\ t[2 + 2] = p[2]
      BY <2>7
    <3>2. QED
      BY <2>4, <3>1
  <2>9. r = 2
    BY <1>3, <1>7
  <2>10. \A k \in r + 1 .. 4 : k = 3 \/ k = 4
    BY <2>9
  <2>11. \A k \in 1 .. r : k \in 1 .. 2
    BY <2>9
  <2>12. TailIsCut(t, data, q, r)
    BY <1>1, <2>2, <2>7, <2>8, <2>9, <2>10, <2>11 DEF TailIsCut
  <2>13. QED
    BY <2>5, <2>6, <2>12
<1>8. CASE d = 2
  <2>1. PICK h : h = SubSeq(g, 1, 3)
    OBVIOUS
  <2>2. h \in Seq(Codes) /\ Len(h) = 3 /\ \A k \in 1 .. 3 : h[k] = g[k] /\ h[k] \in Symbols64
    BY <1>6, <1>8, <2>1
  <2>3. PICK p : p = <<64>>
    OBVIOUS
  <2>4. p \in Seq(Codes) /\ Len(p) = 1 /\ p[1] = 64
    BY <1>4, <2>3
  <2>5. TailOf(data) = h \o p
    <3>1. ~(d = 0) /\ ~(d = 1)
      BY <1>8
    <3>2. TailOf(data) = SubSeq(CodesOf(data, q + 1), 1, 3) \o <<64>>
      BY <1>3, <1>8, <3>1 DEF TailOf
    <3>3. QED
      BY <1>1, <2>1, <2>3, <3>2
  <2>6. PICK t : t = h \o p
    OBVIOUS
  <2>7. /\ t \in Seq(Codes) /\ Len(t) = 4 /\ \A i \in 1 .. 3 : t[i] = h[i]
        /\ \A i \in 1 .. 1 : t[3 + i] = p[i]
    <3>1. h \in Seq(Codes) /\ p \in Seq(Codes)
      BY <2>2, <2>4
    <3>2. /\ t \in Seq(Codes) /\ Len(t) = Len(h) + Len(p) /\ \A i \in 1 .. Len(h) : t[i] = h[i]
          /\ \A i \in 1 .. Len(p) : t[Len(h) + i] = p[i]
      BY <2>6, <3>1, RowsJoined
    <3>3. QED
      BY <2>2, <2>4, <3>2
  <2>8. t[4] = 64
    <3>1. t[3 + 1] = p[1]
      BY <2>7
    <3>2. QED
      BY <2>4, <3>1
  <2>9. r = 3
    BY <1>3, <1>8
  <2>10. \A k \in r + 1 .. 4 : k = 4
    BY <2>9
  <2>11. \A k \in 1 .. r : k \in 1 .. 3
    BY <2>9
  <2>12. TailIsCut(t, data, q, r)
    BY <1>1, <2>2, <2>7, <2>8, <2>9, <2>10, <2>11 DEF TailIsCut
  <2>13. QED
    BY <2>5, <2>6, <2>12
<1>9. QED
  BY <1>5, <1>7, <1>8

LEMMA EncodesGroups ==
  ASSUME NEW data \in Seq(Byte), NEW txt, txt = Base64encode(data).text
  PROVE  /\ txt \in Seq(Codes) /\ Len(txt) = 4 * ((Len(data) + 2) \div 3)
         /\ Base64encode(data).ret = Len(txt) + 1
         /\ IsCoded(Coded(txt), data)
<1>0. PICK n \in Nat : n = Len(data)
  OBVIOUS
<1>1. PICK q \in Nat, d \in 0 .. 2 :
        n = Len(data) /\ q = n \div 3 /\ d = n % 3 /\ n = 3 * q + d
  BY <1>0
<1>2. PICK r \in {0, 2, 3} : r = IF d = 0 THEN 0 ELSE d + 1
  OBVIOUS
<1>3. PICK h, t : h = HeadOf(data) /\ t = TailOf(data)
  OBVIOUS
<1>4. /\ h \in Seq(Symbols64) /\ Len(h) = 4 * q
      /\ \A i \in 1 .. q, k \in 1 .. 4 : h[4 * (i - 1) + k] = CodesOf(data, i)[k]
  BY <1>1, <1>3, HeadIs, SMTT(30)
<1>5. TailIsCut(t, data, q, r)
  BY <1>1, <1>2, <1>3, TailIs
<1>6. t \in Seq(Codes) /\ Len(t) = IF r = 0 THEN 0 ELSE 4
  BY <1>5 DEF TailIsCut
<1>7. h \in Seq(Codes)
  BY <1>4 DEF Symbols64, Codes
<1>8. txt = h \o t /\ Base64encode(data).ret = Len(txt) + 1
  BY <1>3, EncodedIs
<1>9. /\ txt \in Seq(Codes) /\ Len(txt) = 4 * q + Len(t)
      /\ \A i \in 1 .. 4 * q : txt[i] = h[i]
      /\ \A i \in 1 .. Len(t) : txt[4 * q + i] = t[i]
  <2>1. h \in Seq(Codes) /\ t \in Seq(Codes)
    BY <1>6, <1>7
  <2>2. /\ h \o t \in Seq(Codes) /\ Len(h \o t) = Len(h) + Len(t)
        /\ \A i \in 1 .. Len(h) : (h \o t)[i] = h[i]
        /\ \A i \in 1 .. Len(t) : (h \o t)[Len(h) + i] = t[i]
    BY <2>1, RowsJoined
  <2>3. txt = h \o t
    BY <1>8
  <2>4. /\ txt \in Seq(Codes) /\ Len(txt) = Len(h) + Len(t)
        /\ \A i \in 1 .. Len(h) : txt[i] = h[i]
        /\ \A i \in 1 .. Len(t) : txt[Len(h) + i] = t[i]
    BY <2>2, <2>3
  <2>5. QED
    BY <1>4, <2>4
<1>10. PICK l \in {0, 4} : l = Len(t)
  BY <1>6
<1>11. Len(txt) = 4 * ((n + 2) \div 3)
  <2>1. (n + 2) \div 3 = IF d = 0 THEN q ELSE q + 1
    BY <1>1
  <2>2. QED
    BY <1>2, <1>6, <1>9, <2>1
<1>12. ASSUME NEW i \in 1 .. 4 * q + r PROVE txt[i] \in Symbols64
  <2>1. CASE i <= 4 * q
    <3>1. i \in 1 .. 4 * q /\ i \in 1 .. Len(h)
      BY <1>4, <2>1
    <3>2. QED
      BY <1>4, <1>9, <3>1
  <2>2. CASE ~(i <= 4 * q)
    <3>1. PICK k \in 1 .. r : i = 4 * q + k
      BY <2>2
    <3>2. k \in 1 .. Len(t)
      BY <1>6
    <3>3. txt[4 * q + k] = t[k] /\ t[k] \in Symbols64
      BY <1>5, <1>9, <3>2 DEF TailIsCut
    <3>4. QED
      BY <3>1, <3>3
  <2>3. QED
    BY <2>1, <2>2
<1>13. ASSUME NEW i \in 4 * q + r + 1 .. Len(txt) PROVE txt[i] = 64
  <2>0. 4 * q + r + 1 <= i /\ i <= 4 * q + l /\ i \in Int
    BY <1>9, <1>10
  <2>1. PICK k \in r + 1 .. l : i = 4 * q + k
    BY <2>0
  <2>2. k \in 1 .. Len(t) /\ k \in r + 1 .. Len(t)
    BY <1>10
  <2>3. t[k] = 64
    BY <1>5, <2>2 DEF TailIsCut
  <2>4. QED
    BY <1>9, <2>1, <2>2, <2>3
<1>14. 4 * q + r \in Nat /\ 4 * q + r <= Len(txt)
  BY <1>2, <1>6, <1>9
<1>15. PICK c : c = Coded(txt)
  OBVIOUS
<1>16. c \in Seq(Symbols64) /\ Len(c) = 4 * q + r /\ \A i \in 1 .. 4 * q + r : c[i] = txt[i]
  <2>1. PICK m \in Nat : m = 4 * q + r
    BY <1>14
  <2>2. txt \in Seq(Codes) /\ m <= Len(txt)
    BY <1>9, <1>14, <2>1
  <2>3. \A i \in 1 .. m : txt[i] \in Symbols64
    BY <1>12, <2>1
  <2>4. \A i \in m + 1 .. Len(txt) : txt[i] = 64
    BY <1>13, <2>1
  <2>5. /\ Coded(txt) \in Seq(Symbols64) /\ Len(Coded(txt)) = m
        /\ \A i \in 1 .. m : Coded(txt)[i] = txt[i]
    BY <2>2, <2>3, <2>4, CodedIs
  <2>6. QED
    BY <1>15, <2>1, <2>5
<1>17. CodedLen(n) = 4 * q + r
  BY <1>1, <1>2 DEF CodedLen
<1>18. ASSUME NEW i \in Nat \ {0}, NEW k \in 1 .. 4, 4 * (i - 1) + k <= Len(c)
       PROVE  c[4 * (i - 1) + k] = CodesOf(data, i)[k]
  <2>1. PICK j \in 1 .. 4 * q + r : j = 4 * (i - 1) + k
    BY <1>16, <1>18
  <2>2. c[j] = txt[j]
    BY <1>16
  <2>3. CASE i <= q
    <3>1. i \in 1 .. q /\ j \in 1 .. 4 * q
      BY <2>1, <2>3
    <3>2. txt[j] = h[4 * (i - 1) + k]
      BY <1>9, <2>1, <3>1
    <3>3. QED
      BY <1>4, <2>1, <2>2, <3>1, <3>2
  <2>4. CASE ~(i <= q)
    <3>1. i = q + 1
      BY <2>1, <2>4
    <3>2. j = 4 * q + k
      BY <2>1, <3>1
    <3>3. k \in 1 .. r /\ k \in 1 .. Len(t)
      BY <1>6, <3>2
    <3>4. txt[j] = t[k] /\ t[k] = CodesOf(data, q + 1)[k]
      BY <1>5, <1>9, <3>2, <3>3 DEF TailIsCut
    <3>5. QED
      BY <2>1, <2>2, <3>1, <3>4
  <2>5. QED
    BY <2>3, <2>4
<1>19. IsCoded(c, data)
  BY <1>1, <1>16, <1>17, <1>18 DEF IsCoded
<1>20. QED
  BY <1>1, <1>8, <1>9, <1>11, <1>15, <1>19

-----------------------------------------------------------------------------
(* Reading a group back, and how many are read by the loop and by the cases after it. *)
ReadGroup(c, i) ==
  << At(c, 4 * i - 3) * 4 + (At(c, 4 * i - 2) \div 16),
     (At(c, 4 * i - 2) % 16) * 16 + (At(c, 4 * i - 1) \div 4),
     (At(c, 4 * i - 1) % 4) * 64 + At(c, 4 * i) >>
WholeOf(n) == IF n > 4 THEN (n - 1) \div 4 ELSE 0
LoopReads(c, w) == FlattenSeq([i \in 1 .. w |-> ReadGroup(c, i)])

DecodedOf(r, c, n, w) ==
  /\ r.data = LoopReads(c, w) \o SubSeq(ReadGroup(c, w + 1), 1, n - 4 * w - 1)
  /\ r.ret = ((n + 3) \div 4) * 3 - ((4 - (n - 4 * w)) % 4)

LEMMA DecodedOfIs ==
  ASSUME NEW txt
  PROVE  DecodedOf(Base64decode(txt), Coded(txt), Len(Coded(txt)), WholeOf(Len(Coded(txt))))
  BY DEF Base64decode, WholeOf, LoopReads, ReadGroup, DecodedOf

GroupTaken(g, data, m, i) ==
  /\ g \in Seq(Nat) /\ Len(g) = 3
  /\ \A k \in 1 .. 3 : 4 * (i - 1) + k + 1 <= m => g[k] = At(data, 3 * (i - 1) + k)

(* A group read back is three bytes, those whose symbols are there. *)
LEMMA GroupsRead ==
  ASSUME NEW data \in Seq(Byte), NEW c, IsCoded(c, data), NEW i \in Nat \ {0}
  PROVE  GroupTaken(ReadGroup(c, i), data, Len(c), i)
<1>1. PICK m \in Nat : m = Len(c) /\ c \in Seq(Symbols64) /\ DOMAIN c = 1 .. m
  BY DEF IsCoded
<1>2. ASSUME NEW j \in Int PROVE At(c, j) \in Symbols64
  <2>1. 0 \in Symbols64
    BY DEF Symbols64
  <2>2. QED
    BY <1>1, <2>1 DEF At
<1>3. PICK p \in Symbols64, q \in Symbols64, r \in Symbols64, s \in Symbols64 :
        /\ p = At(c, 4 * i - 3) /\ q = At(c, 4 * i - 2)
        /\ r = At(c, 4 * i - 1) /\ s = At(c, 4 * i)
  BY <1>2
<1>4. PICK x, y, z : /\ x = p * 4 + (q \div 16) /\ y = (q % 16) * 16 + (r \div 4)
                     /\ z = (r % 4) * 64 + s
  OBVIOUS
<1>5. x \in Nat /\ y \in Nat /\ z \in Nat
  BY <1>4 DEF Symbols64
<1>6. PICK g : g = <<x, y, z>>
  OBVIOUS
<1>7. g \in Seq(Nat) /\ Len(g) = 3 /\ g[1] = x /\ g[2] = y /\ g[3] = z
  BY <1>5, <1>6
<1>8. ReadGroup(c, i) = g
  BY <1>3, <1>4, <1>6 DEF ReadGroup
<1>9. PICK codes : codes = CodesOf(data, i)
  OBVIOUS
<1>10. ASSUME NEW k \in 1 .. 4, 4 * (i - 1) + k <= m
       PROVE  At(c, 4 * (i - 1) + k) = codes[k]
  <2>1. 4 * (i - 1) + k \in 1 .. m
    BY <1>10
  <2>2. c[4 * (i - 1) + k] = codes[k]
    BY <1>1, <1>9, <1>10 DEF IsCoded
  <2>3. QED
    BY <1>1, <2>1, <2>2 DEF At
<1>11. /\ 4 * (i - 1) + 1 = 4 * i - 3 /\ 4 * (i - 1) + 2 = 4 * i - 2
       /\ 4 * (i - 1) + 3 = 4 * i - 1 /\ 4 * (i - 1) + 4 = 4 * i
       /\ 3 * (i - 1) + 1 = 3 * i - 2 /\ 3 * (i - 1) + 2 = 3 * i - 1 /\ 3 * (i - 1) + 3 = 3 * i
  OBVIOUS
<1>12. /\ 4 * i - 3 <= m => p = codes[1]
       /\ 4 * i - 2 <= m => q = codes[2]
       /\ 4 * i - 1 <= m => r = codes[3]
       /\ 4 * i <= m => s = codes[4]
  BY <1>3, <1>10, <1>11
<1>13. /\ codes[1] * 4 + (codes[2] \div 16) = At(data, 3 * i - 2)
       /\ (codes[2] % 16) * 16 + (codes[3] \div 4) = At(data, 3 * i - 1)
       /\ (codes[3] % 4) * 64 + codes[4] = At(data, 3 * i)
  BY <1>9, CodesAre
<1>14. ASSUME NEW k \in 1 .. 3, 4 * (i - 1) + k + 1 <= m
       PROVE  g[k] = At(data, 3 * (i - 1) + k)
  <2>1. CASE k = 1
    <3>1. p = codes[1] /\ q = codes[2]
      BY <1>12, <1>14, <2>1
    <3>2. x = At(data, 3 * i - 2)
      BY <1>4, <1>13, <3>1
    <3>3. QED
      BY <1>7, <1>11, <2>1, <3>2
  <2>2. CASE k = 2
    <3>1. q = codes[2] /\ r = codes[3]
      BY <1>12, <1>14, <2>2
    <3>2. y = At(data, 3 * i - 1)
      BY <1>4, <1>13, <3>1
    <3>3. QED
      BY <1>7, <1>11, <2>2, <3>2
  <2>3. CASE k = 3
    <3>1. r = codes[3] /\ s = codes[4]
      BY <1>12, <1>14, <2>3
    <3>2. z = At(data, 3 * i)
      BY <1>4, <1>13, <3>1
    <3>3. QED
      BY <1>7, <1>11, <2>3, <3>2
  <2>4. QED
    BY <2>1, <2>2, <2>3
<1>15. QED
  BY <1>1, <1>7, <1>8, <1>14 DEF GroupTaken

(* The numbers: the loop leaves what has the last bytes in it. *)
WholeFits(n, m, w, e, l) ==
  /\ w \in Nat /\ e \in 0 .. 3 /\ n = 3 * w + e /\ l \in 0 .. 4 /\ m = 4 * w + l
  /\ l = IF e = 0 THEN 0 ELSE e + 1
  /\ ((m + 3) \div 4) * 3 - ((4 - l) % 4) = n

LEMMA WholeIs ==
  ASSUME NEW n \in Nat, NEW m \in Nat, m = CodedLen(n)
  PROVE  WholeFits(n, m, WholeOf(m), n - 3 * WholeOf(m), m - 4 * WholeOf(m))
<1>0. PICK w : w = WholeOf(m)
  OBVIOUS
<1>0a. PICK e, l : e = n - 3 * w /\ l = m - 4 * w
  OBVIOUS
<1>1. PICK q \in Nat, d \in 0 .. 2 : n = 3 * q + d /\ q = n \div 3 /\ d = n % 3
  OBVIOUS
<1>1a. n = 3 * q + d
  BY <1>1
<1>2. CASE d = 0
  <2>1. m = 4 * q
    BY <1>1, <1>2 DEF CodedLen
  <2>2. CASE q = 0
    <3>1. w = 0 /\ m = 0 /\ n = 0
      BY <1>0, <1>1, <1>2, <2>1, <2>2 DEF WholeOf
    <3>2. e = 0 /\ l = 0 /\ (4 - 0) % 4 = 0 /\ (0 + 3) \div 4 = 0
      BY <1>0a, <3>1
    <3>3. WholeFits(n, m, w, e, l)
      BY <3>1, <3>2 DEF WholeFits
    <3>4. QED
      BY <1>0, <1>0a, <3>3
  <2>3. CASE q # 0
    <3>1. w = q - 1
      BY <1>0, <2>1, <2>3 DEF WholeOf
    <3>2. l = 4 /\ e = 3 /\ w \in Nat
      BY <1>0a, <1>1, <1>2, <2>1, <2>3, <3>1
    <3>3. (m + 3) \div 4 = q /\ (4 - 4) % 4 = 0
      BY <2>1
    <3>4. n = 3 * w + 3 /\ m = 4 * w + 4 /\ n = q * 3
      BY <1>1, <1>2, <2>1, <3>1
    <3>5. WholeFits(n, m, w, e, l)
      BY <3>2, <3>3, <3>4 DEF WholeFits
    <3>6. QED
      BY <1>0, <1>0a, <3>5
  <2>4. QED
    BY <2>2, <2>3
<1>3. CASE d # 0
  <2>1. m = 4 * q + d + 1
    BY <1>1, <1>3 DEF CodedLen
  <2>2. w = q
    <3>1. CASE q = 0
      BY <1>0, <1>3, <2>1, <3>1 DEF WholeOf
    <3>2. CASE q # 0
      <4>1. m > 4 /\ (m - 1) \div 4 = q
        BY <2>1, <3>2
      <4>2. QED
        BY <1>0, <4>1 DEF WholeOf
    <3>3. QED
      BY <3>1, <3>2
  <2>3. l = d + 1 /\ e = d
    BY <1>0a, <1>1a, <2>1, <2>2
  <2>4. (m + 3) \div 4 = q + 1 /\ (4 - (d + 1)) % 4 = 3 - d
    BY <1>3, <2>1
  <2>5. m = 4 * w + (d + 1) /\ n = (q + 1) * 3 - (3 - d) /\ n = 3 * w + d
    BY <1>1a, <2>1, <2>2
  <2>6. WholeFits(n, m, w, e, l)
    BY <1>3, <2>2, <2>3, <2>4, <2>5 DEF WholeFits
  <2>7. QED
    BY <1>0, <1>0a, <2>6
<1>4. QED
  BY <1>2, <1>3

LEMMA Base64Inverts ==
  ASSUME NEW data \in Seq(Byte), NEW txt, IsCoded(Coded(txt), data)
  PROVE  /\ Base64decode(txt).data = data /\ Base64decode(txt).ret = Len(data)
         /\ Base64decode(txt).ret < Base64decode_len(txt)
<1>1. PICK c : c = Coded(txt)
  OBVIOUS
<1>2. PICK n \in Nat : n = Len(data) /\ DOMAIN data = 1 .. n
  OBVIOUS
<1>3. PICK m \in Nat : m = Len(c) /\ m = CodedLen(n)
  BY <1>1, <1>2 DEF IsCoded
<1>4. PICK w : w = WholeOf(m)
  OBVIOUS
<1>5. PICK e \in 0 .. 3, l \in 0 .. 4 : WholeFits(n, m, w, e, l) /\ e = n - 3 * w /\ l = m - 4 * w
  <2>1. WholeFits(n, m, w, n - 3 * w, m - 4 * w)
    BY <1>3, <1>4, WholeIs
  <2>2. n - 3 * w \in 0 .. 3 /\ m - 4 * w \in 0 .. 4
    BY <2>1 DEF WholeFits
  <2>3. QED
    BY <2>1, <2>2
<1>6. /\ w \in Nat /\ n = 3 * w + e /\ m = 4 * w + l
      /\ l = IF e = 0 THEN 0 ELSE e + 1
      /\ ((m + 3) \div 4) * 3 - ((4 - l) % 4) = n
  BY <1>5 DEF WholeFits
<1>7. PICK s : s = [i \in 1 .. w |-> ReadGroup(c, i)]
  OBVIOUS
<1>8. ASSUME NEW i \in Nat \ {0}
      PROVE  GroupTaken(ReadGroup(c, i), data, m, i)
  BY <1>1, <1>3, GroupsRead
<1>9. s \in [1 .. w -> Seq(Nat)] /\ Even(s, w, 3)
  BY <1>6, <1>7, <1>8 DEF Even, GroupTaken
<1>10. PICK h : h = LoopReads(c, w)
  OBVIOUS
<1>11. h \in Seq(Nat) /\ EvenRow(h, s, w, 3)
  <2>1. 3 \in {2, 3, 4}
    OBVIOUS
  <2>2. FlattenSeq(s) \in Seq(Nat) /\ EvenRow(FlattenSeq(s), s, w, 3)
    BY <1>6, <1>9, <2>1, EvenRows
  <2>3. h = FlattenSeq(s)
    BY <1>7, <1>10 DEF LoopReads
  <2>4. QED
    BY <2>2, <2>3
<1>12. Len(h) = 3 * w
  BY <1>11 DEF EvenRow
<1>13. ASSUME NEW i \in 1 .. 3 * w PROVE h[i] = data[i]
  <2>1. PICK j \in 1 .. w, k \in 1 .. 3 : i = 3 * (j - 1) + k
    <3>1. PICK j, k : j = ((i - 1) \div 3) + 1 /\ k = ((i - 1) % 3) + 1
      OBVIOUS
    <3>2. j \in 1 .. w /\ k \in 1 .. 3 /\ i = 3 * (j - 1) + k
      BY <1>6, <3>1
    <3>3. QED
      BY <3>2
  <2>2. h[i] = s[j][k]
    BY <1>11, <2>1 DEF EvenRow
  <2>3. s[j] = ReadGroup(c, j)
    BY <1>7
  <2>4. 4 * (j - 1) + k + 1 <= m
    BY <1>6
  <2>5. ReadGroup(c, j)[k] = At(data, i)
    <3>1. GroupTaken(ReadGroup(c, j), data, m, j)
      BY <1>8
    <3>2. QED
      BY <2>1, <2>4, <3>1 DEF GroupTaken
  <2>6. i \in 1 .. n
    BY <1>6
  <2>7. At(data, i) = data[i]
    BY <1>2, <2>6 DEF At
  <2>8. QED
    BY <2>2, <2>3, <2>5, <2>7
<1>14. PICK g : g = ReadGroup(c, w + 1)
  OBVIOUS
<1>15. w + 1 \in Nat \ {0} /\ 4 * (w + 1 - 1) = 4 * w /\ 3 * (w + 1 - 1) = 3 * w
  BY <1>6
<1>16. /\ g \in Seq(Nat) /\ Len(g) = 3
       /\ \A k \in 1 .. 3 : 4 * w + k + 1 <= m => g[k] = At(data, 3 * w + k)
  <2>1. GroupTaken(g, data, m, w + 1)
    BY <1>8, <1>14, <1>15
  <2>2. ASSUME NEW k \in 1 .. 3, 4 * w + k + 1 <= m
        PROVE  g[k] = At(data, 3 * w + k)
    <3>1. PICK i \in Nat : i = w + 1 /\ 4 * (i - 1) = 4 * w /\ 3 * (i - 1) = 3 * w
      BY <1>6
    <3>2. 4 * (i - 1) + k + 1 <= m => g[k] = At(data, 3 * (i - 1) + k)
      BY <2>1, <3>1 DEF GroupTaken
    <3>3. QED
      BY <2>2, <3>1, <3>2
  <2>3. QED
    BY <2>1, <2>2 DEF GroupTaken
<1>17. PICK t : t = SubSeq(g, 1, l - 1)
  OBVIOUS
<1>18. t \in Seq(Nat) /\ Len(t) = e /\ \A k \in 1 .. e : t[k] = g[k]
  <2>1. PICK p \in Int : p = l - 1
    OBVIOUS
  <2>2. e = (IF p > 0 THEN p ELSE 0) /\ e <= Len(g) /\ e \in Nat
    BY <1>6, <1>16, <2>1
  <2>3. t = SubSeq(g, 1, p) /\ g \in Seq(Nat)
    BY <1>16, <1>17, <2>1
  <2>4. SubSeq(g, 1, p) \in Seq(Nat) /\ HeadRow(SubSeq(g, 1, p), g, e)
    BY <2>2, <2>3, RowHead
  <2>5. QED
    BY <2>3, <2>4 DEF HeadRow
<1>19. ASSUME NEW k \in 1 .. e PROVE t[k] = data[3 * w + k]
  <2>1. k \in 1 .. 3 /\ 4 * w + k + 1 <= m /\ 3 * w + k \in 1 .. n
    BY <1>6
  <2>2. g[k] = At(data, 3 * w + k)
    BY <1>16, <2>1
  <2>3. At(data, 3 * w + k) = data[3 * w + k]
    BY <1>2, <2>1 DEF At
  <2>4. QED
    BY <1>18, <2>2, <2>3
<1>20. PICK x : x = h \o t
  OBVIOUS
<1>21. /\ x \in Seq(Nat) /\ Len(x) = n /\ \A i \in 1 .. 3 * w : x[i] = h[i]
       /\ \A i \in 1 .. e : x[3 * w + i] = t[i]
  <2>1. h \in Seq(Nat) /\ t \in Seq(Nat)
    BY <1>11, <1>18
  <2>2. /\ h \o t \in Seq(Nat) /\ Len(h \o t) = Len(h) + Len(t)
        /\ \A i \in 1 .. Len(h) : (h \o t)[i] = h[i]
        /\ \A i \in 1 .. Len(t) : (h \o t)[Len(h) + i] = t[i]
    BY <2>1, RowsJoined
  <2>3. 3 * w + e = n
    BY <1>6
  <2>4. QED
    BY <1>12, <1>18, <1>20, <2>2, <2>3
<1>22. ASSUME NEW i \in 1 .. n PROVE x[i] = data[i]
  <2>1. CASE i <= 3 * w
    <3>1. i \in 1 .. 3 * w
      BY <1>6, <2>1
    <3>2. QED
      BY <1>13, <1>21, <3>1
  <2>2. CASE ~(i <= 3 * w)
    <3>1. PICK k \in 1 .. e : i = 3 * w + k
      <4>1. i - 3 * w \in 1 .. e /\ i = 3 * w + (i - 3 * w)
        BY <1>6, <2>2
      <4>2. QED
        BY <4>1
    <3>2. QED
      BY <1>19, <1>21, <3>1
  <2>3. QED
    BY <2>1, <2>2
<1>23. x = data
  <2>1. data \in Seq(Nat)
    <3>1. Byte \subseteq Nat
      BY DEF Byte
    <3>2. QED
      BY <3>1, WiderRow
  <2>2. QED
    BY <1>2, <1>21, <1>22, <2>1, SeqEqual
<1>24. Base64decode(txt).data = x /\ Base64decode(txt).ret = n
  <2>0. DecodedOf(Base64decode(txt), c, m, w)
    BY <1>1, <1>3, <1>4, DecodedOfIs
  <2>1. /\ Base64decode(txt).data =
             LoopReads(c, w) \o SubSeq(ReadGroup(c, w + 1), 1, m - 4 * w - 1)
        /\ Base64decode(txt).ret = ((m + 3) \div 4) * 3 - ((4 - (m - 4 * w)) % 4)
    BY <2>0 DEF DecodedOf
  <2>2. m - 4 * w = l
    BY <1>5
  <2>3. QED
    BY <1>6, <1>10, <1>14, <1>17, <1>20, <2>1, <2>2
<1>25. Base64decode_len(txt) = ((m + 3) \div 4) * 3 + 1
  BY <1>1, <1>3 DEF Base64decode_len
<1>26. n < ((m + 3) \div 4) * 3 + 1
  <2>1. (4 - l) % 4 >= 0 /\ (m + 3) \div 4 \in Int /\ (4 - l) % 4 \in Int
    OBVIOUS
  <2>2. QED
    BY <1>6, <2>1
<1>27. QED
  BY <1>2, <1>23, <1>24, <1>25, <1>26

-----------------------------------------------------------------------------
(* hex.c.  A digit is read back, and neither a delimiter nor a NUL is taken for one. *)
LEMMA DigitsRead ==
  ASSUME NEW x \in 0 .. 15, NEW upper \in BOOLEAN
  PROVE  HexDigit(x, upper) \in Nat /\ Nibble(HexDigit(x, upper)) = x
<1>1. CASE x < 10
  <2>1. PICK c \in 48 .. 57 : c = 48 + x
    BY <1>1
  <2>2. HexDigit(x, upper) = c
    BY <1>1, <2>1 DEF HexDigit
  <2>3. Nibble(c) = c - 48
    BY DEF Nibble
  <2>4. QED
    BY <2>1, <2>2, <2>3
<1>2. CASE ~(x < 10) /\ upper
  <2>1. PICK c \in 65 .. 70 : c = x - 10 + 65
    BY <1>2
  <2>2. HexDigit(x, upper) = c
    BY <1>2, <2>1 DEF HexDigit
  <2>3. c \notin 48 .. 57
    OBVIOUS
  <2>4. Nibble(c) = c - 65 + 10
    BY <2>3 DEF Nibble
  <2>5. QED
    BY <2>1, <2>2, <2>4
<1>3. CASE ~(x < 10) /\ ~upper
  <2>1. PICK c \in 97 .. 102 : c = x - 10 + 97
    BY <1>3
  <2>2. HexDigit(x, upper) = c
    BY <1>3, <2>1 DEF HexDigit
  <2>3. c \notin 48 .. 57 /\ c \notin 65 .. 70
    OBVIOUS
  <2>4. Nibble(c) = c - 97 + 10
    BY <2>3 DEF Nibble
  <2>5. QED
    BY <2>1, <2>2, <2>4
<1>4. QED
  BY <1>1, <1>2, <1>3

(* What is written: two digits for every byte, and the delimiter between two. *)
HexWritten(txt, data, upper, stride, delim) ==
  /\ txt \in Seq(Nat) /\ Len(txt) = stride * (Len(data) - 1) + 2
  /\ \A i \in 1 .. Len(data) :
       /\ txt[stride * (i - 1) + 1] = HexDigit(data[i] \div 16, upper)
       /\ txt[stride * (i - 1) + 2] = HexDigit(data[i] % 16, upper)
       /\ stride = 3 /\ i < Len(data) => txt[3 * i] = delim

HexPiece(data, i, upper, delim) ==
  << HexDigit(data[i] \div 16, upper), HexDigit(data[i] % 16, upper) >>
    \o IF delim # 0 /\ i < Len(data) THEN <<delim>> ELSE <<>>

HexPieceIs(p, data, i, upper, delim) ==
  /\ p \in Seq(Nat) /\ Len(p) = IF delim # 0 /\ i < Len(data) THEN 3 ELSE 2
  /\ p[1] = HexDigit(data[i] \div 16, upper) /\ p[2] = HexDigit(data[i] % 16, upper)
  /\ delim # 0 /\ i < Len(data) => p[3] = delim

LEMMA PiecesAre ==
  ASSUME NEW data \in Seq(Byte), NEW i \in 1 .. Len(data), NEW upper \in BOOLEAN, NEW delim \in Nat
  PROVE  HexPieceIs(HexPiece(data, i, upper, delim), data, i, upper, delim)
<1>1. PICK b \in Byte : b = data[i]
  OBVIOUS
<1>2. b \div 16 \in 0 .. 15 /\ b % 16 \in 0 .. 15
  BY DEF Byte
<1>3. PICK x \in Nat, y \in Nat : x = HexDigit(data[i] \div 16, upper) /\ y = HexDigit(data[i] % 16, upper)
  BY <1>1, <1>2, DigitsRead
<1>4. PICK g : g = <<x, y>>
  OBVIOUS
<1>5. g \in Seq(Nat) /\ Len(g) = 2 /\ g[1] = x /\ g[2] = y
  BY <1>4
<1>6. CASE delim # 0 /\ i < Len(data)
  <2>1. PICK t : t = <<delim>>
    OBVIOUS
  <2>2. t \in Seq(Nat) /\ Len(t) = 1 /\ t[1] = delim
    BY <2>1
  <2>3. PICK p : p = g \o t
    OBVIOUS
  <2>4. /\ p \in Seq(Nat) /\ Len(p) = 3 /\ \A k \in 1 .. 2 : p[k] = g[k]
        /\ \A k \in 1 .. 1 : p[2 + k] = t[k]
    <3>0. g \in Seq(Nat) /\ t \in Seq(Nat)
      BY <1>5, <2>2
    <3>1. /\ g \o t \in Seq(Nat) /\ Len(g \o t) = Len(g) + Len(t)
          /\ \A k \in 1 .. Len(g) : (g \o t)[k] = g[k]
          /\ \A k \in 1 .. Len(t) : (g \o t)[Len(g) + k] = t[k]
      BY <3>0, RowsJoined
    <3>2. QED
      BY <1>5, <2>2, <2>3, <3>1, SMTT(30)
  <2>5. p[1] = x /\ p[2] = y /\ p[3] = delim
    <3>1. p[2 + 1] = t[1]
      BY <2>4
    <3>2. p[1] = g[1] /\ p[2] = g[2]
      BY <2>4
    <3>3. QED
      BY <1>5, <2>2, <3>1, <3>2
  <2>6. HexPiece(data, i, upper, delim) = p
    BY <1>3, <1>4, <1>6, <2>1, <2>3 DEF HexPiece
  <2>7. QED
    BY <1>3, <1>6, <2>4, <2>5, <2>6 DEF HexPieceIs
<1>7. CASE ~(delim # 0 /\ i < Len(data))
  <2>1. g \o <<>> = g
    BY <1>5
  <2>2. HexPiece(data, i, upper, delim) = g
    BY <1>3, <1>4, <1>7, <2>1 DEF HexPiece
  <2>3. QED
    BY <1>3, <1>5, <1>7, <2>2 DEF HexPieceIs
<1>8. QED
  BY <1>6, <1>7

HexText(data, upper, delim) == FlattenSeq([i \in DOMAIN data |-> HexPiece(data, i, upper, delim)])

LEMMA HexIsWritten ==
  ASSUME NEW data \in Seq(Byte), data # <<>>, NEW upper \in BOOLEAN, NEW delim \in Nat,
         NEW stride \in {2, 3}, stride = IF delim = 0 THEN 2 ELSE 3
  PROVE  HexWritten(HexText(data, upper, delim), data, upper, stride, delim)
<1>1. PICK n \in Nat \ {0} : n = Len(data) /\ DOMAIN data = 1 .. n
  OBVIOUS
<1>2. PICK s : s = [i \in 1 .. n |-> HexPiece(data, i, upper, delim)]
  OBVIOUS
<1>3. ASSUME NEW i \in 1 .. n
      PROVE  HexPieceIs(s[i], data, i, upper, delim)
  <2>1. s[i] = HexPiece(data, i, upper, delim)
    BY <1>2
  <2>2. QED
    BY <1>1, <2>1, PiecesAre
<1>4. ASSUME NEW i \in 1 .. n
      PROVE  s[i] \in Seq(Nat) /\ Len(s[i]) = IF i < n THEN stride ELSE 2
  BY <1>1, <1>3 DEF HexPieceIs
<1>5. s \in [1 .. n -> Seq(Nat)]
  BY <1>2, <1>4
<1>6. PICK off : off = [i \in 0 .. n |-> IF i < n THEN stride * i ELSE stride * (n - 1) + 2]
  OBVIOUS
<1>7. off \in [0 .. n -> Nat]
  BY <1>6
<1>8. ASSUME NEW j \in 1 .. n PROVE off[j - 1] = stride * (j - 1)
  <2>1. j - 1 \in 0 .. n /\ j - 1 < n
    OBVIOUS
  <2>2. QED
    BY <1>6, <2>1
<1>9. ASSUME NEW j \in 1 .. n PROVE off[j] = off[j - 1] + Len(s[j])
  <2>1. off[j] = IF j < n THEN stride * j ELSE stride * (n - 1) + 2
    BY <1>6
  <2>2. stride * j = stride * (j - 1) + stride
    OBVIOUS
  <2>3. CASE j < n
    BY <1>4, <1>8, <2>1, <2>2, <2>3
  <2>4. CASE ~(j < n)
    <3>1. j = n
      BY <2>4
    <3>2. QED
      BY <1>4, <1>8, <2>1, <2>4, <3>1
  <2>5. QED
    BY <2>3, <2>4
<1>10. Ends(s, off, n)
  <2>1. off[0] = 0
    BY <1>6
  <2>2. QED
    BY <1>9, <2>1 DEF Ends
<1>11. PICK r \in Seq(Nat) : r = FlattenSeq(s) /\ Holding(r, s, off, n)
  BY <1>5, <1>7, <1>10, FlattenIs
<1>12. Len(r) = stride * (n - 1) + 2
  BY <1>6, <1>11 DEF Holding
<1>13. ASSUME NEW i \in 1 .. n
       PROVE  /\ r[stride * (i - 1) + 1] = HexDigit(data[i] \div 16, upper)
              /\ r[stride * (i - 1) + 2] = HexDigit(data[i] % 16, upper)
              /\ stride = 3 /\ i < n => r[3 * i] = delim
  <2>1. PICK o : o = off[i - 1]
    OBVIOUS
  <2>2. o = stride * (i - 1)
    BY <1>8, <2>1
  <2>3. PICK p \in Seq(Nat) : p = s[i]
    BY <1>4
  <2>4. ASSUME NEW k \in Nat \ {0}, k <= Len(p) PROVE r[o + k] = p[k]
    BY <1>11, <2>1, <2>3, <2>4 DEF Holding
  <2>5. HexPieceIs(p, data, i, upper, delim)
    BY <1>3, <2>3
  <2>6. Len(p) = IF delim # 0 /\ i < n THEN 3 ELSE 2
    BY <1>1, <2>5 DEF HexPieceIs
  <2>7. r[o + 1] = p[1] /\ r[o + 2] = p[2]
    BY <2>4, <2>6
  <2>8. ASSUME stride = 3, i < n PROVE r[3 * i] = delim
    <3>1. Len(p) = 3 /\ p[3] = delim
      BY <1>1, <2>5, <2>8 DEF HexPieceIs
    <3>2. r[o + 3] = p[3]
      BY <2>4, <3>1
    <3>3. o + 3 = 3 * i
      BY <2>2, <2>8
    <3>4. QED
      BY <3>1, <3>2, <3>3
  <2>9. p[1] = HexDigit(data[i] \div 16, upper) /\ p[2] = HexDigit(data[i] % 16, upper)
    BY <2>5 DEF HexPieceIs
  <2>10. QED
    BY <2>2, <2>7, <2>8, <2>9
<1>14. HexText(data, upper, delim) = r
  BY <1>1, <1>2, <1>11 DEF HexText
<1>15. QED
  BY <1>1, <1>11, <1>12, <1>13, <1>14 DEF HexWritten

DelimOf(txt) == IF Len(txt) > 4 /\ Nibble(txt[3]) < 0 THEN txt[3] ELSE 0
HexBytes(txt, stride, n) ==
  [i \in 1 .. n |-> Nibble(At(txt, stride * (i - 1) + 1)) * 16
                      + Nibble(At(txt, stride * (i - 1) + 2))]
HexTaken(txt, len, room, stride, delim, n) ==
  /\ len >= 2 /\ (len + stride - 2) % stride = 0 /\ room >= n
  /\ \A i \in 1 .. n :
       /\ Nibble(At(txt, stride * (i - 1) + 1)) >= 0 /\ Nibble(At(txt, stride * (i - 1) + 2)) >= 0
       /\ i < n /\ delim # 0 => txt[stride * i] = delim
HexRead(room, txt, len, delim, stride, n) ==
  IF HexTaken(txt, len, room, stride, delim, n)
  THEN [fails |-> FALSE, delim |-> delim, data |-> HexBytes(txt, stride, n)] ELSE Fail

LEMMA HexParseIs ==
  ASSUME NEW txt, NEW room
  PROVE  LET stride == IF DelimOf(txt) = 0 THEN 2 ELSE 3 IN
         HexParse(room, txt) = HexRead(room, txt, Len(txt), DelimOf(txt), stride,
                                        (Len(txt) + stride - 2) \div stride)
  BY DEF HexParse, HexRead, HexTaken, HexBytes, DelimOf

(* Reading: one byte after the other, with the delimiter that was written. *)
LEMMA HexIsRead ==
  ASSUME NEW data \in Seq(Byte), data # <<>>, NEW upper \in BOOLEAN, NEW txt,
         NEW stride \in {2, 3}, HexWritten(txt, data, upper, stride, IF stride = 2 THEN 0 ELSE 58),
         stride = 3 => Len(data) > 1
  PROVE  HexParse(Len(data), txt) =
           [fails |-> FALSE, data |-> data, delim |-> IF stride = 2 THEN 0 ELSE 58]
<1>1. PICK n \in Nat \ {0} : n = Len(data) /\ DOMAIN data = 1 .. n
  OBVIOUS
<1>2. PICK d \in {0, 58} : d = IF stride = 2 THEN 0 ELSE 58
  OBVIOUS
<1>3. PICK len \in Nat : len = Len(txt) /\ DOMAIN txt = 1 .. len
  BY DEF HexWritten
<1>4. len = stride * (n - 1) + 2
  BY <1>1, <1>3 DEF HexWritten
<1>5. ASSUME NEW i \in 1 .. n
      PROVE  /\ stride * (i - 1) + 1 \in 1 .. len /\ stride * (i - 1) + 2 \in 1 .. len
             /\ i < n /\ stride = 3 => 3 * i \in 1 .. len
  <2>1. PICK k \in Nat : k = i - 1 /\ k <= n - 1
    OBVIOUS
  <2>2. stride * k \in Nat /\ stride * k <= stride * (n - 1)
    BY <2>1
  <2>3. i < n /\ stride = 3 => 3 * i \in 1 .. len
    BY <1>4
  <2>4. QED
    BY <1>4, <2>1, <2>2, <2>3
<1>6. ASSUME NEW i \in 1 .. n
      PROVE  /\ Nibble(At(txt, stride * (i - 1) + 1)) = data[i] \div 16
             /\ Nibble(At(txt, stride * (i - 1) + 2)) = data[i] % 16
             /\ data[i] \div 16 >= 0 /\ data[i] % 16 >= 0
             /\ (data[i] \div 16) * 16 + (data[i] % 16) = data[i]
  <2>1. PICK b \in Byte : b = data[i]
    BY <1>1
  <2>2. PICK x \in 0 .. 15, y \in 0 .. 15 : x = b \div 16 /\ y = b % 16
    BY DEF Byte
  <2>3. b = x * 16 + y
    BY <2>2 DEF Byte
  <2>4. At(txt, stride * (i - 1) + 1) = txt[stride * (i - 1) + 1]
    BY <1>3, <1>5 DEF At
  <2>5. At(txt, stride * (i - 1) + 2) = txt[stride * (i - 1) + 2]
    BY <1>3, <1>5 DEF At
  <2>6. /\ txt[stride * (i - 1) + 1] = HexDigit(x, upper)
        /\ txt[stride * (i - 1) + 2] = HexDigit(y, upper)
    BY <1>1, <2>1, <2>2 DEF HexWritten
  <2>7. Nibble(HexDigit(x, upper)) = x /\ Nibble(HexDigit(y, upper)) = y
    BY DigitsRead
  <2>8. /\ Nibble(At(txt, stride * (i - 1) + 1)) = x
        /\ Nibble(At(txt, stride * (i - 1) + 2)) = y
    BY <2>4, <2>5, <2>6, <2>7
  <2>9. data[i] \div 16 = x /\ data[i] % 16 = y /\ data[i] = x * 16 + y
    BY <2>1, <2>2, <2>3
  <2>10. QED
    BY <2>8, <2>9
<1>7. (IF len > 4 /\ Nibble(txt[3]) < 0 THEN txt[3] ELSE 0) = d
  <2>1. CASE stride = 2
    <3>1. CASE len > 4
      <4>1. PICK i \in 1 .. n : i = 2
        BY <1>4, <2>1, <3>1
      <4>2. stride * (i - 1) + 1 = 3
        BY <2>1, <4>1
      <4>3. At(txt, 3) = txt[3]
        BY <1>3, <3>1 DEF At
      <4>4. Nibble(At(txt, 3)) >= 0
        <5>1. Nibble(At(txt, stride * (i - 1) + 1)) = data[i] \div 16 /\ data[i] \div 16 >= 0
          BY <1>6
        <5>2. QED
          BY <4>2, <5>1
      <4>5. PICK z : z = Nibble(txt[3])
        OBVIOUS
      <4>6. z >= 0 /\ z \in Int
        <5>1. Nibble(At(txt, stride * (i - 1) + 1)) = data[i] \div 16
          BY <1>6
        <5>2. z = data[i] \div 16
          BY <4>2, <4>3, <4>5, <5>1
        <5>3. PICK b \in Byte : b = data[i]
          BY <1>1
        <5>4. b \div 16 \in Int
          BY DEF Byte
        <5>5. z >= 0
          BY <4>3, <4>4, <4>5
        <5>6. QED
          BY <5>2, <5>3, <5>4, <5>5
      <4>7. ~(z < 0)
        BY <4>6
      <4>8. QED
        BY <1>2, <2>1, <4>5, <4>7
    <3>2. CASE ~(len > 4)
      BY <1>2, <2>1, <3>2
    <3>3. QED
      BY <3>1, <3>2
  <2>2. CASE stride = 3
    <3>1. n > 1
      BY <1>1, <2>2
    <3>2. len > 4
      BY <1>4, <2>2, <3>1
    <3>3. PICK i \in 1 .. n : i = 1
      OBVIOUS
    <3>4. txt[3 * i] = 58
      BY <1>1, <2>2, <3>1, <3>3 DEF HexWritten
    <3>5. txt[3] = 58
      BY <3>3, <3>4
    <3>6. Nibble(58) = -1
      <4>1. 58 \notin 48 .. 57 /\ 58 \notin 65 .. 70 /\ 58 \notin 97 .. 102
        OBVIOUS
      <4>2. QED
        BY <4>1 DEF Nibble
    <3>7. QED
      BY <1>2, <2>2, <3>2, <3>5, <3>6
  <2>3. QED
    BY <2>1, <2>2
<1>8. (IF d = 0 THEN 2 ELSE 3) = stride
  BY <1>2
<1>9. len + stride - 2 = stride * n /\ (stride * n) \div stride = n /\ (stride * n) % stride = 0
  <2>1. len + stride - 2 = stride * n
    BY <1>4
  <2>2. (2 * n) \div 2 = n /\ (2 * n) % 2 = 0 /\ (3 * n) \div 3 = n /\ (3 * n) % 3 = 0
    OBVIOUS
  <2>3. QED
    BY <2>1, <2>2
<1>10. len >= 2
  <2>1. stride * (n - 1) >= 0 /\ stride * (n - 1) \in Int
    OBVIOUS
  <2>2. QED
    BY <1>4, <2>1
<1>11. \A i \in 1 .. n : i < n /\ d # 0 => txt[stride * i] = d
  BY <1>1, <1>2 DEF HexWritten
<1>12. [i \in 1 .. n |-> Nibble(At(txt, stride * (i - 1) + 1)) * 16
                           + Nibble(At(txt, stride * (i - 1) + 2))] = data
  <2>1. \A i \in 1 .. n : Nibble(At(txt, stride * (i - 1) + 1)) * 16
                           + Nibble(At(txt, stride * (i - 1) + 2)) = data[i]
    BY <1>6
  <2>2. data = [i \in 1 .. n |-> data[i]]
    BY <1>1
  <2>3. QED
    BY <2>1, <2>2
<1>13. \A i \in 1 .. n : /\ Nibble(At(txt, stride * (i - 1) + 1)) >= 0
                         /\ Nibble(At(txt, stride * (i - 1) + 2)) >= 0
  BY <1>6, ZenonT(40)
<1>14. HexParse(n, txt) = [fails |-> FALSE, delim |-> d, data |-> data]
  <2>1. DelimOf(txt) = d
    BY <1>3, <1>7 DEF DelimOf
  <2>2. HexParse(n, txt) = HexRead(n, txt, len, d, stride, (len + stride - 2) \div stride)
    BY <1>3, <1>8, <2>1, HexParseIs
  <2>3. (len + stride - 2) \div stride = n /\ (len + stride - 2) % stride = 0
    BY <1>9
  <2>4. HexTaken(txt, len, n, stride, d, n)
    <3>1. \A i \in 1 .. n :
            /\ Nibble(At(txt, stride * (i - 1) + 1)) >= 0
            /\ Nibble(At(txt, stride * (i - 1) + 2)) >= 0
            /\ i < n /\ d # 0 => txt[stride * i] = d
      BY <1>11, <1>13, Zenon
    <3>2. n >= n
      OBVIOUS
    <3>3. QED
      BY <1>10, <2>3, <3>1, <3>2, Zenon DEF HexTaken
  <2>5. HexBytes(txt, stride, n) = data
    BY <1>12 DEF HexBytes
  <2>6. QED
    BY <2>2, <2>3, <2>4, <2>5 DEF HexRead
<1>15. QED
  BY <1>1, <1>2, <1>14

HexLen(data, delim) == 2 * Len(data) + IF delim = 0 THEN 0 ELSE Len(data) - 1

LEMMA HexStringIs ==
  ASSUME NEW room, NEW data, NEW upper, NEW delim
  PROVE  HexString(room, data, upper, delim) =
           IF room <= HexLen(data, delim) \/ HexLen(data, delim) < 0 THEN Fail
           ELSE [fails |-> FALSE, text |-> HexText(data, upper, delim)]
  BY DEF HexString, HexLen, HexText, HexPiece

(* hex_parse gives back what hex_string was given. *)
HexAgrees(data, upper, delim, room) ==
  LET hex == HexString(room, data, upper, delim)
  IN IF hex.fails
     THEN room <= (IF delim = 0 THEN 2 * Len(data) ELSE 3 * Len(data) - 1) \/ data = <<>>
     ELSE data = <<>> \/ HexParse(Len(data), hex.text) =
                           [fails |-> FALSE, data |-> data,
                            delim |-> IF Len(data) = 1 THEN 0 ELSE delim]

LEMMA HexInverts ==
  ASSUME NEW data \in Seq(Byte), NEW upper \in BOOLEAN, NEW delim \in {0, 58}, NEW room \in Int
  PROVE  HexAgrees(data, upper, delim, room)
<1>1. CASE data = <<>>
  BY <1>1 DEF HexAgrees
<1>2. CASE data # <<>>
  <2>1. PICK n \in Nat \ {0} : n = Len(data)
    BY <1>2
  <2>2. PICK len : len = HexLen(data, delim)
    OBVIOUS
  <2>3. len = (IF delim = 0 THEN 2 * n ELSE 3 * n - 1) /\ len \in Nat
    <3>1. len = 2 * n + IF delim = 0 THEN 0 ELSE n - 1
      BY <2>1, <2>2 DEF HexLen
    <3>2. CASE delim = 0
      BY <3>1, <3>2
    <3>3. CASE delim # 0
      BY <3>1, <3>3
    <3>4. QED
      BY <3>2, <3>3
  <2>4. PICK hex : hex = HexString(room, data, upper, delim)
    OBVIOUS
  <2>5. hex = IF room <= len THEN Fail ELSE [fails |-> FALSE, text |-> HexText(data, upper, delim)]
    <3>1. ~(len < 0)
      BY <2>3
    <3>2. QED
      BY <2>2, <2>4, <3>1, HexStringIs
  <2>6. CASE room <= len
    <3>1. hex.fails /\ room <= IF delim = 0 THEN 2 * Len(data) ELSE 3 * Len(data) - 1
      BY <2>1, <2>3, <2>5, <2>6 DEF Fail
    <3>2. QED
      BY <2>4, <3>1 DEF HexAgrees
  <2>7. CASE ~(room <= len)
    <3>1. ~hex.fails /\ hex.text = HexText(data, upper, delim)
      BY <2>5, <2>7
    <3>2. PICK txt : txt = HexText(data, upper, delim)
      OBVIOUS
    <3>3. PICK stride \in {2, 3} : stride = IF delim = 0 THEN 2 ELSE 3
      OBVIOUS
    <3>4. HexWritten(txt, data, upper, stride, delim)
      BY <1>2, <3>2, <3>3, HexIsWritten
    <3>5. PICK dl : dl = IF n = 1 THEN 0 ELSE delim
      OBVIOUS
    <3>6. HexParse(n, txt) = [fails |-> FALSE, data |-> data, delim |-> dl]
      <4>1. CASE stride = 3 /\ n = 1
        <5>1. HexWritten(txt, data, upper, 2, 0)
          BY <2>1, <3>4, <4>1 DEF HexWritten
        <5>2. PICK two \in {2, 3} : two = 2 /\ (IF two = 2 THEN 0 ELSE 58) = 0 /\ two # 3
          OBVIOUS
        <5>3. HexWritten(txt, data, upper, two, IF two = 2 THEN 0 ELSE 58)
          BY <5>1, <5>2
        <5>4. HexParse(Len(data), txt) =
                [fails |-> FALSE, data |-> data, delim |-> IF two = 2 THEN 0 ELSE 58]
          BY <1>2, <5>2, <5>3, HexIsRead
        <5>5. QED
          BY <2>1, <3>5, <4>1, <5>2, <5>4
      <4>2. CASE ~(stride = 3 /\ n = 1)
        <5>1. (IF stride = 2 THEN 0 ELSE 58) = delim /\ dl = delim
          BY <3>3, <3>5, <4>2
        <5>2. HexWritten(txt, data, upper, stride, IF stride = 2 THEN 0 ELSE 58)
          BY <3>4, <5>1
        <5>3. stride = 3 => Len(data) > 1
          BY <2>1, <4>2
        <5>4. HexParse(Len(data), txt) =
                [fails |-> FALSE, data |-> data, delim |-> IF stride = 2 THEN 0 ELSE 58]
          BY <1>2, <5>2, <5>3, HexIsRead
        <5>5. QED
          BY <2>1, <5>1, <5>4
      <4>3. QED
        BY <4>1, <4>2
    <3>7. QED
      BY <2>1, <2>4, <3>1, <3>2, <3>5, <3>6 DEF HexAgrees
  <2>8. QED
    BY <2>6, <2>7
<1>3. QED
  BY <1>1, <1>2

-----------------------------------------------------------------------------
(* The URL coding: what a byte becomes, and what a turn of the decoder makes of it. *)
LEMMA FromHexIs ==
  ASSUME NEW x \in 0 .. 15
  PROVE  ToHex(x) \in Nat /\ FromHex(ToHex(x)) = x
<1>1. CASE x > 9
  <2>1. PICK c \in 65 .. 70 : c = x + 55
    BY <1>1
  <2>2. ToHex(x) = c
    BY <1>1, <2>1 DEF ToHex
  <2>3. c \in 65 .. 90
    OBVIOUS
  <2>4. FromHex(c) = c - 65 + 10
    <3>1. c \notin 97 .. 122 /\ ~Digit(c)
      BY DEF Digit
    <3>2. QED
      BY <2>3, <3>1 DEF FromHex
  <2>5. QED
    BY <2>1, <2>2, <2>4
<1>2. CASE ~(x > 9)
  <2>1. PICK c \in 48 .. 57 : c = x + 48
    BY <1>2
  <2>2. ToHex(x) = c
    BY <1>2, <2>1 DEF ToHex
  <2>3. FromHex(c) = c - 48
    <3>1. c \notin 65 .. 90 /\ c \notin 97 .. 122 /\ Digit(c)
      BY DEF Digit
    <3>2. QED
      BY <3>1 DEF FromHex
  <2>4. QED
    BY <2>1, <2>2, <2>3
<1>3. QED
  BY <1>1, <1>2

UrlPiece(c) ==
  IF IsPlain(c) THEN <<c>>
  ELSE IF c = 32 THEN <<43>>
  ELSE <<37, ToHex(c \div 16), ToHex(c % 16)>>

UrlReads(p, c) ==
  /\ p \in Seq(Nat) /\ Len(p) \in {1, 3}
  /\ IF Len(p) = 1 THEN p[1] # 37 /\ (IF p[1] = 43 THEN 32 ELSE p[1]) = c
     ELSE p[1] = 37 /\ (FromHex(p[2]) * 16 + FromHex(p[3])) % 256 = c

LEMMA UrlPieceIs ==
  ASSUME NEW c \in Byte
  PROVE  UrlReads(UrlPiece(c), c)
<1>0. c \in Nat /\ c <= 255
  BY DEF Byte
<1>1. CASE IsPlain(c)
  <2>1. c # 37 /\ c # 43
    BY <1>1 DEF IsPlain, Digit
  <2>2. PICK p : p = <<c>>
    OBVIOUS
  <2>3. p \in Seq(Nat) /\ Len(p) = 1 /\ p[1] = c
    BY <1>0, <2>2
  <2>4. UrlPiece(c) = p
    BY <1>1, <2>2 DEF UrlPiece
  <2>5. QED
    BY <2>1, <2>3, <2>4 DEF UrlReads
<1>2. CASE ~IsPlain(c) /\ c = 32
  <2>1. PICK p : p = <<43>>
    OBVIOUS
  <2>2. p \in Seq(Nat) /\ Len(p) = 1 /\ p[1] = 43
    BY <2>1
  <2>3. UrlPiece(c) = p
    BY <1>2, <2>1 DEF UrlPiece
  <2>4. QED
    BY <1>2, <2>2, <2>3 DEF UrlReads
<1>3. CASE ~IsPlain(c) /\ c # 32
  <2>1. PICK x \in 0 .. 15, y \in 0 .. 15 : x = c \div 16 /\ y = c % 16 /\ x * 16 + y = c
    BY <1>0
  <2>2. PICK u \in Nat, v \in Nat : u = ToHex(x) /\ v = ToHex(y) /\ FromHex(u) = x /\ FromHex(v) = y
    BY FromHexIs
  <2>3. PICK p : p = <<37, u, v>>
    OBVIOUS
  <2>4. p \in Seq(Nat) /\ Len(p) = 3 /\ p[1] = 37 /\ p[2] = u /\ p[3] = v
    BY <2>3
  <2>5. UrlPiece(c) = p
    BY <1>3, <2>1, <2>2, <2>3 DEF UrlPiece
  <2>6. (x * 16 + y) % 256 = c
    BY <1>0, <2>1
  <2>7. (FromHex(p[2]) * 16 + FromHex(p[3])) % 256 = c
    BY <2>2, <2>4, <2>6
  <2>8. Len(p) \in {1, 3} /\ ~(Len(p) = 1)
    BY <2>4
  <2>9. UrlReads(p, c)
    BY <2>4, <2>7, <2>8 DEF UrlReads
  <2>10. QED
    BY <2>5, <2>9
<1>4. QED
  BY <1>1, <1>2, <1>3

LEMMA FromHexIsNat ==
  ASSUME NEW x \in Nat
  PROVE  FromHex(x) \in Nat
<1>1. CASE x \in 65 .. 90
  BY <1>1 DEF FromHex
<1>2. CASE x \notin 65 .. 90 /\ x \in 97 .. 122
  BY <1>2 DEF FromHex
<1>3. CASE x \notin 65 .. 90 /\ x \notin 97 .. 122 /\ Digit(x)
  BY <1>3 DEF FromHex, Digit
<1>4. CASE x \notin 65 .. 90 /\ x \notin 97 .. 122 /\ ~Digit(x)
  BY <1>4 DEF FromHex, Digit
<1>5. QED
  BY <1>1, <1>2, <1>3, <1>4

UrlState == [i : Nat \ {0}, out : Seq(Nat)]

LEMMA AtIsNat ==
  ASSUME NEW s \in Seq(Nat), NEW i \in Int
  PROVE  At(s, i) \in Nat
  BY DEF At

LEMMA AppendIs ==
  ASSUME NEW S, NEW s \in Seq(S), NEW e \in S
  PROVE  /\ Append(s, e) \in Seq(S) /\ Len(Append(s, e)) = Len(s) + 1
         /\ Append(s, e)[Len(s) + 1] = e /\ \A i \in 1 .. Len(s) : Append(s, e)[i] = s[i]
  OBVIOUS

LEMMA UrlTurnIs ==
  ASSUME NEW s \in Seq(Nat), NEW was \in UrlState
  PROVE  UrlTurn(s, was) \in UrlState
<1>1. PICK i \in Nat \ {0}, sofar \in Seq(Nat) : i = was.i /\ sofar = was.out
  BY DEF UrlState
<1>2. PICK c \in Nat : c = At(s, i)
  BY AtIsNat
<1>3. PICK x \in Nat : x = (FromHex(At(s, i + 1)) * 16 + FromHex(At(s, i + 2))) % 256
  <2>1. At(s, i + 1) \in Nat /\ At(s, i + 2) \in Nat
    <3>1. PICK j \in Int, k \in Int : j = i + 1 /\ k = i + 2
      OBVIOUS
    <3>2. At(s, j) \in Nat /\ At(s, k) \in Nat
      BY AtIsNat
    <3>3. QED
      BY <3>1, <3>2
  <2>2. PICK u \in Nat, v \in Nat : u = FromHex(At(s, i + 1)) /\ v = FromHex(At(s, i + 2))
    BY <2>1, FromHexIsNat
  <2>3. (u * 16 + v) % 256 \in Nat
    OBVIOUS
  <2>4. QED
    BY <2>2, <2>3
<1>4. PICK y \in Nat : y = IF c = 43 THEN 32 ELSE c
  OBVIOUS
<1>5. CASE i > Len(s)
  BY <1>1, <1>5 DEF UrlTurn
<1>6. CASE ~(i > Len(s)) /\ c = 37
  <2>1. UrlTurn(s, was) = [i |-> i + 3, out |-> Append(sofar, x)]
    BY <1>1, <1>2, <1>3, <1>6 DEF UrlTurn
  <2>2. Append(sofar, x) \in Seq(Nat)
    OBVIOUS
  <2>3. QED
    BY <2>1, <2>2 DEF UrlState
<1>7. CASE ~(i > Len(s)) /\ c # 37
  <2>1. UrlTurn(s, was) = [i |-> i + 1, out |-> Append(sofar, y)]
    BY <1>1, <1>2, <1>4, <1>7 DEF UrlTurn
  <2>2. Append(sofar, y) \in Seq(Nat)
    OBVIOUS
  <2>3. QED
    BY <2>1, <2>2 DEF UrlState
<1>8. QED
  BY <1>5, <1>6, <1>7

PieceAt(s, o, p) ==
  o + Len(p) <= Len(s) /\ \A k \in 1 .. Len(p) : s[o + k] = p[k]

TurnGives(s, o, sofar, p, c) ==
  UrlTurn(s, [i |-> o + 1, out |-> sofar]) = [i |-> o + Len(p) + 1, out |-> Append(sofar, c)]

(* A piece of the text is one turn, which gives its byte. *)
LEMMA UrlTurnReads ==
  ASSUME NEW s \in Seq(Nat), NEW o \in Nat, NEW sofar \in Seq(Nat), NEW c \in Byte,
         NEW p, UrlReads(p, c), PieceAt(s, o, p)
  PROVE  TurnGives(s, o, sofar, p, c)
<1>1. PICK l \in {1, 3} : l = Len(p)
  BY DEF UrlReads
<1>2. PICK m \in Nat : m = Len(s) /\ DOMAIN s = 1 .. m
  OBVIOUS
<1>3. ASSUME NEW k \in 1 .. l PROVE At(s, o + k) = p[k]
  <2>1. o + k \in 1 .. m
    BY <1>1, <1>2 DEF PieceAt
  <2>2. At(s, o + k) = s[o + k]
    BY <1>2, <2>1 DEF At
  <2>3. QED
    BY <1>1, <2>2 DEF PieceAt
<1>4. At(s, o + 1) = p[1] /\ ~(o + 1 > Len(s))
  <2>1. o + 1 <= Len(s)
    <3>1. o + l <= m
      BY <1>1, <1>2 DEF PieceAt
    <3>2. QED
      BY <1>2, <3>1
  <2>2. 1 \in 1 .. l
    OBVIOUS
  <2>3. QED
    BY <1>2, <1>3, <2>1, <2>2
<1>5. PICK was : was = [i |-> o + 1, out |-> sofar]
  OBVIOUS
<1>6. was.i = o + 1 /\ was.out = sofar
  BY <1>5
<1>7. CASE l = 1
  <2>1. p[1] # 37 /\ (IF p[1] = 43 THEN 32 ELSE p[1]) = c
    BY <1>1, <1>7 DEF UrlReads
  <2>2. UrlTurn(s, was) = [i |-> o + 1 + 1, out |-> Append(sofar, c)]
    BY <1>4, <1>6, <2>1, ZenonT(40) DEF UrlTurn
  <2>3. o + 1 + 1 = o + Len(p) + 1
    BY <1>1, <1>7
  <2>4. QED
    BY <1>5, <2>2, <2>3 DEF TurnGives
<1>8. CASE l = 3
  <2>1. p[1] = 37 /\ (FromHex(p[2]) * 16 + FromHex(p[3])) % 256 = c
    BY <1>1, <1>8 DEF UrlReads
  <2>2. At(s, o + 2) = p[2] /\ At(s, o + 3) = p[3]
    BY <1>3, <1>8
  <2>3. o + 1 + 1 = o + 2 /\ o + 1 + 2 = o + 3
    OBVIOUS
  <2>4. UrlTurn(s, was) = [i |-> o + 1 + 3, out |-> Append(sofar, c)]
    <3>1. At(s, was.i + 1) = p[2] /\ At(s, was.i + 2) = p[3]
      BY <1>6, <2>2, <2>3
    <3>2. At(s, was.i) = 37 /\ ~(was.i > Len(s))
      BY <1>4, <1>6, <2>1
    <3>3. UrlTurn(s, was) =
            [i   |-> was.i + 3,
             out |-> Append(was.out, (FromHex(At(s, was.i + 1)) * 16 + FromHex(At(s, was.i + 2))) % 256)]
      BY <3>2 DEF UrlTurn
    <3>4. QED
      BY <1>6, <2>1, <3>1, <3>3
  <2>5. o + 1 + 3 = o + Len(p) + 1
    BY <1>1, <1>8
  <2>6. QED
    BY <1>5, <2>4, <2>5 DEF TurnGives
<1>9. QED
  BY <1>7, <1>8 DEF TurnGives

(* Where the piece of each byte ends. *)
LEMMA EndsExist ==
  ASSUME NEW S, NEW n \in Nat, NEW s \in [1 .. n -> Seq(S)], \A i \in 1 .. n : Len(s[i]) > 0
  PROVE  \E off \in [0 .. n -> Nat] : Ends(s, off, n) /\ off[n] >= n
<1>1. PICK G : G = [i \in 1 .. n |-> [x \in Nat |-> x + Len(s[i])]]
  OBVIOUS
<1>2. G \in [1 .. n -> [Nat -> Nat]]
  <2>1. ASSUME NEW i \in 1 .. n PROVE [x \in Nat |-> x + Len(s[i])] \in [Nat -> Nat]
    <3>1. Len(s[i]) \in Nat
      OBVIOUS
    <3>2. QED
      BY <3>1
  <2>2. QED
    BY <1>1, <2>1
<1>3. 0 \in Nat
  OBVIOUS
<1>4. PICK off \in [0 .. n -> Nat] : Steps(off, n, 0, G)
  BY <1>2, <1>3, StepsExist
<1>5. off[0] = 0 /\ \A j \in 1 .. n : off[j] = G[j][off[j - 1]]
  <2>1. \A j \in 0 .. n : off[j] = IF j = 0 THEN 0 ELSE G[j][off[j - 1]]
    BY <1>4 DEF Steps
  <2>2. 0 \in 0 .. n /\ \A j \in 1 .. n : j \in 0 .. n /\ j # 0
    OBVIOUS
  <2>3. QED
    BY <2>1, <2>2
<1>6. ASSUME NEW j \in 1 .. n PROVE off[j] = off[j - 1] + Len(s[j])
  <2>1. PICK x \in Nat : x = off[j - 1]
    BY <1>4
  <2>2. G[j][x] = x + Len(s[j])
    BY <1>1
  <2>3. QED
    BY <1>5, <2>1, <2>2
<1>7. Ends(s, off, n)
  BY <1>5, <1>6 DEF Ends
<1>8. \A j \in 0 .. n : off[j] >= j
  <2>1. PICK T : T = {j \in 0 .. n : ~(off[j] >= j)}
    OBVIOUS
  <2>2. CASE T # {}
    <3>1. T \subseteq Nat
      BY <2>1
    <3>2. PICK j \in T : \A k \in T : j <= k
      BY <2>2, <3>1, Least
    <3>3. j \in 0 .. n /\ ~(off[j] >= j)
      BY <2>1
    <3>4. j # 0
      BY <1>5, <3>3
    <3>5. j \in 1 .. n /\ j - 1 \in 0 .. n /\ ~(j <= j - 1)
      BY <3>3, <3>4
    <3>6. j - 1 \notin T
      BY <3>2, <3>5
    <3>7. off[j - 1] >= j - 1
      BY <2>1, <3>5, <3>6
    <3>8. Len(s[j]) > 0 /\ Len(s[j]) \in Nat /\ off[j - 1] \in Nat
      BY <1>4, <3>5
    <3>9. off[j] = off[j - 1] + Len(s[j])
      BY <1>6, <3>5
    <3>10. QED
      BY <3>3, <3>7, <3>8, <3>9
  <2>3. QED
    BY <2>1, <2>2
<1>9. QED
  BY <1>4, <1>7, <1>8

TurnsOfUrl(t, s) ==
  t = [n \in 0 .. Len(s) |-> IF n = 0 THEN [i |-> 1, out |-> <<>>] ELSE UrlTurn(s, t[n - 1])]

LEMMA UrlDecodeIs ==
  ASSUME NEW s
  PROVE  UrlDecode(s) = (CHOOSE t : TurnsOfUrl(t, s))[Len(s)].out
  BY DEF UrlDecode, TurnsOfUrl

(* After k turns the first k bytes have been given. *)
UrlSoFar(t, off, data, k) ==
  /\ t[k].i = off[k] + 1 /\ t[k].out \in Seq(Byte)
  /\ HeadRow(t[k].out, data, k)

LEMMA UrlInverts ==
  ASSUME NEW data \in Seq(Byte)
  PROVE  UrlDecode(UrlEncode(data)) = data
<1>1. PICK n \in Nat : n = Len(data) /\ DOMAIN data = 1 .. n
  OBVIOUS
<1>2. PICK p : p = [i \in 1 .. n |-> UrlPiece(data[i])]
  OBVIOUS
<1>3. ASSUME NEW i \in 1 .. n PROVE UrlReads(p[i], data[i]) /\ data[i] \in Byte
  <2>1. PICK c \in Byte : c = data[i]
    BY <1>1
  <2>2. UrlReads(UrlPiece(c), c)
    BY UrlPieceIs
  <2>3. QED
    BY <1>2, <2>1, <2>2
<1>4. p \in [1 .. n -> Seq(Nat)] /\ \A i \in 1 .. n : Len(p[i]) > 0
  <2>1. ASSUME NEW i \in 1 .. n PROVE p[i] \in Seq(Nat) /\ Len(p[i]) > 0
    BY <1>3 DEF UrlReads
  <2>2. QED
    BY <1>2, <2>1
<1>5. PICK off \in [0 .. n -> Nat] : Ends(p, off, n) /\ off[n] >= n
  BY <1>4, EndsExist
<1>6. PICK s \in Seq(Nat) : s = FlattenSeq(p) /\ Holding(s, p, off, n)
  BY <1>4, <1>5, FlattenIs
<1>7. s = UrlEncode(data)
  BY <1>1, <1>2, <1>6 DEF UrlEncode, UrlPiece
<1>8. PICK l \in Nat : l = Len(s) /\ l = off[n] /\ l >= n
  BY <1>5, <1>6 DEF Holding
<1>9. PICK G : G = [i \in 1 .. l |-> [x \in UrlState |-> UrlTurn(s, x)]]
  OBVIOUS
<1>10. G \in [1 .. l -> [UrlState -> UrlState]]
  <2>1. [x \in UrlState |-> UrlTurn(s, x)] \in [UrlState -> UrlState]
    BY UrlTurnIs
  <2>2. QED
    BY <1>9, <2>1
<1>11. PICK a \in UrlState : a = [i |-> 1, out |-> <<>>]
  <2>1. <<>> \in Seq(Nat) /\ 1 \in Nat \ {0}
    OBVIOUS
  <2>2. QED
    BY <2>1 DEF UrlState
<1>12. PICK h \in [0 .. l -> UrlState] : Steps(h, l, a, G)
  BY <1>10, StepsExist
<1>13. ASSUME NEW k \in 0 .. l PROVE h[k] = IF k = 0 THEN a ELSE UrlTurn(s, h[k - 1])
  <2>1. CASE k = 0
    BY <1>12, <2>1 DEF Steps
  <2>2. CASE k # 0
    <3>1. k \in 1 .. l /\ k - 1 \in 0 .. l
      BY <2>2
    <3>2. PICK x \in UrlState : x = h[k - 1]
      BY <1>12, <3>1
    <3>3. h[k] = G[k][x]
      BY <1>12, <2>2, <3>2 DEF Steps
    <3>4. G[k][x] = UrlTurn(s, x)
      BY <1>9, <3>1
    <3>5. QED
      BY <2>2, <3>2, <3>3, <3>4
  <2>3. QED
    BY <2>1, <2>2
<1>14. TurnsOfUrl(h, s)
  <2>1. h = [k \in 0 .. l |-> h[k]]
    BY <1>12
  <2>2. QED
    BY <1>8, <1>11, <1>13, <2>1 DEF TurnsOfUrl
<1>15. PICK t : t = CHOOSE x : TurnsOfUrl(x, s)
  OBVIOUS
<1>16. TurnsOfUrl(t, s)
  BY <1>14, <1>15
<1>17. ASSUME NEW k \in 0 .. l PROVE t[k] = IF k = 0 THEN a ELSE UrlTurn(s, t[k - 1])
  BY <1>8, <1>11, <1>16 DEF TurnsOfUrl
<1>18. ASSUME NEW k \in 1 .. n, UrlSoFar(t, off, data, k - 1), DOMAIN t[k - 1] = {"i", "out"},
              t[k - 1] = [i |-> t[k - 1].i, out |-> t[k - 1].out]
       PROVE  UrlSoFar(t, off, data, k)
  <2>1. PICK o \in Nat : o = off[k - 1]
    BY <1>5
  <2>2. PICK sofar \in Seq(Byte) : sofar = t[k - 1].out /\ Len(sofar) = k - 1
                                 /\ \A i \in 1 .. k - 1 : sofar[i] = data[i]
    BY <1>18 DEF UrlSoFar, HeadRow
  <2>0. PICK c \in Byte : c = data[k]
    BY <1>3
  <2>3. PICK q : c = data[k] /\ q = p[k] /\ UrlReads(q, c)
    BY <1>3, <2>0
  <2>4. ASSUME NEW i \in 1 .. Len(q) PROVE o + i \in 1 .. l /\ s[o + i] = q[i]
    <3>1. Len(q) \in Nat
      BY <2>3 DEF UrlReads
    <3>2. i \in Nat \ {0} /\ i <= Len(p[k])
      BY <2>3, <3>1
    <3>3. off[k - 1] + i \in 1 .. off[n] /\ s[off[k - 1] + i] = p[k][i]
      BY <1>6, <3>2 DEF Holding
    <3>4. QED
      BY <1>8, <2>1, <2>3, <3>3
  <2>5. PICK m \in {1, 3} : m = Len(q)
    BY <2>3 DEF UrlReads
  <2>6. o + Len(q) <= Len(s)
    <3>1. o + m \in 1 .. l
      BY <2>4, <2>5, SMTT(30)
    <3>2. QED
      BY <1>8, <2>5, <3>1
  <2>7. sofar \in Seq(Nat)
    <3>1. Byte \subseteq Nat
      BY DEF Byte
    <3>2. QED
      BY <3>1, WiderRow
  <2>8. UrlTurn(s, [i |-> o + 1, out |-> sofar]) = [i |-> o + Len(q) + 1, out |-> Append(sofar, c)]
    <3>1. PieceAt(s, o, q)
      BY <2>4, <2>6 DEF PieceAt
    <3>2. QED
      <4>1. UrlReads(q, c) /\ PieceAt(s, o, q) /\ sofar \in Seq(Nat)
        BY <2>3, <2>7, <3>1
      <4>2. QED
        <5>1. TurnGives(s, o, sofar, q, c)
          BY <4>1, UrlTurnReads
        <5>2. QED
          BY <5>1 DEF TurnGives
  <2>9. t[k - 1] = [i |-> o + 1, out |-> sofar]
    BY <1>18, <2>1, <2>2 DEF UrlSoFar
  <2>10. t[k] = [i |-> o + Len(q) + 1, out |-> Append(sofar, c)]
    <3>1. k \in 0 .. l /\ k # 0
      BY <1>8
    <3>2. t[k] = UrlTurn(s, t[k - 1])
      BY <1>17, <3>1
    <3>3. QED
      BY <2>8, <2>9, <3>2
  <2>11. off[k] = o + m
    BY <1>5, <2>1, <2>3, <2>5 DEF Ends
  <2>12. t[k].i = off[k] + 1
    BY <2>5, <2>10, <2>11
  <2>13. PICK x : x = Append(sofar, c)
    OBVIOUS
  <2>14. x \in Seq(Byte) /\ Len(x) = Len(sofar) + 1 /\ x[Len(sofar) + 1] = c
         /\ \A i \in 1 .. Len(sofar) : x[i] = sofar[i]
    BY <2>13, AppendIs
  <2>15. Len(x) = k /\ x[k] = data[k] /\ \A i \in 1 .. k - 1 : x[i] = data[i]
    <3>1. Len(sofar) + 1 = k /\ Len(sofar) = k - 1
      BY <2>2
    <3>2. Len(x) = k /\ x[k] = c /\ \A i \in 1 .. k - 1 : x[i] = sofar[i]
      BY <2>14, <3>1
    <3>3. QED
      BY <2>2, <2>3, <3>2
  <2>16. HeadRow(x, data, k)
    <3>1. \A i \in 1 .. k : i = k \/ i \in 1 .. k - 1
      OBVIOUS
    <3>2. QED
      BY <2>15, <3>1 DEF HeadRow
  <2>17. t[k].out = x
    BY <2>10, <2>13
  <2>18. QED
    BY <2>12, <2>14, <2>16, <2>17 DEF UrlSoFar
<1>19. \A k \in 0 .. n : UrlSoFar(t, off, data, k) /\ t[k] \in UrlState
  <2>1. PICK T : T = {k \in 0 .. n : ~(UrlSoFar(t, off, data, k) /\ t[k] \in UrlState)}
    OBVIOUS
  <2>2. CASE T # {}
    <3>1. T \subseteq Nat
      BY <2>1
    <3>2. PICK k \in T : \A j \in T : k <= j
      BY <2>2, <3>1, Least
    <3>3. k \in 0 .. n /\ ~(UrlSoFar(t, off, data, k) /\ t[k] \in UrlState)
      BY <2>1
    <3>4. k # 0
      <4>1. t[0] = a
        BY <1>17
      <4>2. t[0].i = 1 /\ t[0].out = <<>> /\ off[0] = 0
        BY <1>5, <1>11, <4>1 DEF Ends
      <4>3. UrlSoFar(t, off, data, 0)
        <5>1. <<>> \in Seq(Byte) /\ Len(<<>>) = 0
          OBVIOUS
        <5>2. HeadRow(<<>>, data, 0)
          BY <5>1 DEF HeadRow
        <5>3. QED
          BY <4>2, <5>1, <5>2 DEF UrlSoFar
      <4>4. QED
        BY <3>3, <4>1, <4>3
    <3>5. k \in 1 .. n /\ k - 1 \in 0 .. n /\ ~(k <= k - 1)
      BY <3>3, <3>4
    <3>6. k - 1 \notin T
      BY <3>2, <3>5
    <3>7. UrlSoFar(t, off, data, k - 1) /\ t[k - 1] \in UrlState
      BY <2>1, <3>5, <3>6
    <3>8. DOMAIN t[k - 1] = {"i", "out"} /\ t[k - 1] = [i |-> t[k - 1].i, out |-> t[k - 1].out]
      BY <3>7 DEF UrlState
    <3>9. UrlSoFar(t, off, data, k)
      BY <1>18, <3>5, <3>7, <3>8
    <3>10. t[k] \in UrlState
      <4>1. k \in 0 .. l /\ k # 0
        BY <1>8, <3>5
      <4>2. t[k] = UrlTurn(s, t[k - 1])
        BY <1>17, <4>1
      <4>3. QED
        BY <3>7, <4>2, UrlTurnIs
    <3>11. QED
      BY <3>3, <3>9, <3>10
  <2>3. QED
    BY <2>1, <2>2
<1>20. \A k \in n .. l : t[k] = t[n]
  <2>1. PICK T : T = {k \in n .. l : t[k] # t[n]}
    OBVIOUS
  <2>2. CASE T # {}
    <3>1. T \subseteq Nat
      BY <2>1
    <3>2. PICK k \in T : \A j \in T : k <= j
      BY <2>2, <3>1, Least
    <3>3. k \in n .. l /\ t[k] # t[n]
      BY <2>1
    <3>4. k # n
      BY <3>3
    <3>5. k \in 0 .. l /\ k # 0 /\ k - 1 \in n .. l /\ ~(k <= k - 1)
      BY <3>3, <3>4
    <3>6. k - 1 \notin T
      BY <3>2, <3>5
    <3>7. t[k - 1] = t[n]
      BY <2>1, <3>5, <3>6
    <3>8. t[k] = UrlTurn(s, t[k - 1])
      BY <1>17, <3>5
    <3>9. t[n].i = off[n] + 1
      <4>1. n \in 0 .. n
        OBVIOUS
      <4>2. QED
        BY <1>19, <4>1 DEF UrlSoFar
    <3>10. t[n].i > Len(s)
      BY <1>8, <3>9
    <3>11. UrlTurn(s, t[n]) = t[n]
      BY <3>10 DEF UrlTurn
    <3>12. QED
      BY <3>3, <3>7, <3>8, <3>11
  <2>3. QED
    BY <2>1, <2>2
<1>21. t[l].out = t[n].out
  <2>1. l \in n .. l
    BY <1>8
  <2>2. QED
    BY <1>20, <2>1
<1>22. PICK x \in Seq(Byte) : x = t[n].out /\ Len(x) = n /\ \A i \in 1 .. n : x[i] = data[i]
  <2>1. n \in 0 .. n
    OBVIOUS
  <2>2. UrlSoFar(t, off, data, n)
    BY <1>19, <2>1
  <2>3. QED
    BY <2>2 DEF UrlSoFar, HeadRow
<1>23. x = data
  BY <1>1, <1>22, SeqEqual
<1>24. UrlDecode(s) = t[l].out
  BY <1>8, <1>15, UrlDecodeIs
<1>25. QED
  BY <1>7, <1>21, <1>22, <1>23, <1>24

(* Every row of bytes is given back by every decoder. *)
LEMMA AllDecode ==
  ASSUME NEW data \in Seq(Byte)
  PROVE  Decodes(data)
<1>1. PICK txt : txt = Base64encode(data).text
  OBVIOUS
<1>2. /\ Len(txt) = 4 * ((Len(data) + 2) \div 3) /\ Base64encode(data).ret = Len(txt) + 1
      /\ IsCoded(Coded(txt), data)
  BY <1>1, EncodesGroups
<1>3. /\ Base64decode(txt).data = data /\ Base64decode(txt).ret = Len(data)
      /\ Base64decode(txt).ret < Base64decode_len(txt)
  BY <1>2, Base64Inverts
<1>4. Base64encode(data).ret = Base64encode_len(Len(data))
  BY <1>2 DEF Base64encode_len
<1>5. UrlDecode(UrlEncode(data)) = data
  BY UrlInverts
<1>6. ASSUME NEW upper \in BOOLEAN, NEW delim \in {0, 58}, NEW room \in 0 .. 3 * Len(data) + 1
      PROVE  HexAgrees(data, upper, delim, room)
  BY HexInverts
<1>7. QED
  BY <1>1, <1>3, <1>4, <1>5, <1>6 DEF Decodes, HexAgrees

-----------------------------------------------------------------------------
(* The addresses of main.cpp.  The next dot is the first one from a place on. *)
LEMMA LowestIs ==
  ASSUME NEW T, T \subseteq Nat, T # {}
  PROVE  Min(T) \in T /\ \A x \in T : Min(T) <= x
<1>1. PICK m \in T : \A x \in T : m <= x
  BY Least
<1>2. PICK n : n = CHOOSE x \in T : \A y \in T : x <= y
  OBVIOUS
<1>3. n \in T /\ \A y \in T : n <= y
  BY <1>1, <1>2
<1>4. QED
  BY <1>2, <1>3 DEF Min

LEMMA NextDotIs ==
  ASSUME NEW dots, dots \subseteq Nat \ {0}, NEW s \in Nat
  PROVE  LET n == NextDot(dots, s) IN
         IF n = 0 THEN \A x \in dots : x < s
         ELSE n \in dots /\ n >= s /\ \A x \in dots : x < s \/ n <= x
<1>1. PICK later : later = {x \in dots : x >= s}
  OBVIOUS
<1>2. CASE later = {}
  <2>1. NextDot(dots, s) = 0
    BY <1>1, <1>2 DEF NextDot
  <2>2. \A x \in dots : x < s
    BY <1>1, <1>2
  <2>3. QED
    BY <2>1, <2>2
<1>3. CASE later # {}
  <2>1. later \subseteq Nat
    BY <1>1
  <2>2. PICK n : n = Min(later)
    OBVIOUS
  <2>3. n \in later /\ \A x \in later : n <= x
    BY <1>3, <2>1, <2>2, LowestIs
  <2>4. NextDot(dots, s) = n
    BY <1>1, <1>3, <2>2 DEF NextDot
  <2>5. n \in dots /\ n >= s /\ n # 0
    BY <1>1, <2>3
  <2>6. ASSUME NEW x \in dots PROVE x < s \/ n <= x
    <3>1. CASE x \in later
      BY <2>3, <3>1
    <3>2. CASE x \notin later
      BY <1>1, <3>2
    <3>3. QED
      BY <3>1, <3>2
  <2>7. QED
    BY <2>4, <2>5, <2>6
<1>4. QED
  BY <1>2, <1>3

(* The next dot of three. *)
LEMMA NextOfThree ==
  ASSUME NEW dots, dots \subseteq Nat \ {0}, NEW s \in Nat, NEW n \in dots, n >= s,
         \A x \in dots : x < s \/ n <= x
  PROVE  NextDot(dots, s) = n
<1>1. PICK m : m = NextDot(dots, s)
  OBVIOUS
<1>2. IF m = 0 THEN \A x \in dots : x < s
      ELSE m \in dots /\ m >= s /\ \A x \in dots : x < s \/ m <= x
  BY <1>1, NextDotIs
<1>3. m # 0
  BY <1>2
<1>4. m \in dots /\ m \in Nat /\ n \in Nat /\ m >= s /\ (n < s \/ m <= n) /\ (m < s \/ n <= m)
  BY <1>2, <1>3
<1>5. QED
  BY <1>1, <1>4

LEMMA ThreeAre ==
  ASSUME NEW p, NEW q, NEW r, p # q, p # r, q # r
  PROVE  Cardinality({p, q, r}) = 3
<1>1. IsFiniteSet({p}) /\ Cardinality({p}) = 1
  BY FS_Singleton
<1>2. PICK s : s = {p} \cup {q}
  OBVIOUS
<1>3. q \notin {p} /\ r \notin s
  BY <1>2
<1>4. IsFiniteSet(s) /\ Cardinality(s) = 2
  BY <1>1, <1>2, <1>3, FS_AddElement
<1>5. Cardinality(s \cup {r}) = 3
  BY <1>3, <1>4, FS_AddElement
<1>6. {p, q, r} = s \cup {r}
  BY <1>2
<1>7. QED
  BY <1>5, <1>6

PartsOfFour(ip, dots) ==
  \E p, q, r \in dots :
    dots = {p, q, r} /\ 1 < p /\ p + 1 < q /\ q + 1 < r /\ r < Len(ip)
DotsLead(ip, dots) ==
  LET dot1 == NextDot(dots, 1)
      dot2 == NextDot(dots, dot1 + 1)
      dot3 == NextDot(dots, dot2 + 1)
  IN Cardinality(dots) < 4 /\ dot1 > 1 /\ dot2 > dot1 + 1 /\ dot3 > dot2 + 1 /\ dot3 < Len(ip)

LEMMA FourParts ==
  ASSUME NEW ip, NEW l \in Nat, Len(ip) = l, NEW dots, dots \subseteq 1 .. l
  PROVE  DotsLead(ip, dots) <=> PartsOfFour(ip, dots)
<1>0. dots \subseteq Nat \ {0} /\ IsFiniteSet(dots) /\ Cardinality(dots) \in Nat
  <2>1. IsFiniteSet(1 .. l)
    BY FS_Interval
  <2>2. IsFiniteSet(dots)
    BY <2>1, FS_Subset
  <2>3. QED
    BY <2>2, FS_CardinalityType
<1>1. ASSUME DotsLead(ip, dots) PROVE PartsOfFour(ip, dots)
  <2>1. PICK p, q, r : p = NextDot(dots, 1) /\ q = NextDot(dots, p + 1) /\ r = NextDot(dots, q + 1)
    OBVIOUS
  <2>2. Cardinality(dots) < 4 /\ p > 1 /\ q > p + 1 /\ r > q + 1 /\ r < l
    BY <1>1, <2>1 DEF DotsLead
  <2>3. p \in dots
    <3>1. p = 0 \/ p \in dots
      BY <1>0, <2>1, NextDotIs
    <3>2. QED
      BY <2>2, <3>1
  <2>4. p \in Nat /\ p + 1 \in Nat
    BY <1>0, <2>3
  <2>5. q \in dots
    <3>1. q = 0 \/ q \in dots
      BY <1>0, <2>1, <2>4, NextDotIs
    <3>2. QED
      BY <2>2, <2>4, <3>1
  <2>6. q \in Nat /\ q + 1 \in Nat
    BY <1>0, <2>5
  <2>7. r \in dots
    <3>1. r = 0 \/ r \in dots
      BY <1>0, <2>1, <2>6, NextDotIs
    <3>2. QED
      BY <2>2, <2>6, <3>1
  <2>8. p # q /\ p # r /\ q # r
    BY <1>0, <2>2, <2>3, <2>5, <2>7
  <2>9. dots = {p, q, r}
    <3>1. PICK T : T = {p, q, r}
      OBVIOUS
    <3>2. Cardinality(T) = 3
      BY <2>8, <3>1, ThreeAre
    <3>3. T \subseteq dots
      BY <2>3, <2>5, <2>7, <3>1
    <3>4. T \in SUBSET dots
      BY <3>3
    <3>5. Cardinality(T) <= Cardinality(dots) /\ (Cardinality(dots) = Cardinality(T) => dots = T)
      BY <1>0, <3>4, FS_Subset
    <3>6. Cardinality(dots) = 3
      BY <1>0, <2>2, <3>2, <3>5
    <3>7. QED
      BY <3>1, <3>2, <3>5, <3>6
  <2>10. QED
    BY <2>2, <2>3, <2>5, <2>7, <2>9 DEF PartsOfFour
<1>2. ASSUME PartsOfFour(ip, dots) PROVE DotsLead(ip, dots)
  <2>1. PICK p \in dots, q \in dots, r \in dots :
          dots = {p, q, r} /\ 1 < p /\ p + 1 < q /\ q + 1 < r /\ r < l
    BY <1>2 DEF PartsOfFour
  <2>2. p \in Nat /\ q \in Nat /\ r \in Nat
    BY <1>0
  <2>3. NextDot(dots, 1) = p
    <3>1. p >= 1 /\ \A x \in dots : x < 1 \/ p <= x
      BY <2>1, <2>2
    <3>2. QED
      BY <1>0, <3>1, NextOfThree
  <2>4. NextDot(dots, p + 1) = q
    <3>1. p + 1 \in Nat /\ q >= p + 1 /\ \A x \in dots : x < p + 1 \/ q <= x
      BY <2>1, <2>2
    <3>2. QED
      BY <1>0, <3>1, NextOfThree
  <2>5. NextDot(dots, q + 1) = r
    <3>1. q + 1 \in Nat /\ r >= q + 1 /\ \A x \in dots : x < q + 1 \/ r <= x
      BY <2>1, <2>2
    <3>2. QED
      BY <1>0, <3>1, NextOfThree
  <2>6. Cardinality(dots) <= 3
    <3>1. p # q /\ p # r /\ q # r
      BY <2>1, <2>2
    <3>2. Cardinality({p, q, r}) = 3
      BY <3>1, ThreeAre
    <3>3. QED
      BY <2>1, <3>2
  <2>7. QED
    BY <1>0, <2>1, <2>2, <2>3, <2>4, <2>5, <2>6 DEF DotsLead
<1>3. QED
  BY <1>1, <1>2

LEMMA ValidIpIs ==
  ASSUME NEW ip \in Seq(Nat), NEW dots, dots = {i \in DOMAIN ip : ip[i] = Dot}
  PROVE  ValidIp(ip) <=> /\ Len(ip) \in 7 .. 17 /\ \A i \in DOMAIN ip \ dots : ip[i] \in Digits
                         /\ PartsOfFour(ip, dots)
<1>1. PICK l \in Nat : l = Len(ip) /\ DOMAIN ip = 1 .. l
  OBVIOUS
<1>2. dots \subseteq 1 .. l
  BY <1>1
<1>3. DotsLead(ip, dots) <=> PartsOfFour(ip, dots)
  BY <1>1, <1>2, FourParts
<1>4. ValidIp(ip) <=> /\ Len(ip) \in 7 .. 17 /\ \A i \in DOMAIN ip : ip[i] \in Digits \cup {Dot}
                      /\ DotsLead(ip, dots)
  BY DEF ValidIp, DotsLead
<1>5. (\A i \in DOMAIN ip : ip[i] \in Digits \cup {Dot}) <=> \A i \in DOMAIN ip \ dots : ip[i] \in Digits
  OBVIOUS
<1>6. QED
  BY <1>3, <1>4, <1>5

LEMMA ValidMacIs ==
  ASSUME NEW mac \in Seq(Nat)
  PROVE  /\ ValidMac(mac).ok \in BOOLEAN
         /\ ValidMac(mac).ok <=> Len(mac) = 16 /\ \A i \in DOMAIN mac : mac[i] \in SmallDigits
         /\ ValidMac(mac).mac # mac =>
              ~ValidMac(mac).ok /\ \E i \in DOMAIN mac : mac[i] \in 65 .. 70
<1>1. PICK others : others = {i \in DOMAIN mac : mac[i] \notin SmallDigits}
  OBVIOUS
<1>2. CASE Len(mac) # 16 \/ others = {}
  <2>1. ValidMac(mac) = [ok |-> Len(mac) = 16, mac |-> mac]
    BY <1>1, <1>2 DEF ValidMac
  <2>2. ValidMac(mac).mac = mac /\ ValidMac(mac).ok = (Len(mac) = 16)
    BY <2>1
  <2>3. QED
    BY <1>1, <1>2, <2>2
<1>3. CASE ~(Len(mac) # 16 \/ others = {})
  <2>1. PICK first : first = Min(others)
    OBVIOUS
  <2>2. others \subseteq Nat
    BY <1>1
  <2>3. first \in others
    BY <1>3, <2>1, <2>2, LowestIs
  <2>4. PICK x : x = IF mac[first] \in 65 .. 70 THEN [mac EXCEPT ![first] = @ - 65 + 10] ELSE mac
    OBVIOUS
  <2>5. ValidMac(mac) = [ok |-> FALSE, mac |-> x]
    BY <1>1, <1>3, <2>1, <2>4 DEF ValidMac
  <2>6. ValidMac(mac).ok = FALSE /\ ValidMac(mac).mac = x
    BY <2>5
  <2>7. ~ \A i \in DOMAIN mac : mac[i] \in SmallDigits
    BY <1>1, <2>3
  <2>8. x # mac => mac[first] \in 65 .. 70
    BY <2>4
  <2>9. first \in DOMAIN mac
    BY <1>1, <2>3
  <2>10. QED
    BY <2>6, <2>7, <2>8, <2>9
<1>4. QED
  BY <1>2, <1>3

LEMMA AllAddresses ==
  ASSUME NEW chars \in Seq(Nat)
  PROVE  TakesAddresses(chars)
<1>1. PICK dots : dots = {i \in DOMAIN chars : chars[i] = Dot}
  OBVIOUS
<1>2. PICK mac : mac = chars \o [i \in 1 .. 16 - Len(chars) |-> 97]
  OBVIOUS
<1>3. mac \in Seq(Nat)
  <2>0. PICK k \in Nat : k = Len(chars)
    OBVIOUS
  <2>1. PICK l \in Nat : 1 .. 16 - k = 1 .. l
    <3>1. CASE k > 16
      <4>1. 1 .. 16 - k = 1 .. 0
        BY <3>1
      <4>2. QED
        BY <4>1
    <3>2. CASE ~(k > 16)
      <4>1. 16 - k \in Nat
        BY <3>2
      <4>2. QED
        BY <4>1
    <3>3. QED
      BY <3>1, <3>2
  <2>2. 1 .. 16 - Len(chars) = 1 .. l
    BY <2>0, <2>1
  <2>3. PICK pad : pad = [i \in 1 .. l |-> 97]
    OBVIOUS
  <2>4. pad \in [1 .. l -> Nat]
    BY <2>3
  <2>5. pad \in Seq(Nat)
    BY <2>4, RowIs
  <2>6. mac = chars \o pad
    BY <1>2, <2>2, <2>3
  <2>7. chars \o pad \in Seq(Nat)
    BY <2>5, RowsJoined
  <2>8. QED
    BY <2>6, <2>7
<1>4. ValidIp(chars) <=>
        /\ Len(chars) \in 7 .. 17 /\ \A i \in DOMAIN chars \ dots : chars[i] \in Digits
        /\ PartsOfFour(chars, dots)
  BY <1>1, ValidIpIs
<1>5. /\ ValidMac(mac).ok <=> Len(mac) = 16 /\ \A i \in DOMAIN mac : mac[i] \in SmallDigits
      /\ ValidMac(mac).mac # mac => ~ValidMac(mac).ok /\ \E i \in DOMAIN mac : mac[i] \in 65 .. 70
  BY <1>3, ValidMacIs
<1>6. QED
  BY <1>1, <1>2, <1>4, <1>5 DEF TakesAddresses, PartsOfFour

-----------------------------------------------------------------------------
(* The way of a path, place by place. *)
Names == Seq(Seq(Nat))

WayFrom(w, path) ==
  w = [n \in 0 .. Len(path) |-> IF n = 0 THEN <<>> ELSE WayTurn(path, n, w[n - 1])]
IsWay(w, path) ==
  /\ w \in [0 .. Len(path) -> Names] /\ w[0] = <<>>
  /\ \A n \in 1 .. Len(path) : w[n] = WayTurn(path, n, w[n - 1])

LEMMA LastNameGrows ==
  ASSUME NEW way \in Names, NEW c \in Nat
  PROVE  LET longer == [way EXCEPT ![Len(way)] = Append(@, c)] IN
         /\ longer \in Names /\ Len(longer) = Len(way)
         /\ \A k \in 1 .. Len(way) - 1 : longer[k] = way[k]
         /\ Len(way) > 0 => longer[Len(way)] = Append(way[Len(way)], c)
<1>1. PICK l \in Nat : l = Len(way) /\ DOMAIN way = 1 .. l
  BY DEF Names
<1>2. PICK longer : longer = [way EXCEPT ![l] = Append(@, c)]
  OBVIOUS
<1>3. way \in [1 .. l -> Seq(Nat)]
  BY <1>1 DEF Names
<1>4. ASSUME NEW k \in 1 .. l PROVE longer[k] = (IF k = l THEN Append(way[k], c) ELSE way[k]) /\ longer[k] \in Seq(Nat)
  <2>1. way[k] \in Seq(Nat)
    BY <1>3
  <2>2. Append(way[k], c) \in Seq(Nat)
    BY <2>1
  <2>3. longer[k] = IF k = l THEN Append(way[k], c) ELSE way[k]
    BY <1>2, <1>3
  <2>4. QED
    BY <2>1, <2>2, <2>3
<1>5. longer \in [1 .. l -> Seq(Nat)]
  <2>1. DOMAIN longer = 1 .. l /\ longer = [k \in 1 .. l |-> longer[k]]
    BY <1>2, <1>3
  <2>2. QED
    BY <1>4, <2>1
<1>6. longer \in Names /\ Len(longer) = l
  BY <1>5, RowIs DEF Names
<1>7. \A k \in 1 .. l - 1 : longer[k] = way[k]
  BY <1>4
<1>8. l > 0 => longer[l] = Append(way[l], c)
  <2>1. l > 0 => l \in 1 .. l
    OBVIOUS
  <2>2. QED
    BY <1>4, <2>1
<1>9. QED
  BY <1>1, <1>2, <1>6, <1>7, <1>8

(* What a turn does. *)
WayGrows(path, n, was, now) ==
  /\ now \in Names
  /\ path[n] = Slash => now = was
  /\ path[n] # Slash /\ (n = 1 \/ path[n - 1] = Slash) =>
       Len(now) = Len(was) + 1 /\ \A k \in 1 .. Len(was) : now[k] = was[k]
  /\ path[n] # Slash /\ ~(n = 1 \/ path[n - 1] = Slash) =>
       Len(now) = Len(was) /\ \A k \in 1 .. Len(was) - 1 : now[k] = was[k]

LEMMA WayTurnIs ==
  ASSUME NEW path \in Seq(Nat), NEW n \in 1 .. Len(path), NEW was \in Names
  PROVE  WayGrows(path, n, was, WayTurn(path, n, was))
<1>0. PICK c \in Nat : c = path[n]
  OBVIOUS
<1>1. PICK now : now = WayTurn(path, n, was)
  OBVIOUS
<1>2. CASE path[n] = Slash
  <2>1. now = was
    BY <1>1, <1>2 DEF WayTurn
  <2>2. QED
    BY <1>1, <1>2, <2>1 DEF WayGrows
<1>3. CASE path[n] # Slash /\ (n = 1 \/ path[n - 1] = Slash)
  <2>1. now = Append(was, <<c>>)
    BY <1>0, <1>1, <1>3 DEF WayTurn
  <2>2. PICK one : one = <<c>>
    OBVIOUS
  <2>20. one \in Seq(Nat)
    BY <2>2
  <2>3. /\ Append(was, one) \in Seq(Seq(Nat)) /\ Len(Append(was, one)) = Len(was) + 1
        /\ \A i \in 1 .. Len(was) : Append(was, one)[i] = was[i]
    <3>1. was \in Seq(Seq(Nat))
      BY DEF Names
    <3>2. QED
      BY <2>20, <3>1, AppendIs
  <2>4. QED
    BY <1>1, <1>3, <2>1, <2>2, <2>3 DEF WayGrows, Names
<1>4. CASE path[n] # Slash /\ ~(n = 1 \/ path[n - 1] = Slash)
  <2>1. now = [was EXCEPT ![Len(was)] = Append(@, c)]
    BY <1>0, <1>1, <1>4 DEF WayTurn
  <2>2. now \in Names /\ Len(now) = Len(was) /\ \A k \in 1 .. Len(was) - 1 : now[k] = was[k]
    BY <2>1, LastNameGrows
  <2>3. QED
    BY <1>1, <1>4, <2>2 DEF WayGrows
<1>5. QED
  BY <1>2, <1>3, <1>4

LEMMA WayExists ==
  ASSUME NEW path \in Seq(Nat)
  PROVE  \E w : IsWay(w, path) /\ WayFrom(w, path)
<1>1. PICK l \in Nat : l = Len(path)
  OBVIOUS
<1>2. PICK G : G = [n \in 1 .. l |-> [x \in Names |-> WayTurn(path, n, x)]]
  OBVIOUS
<1>3. ASSUME NEW n \in 1 .. l, NEW x \in Names PROVE WayTurn(path, n, x) \in Names
  BY <1>1, WayTurnIs DEF WayGrows
<1>4. G \in [1 .. l -> [Names -> Names]]
  BY <1>2, <1>3
<1>5. <<>> \in Names
  BY DEF Names
<1>6. PICK h \in [0 .. l -> Names] : Steps(h, l, <<>>, G)
  BY <1>4, <1>5, StepsExist
<1>7. \A n \in 0 .. l : h[n] = IF n = 0 THEN <<>> ELSE G[n][h[n - 1]]
  BY <1>6 DEF Steps
<1>8. ASSUME NEW n \in 1 .. l PROVE h[n] = WayTurn(path, n, h[n - 1])
  <2>1. n \in 0 .. l /\ n # 0 /\ n - 1 \in 0 .. l
    OBVIOUS
  <2>2. PICK x \in Names : x = h[n - 1]
    BY <1>6, <2>1
  <2>3. G[n][x] = WayTurn(path, n, x)
    BY <1>2
  <2>4. QED
    BY <1>7, <2>1, <2>2, <2>3
<1>9. h[0] = <<>>
  BY <1>7
<1>10. h = [n \in 0 .. l |-> IF n = 0 THEN <<>> ELSE WayTurn(path, n, h[n - 1])]
  <2>1. ASSUME NEW n \in 0 .. l PROVE h[n] = IF n = 0 THEN <<>> ELSE WayTurn(path, n, h[n - 1])
    <3>1. CASE n = 0
      BY <1>9, <3>1
    <3>2. CASE n # 0
      <4>1. n \in 1 .. l
        BY <3>2
      <4>2. QED
        BY <1>8, <3>2, <4>1
    <3>3. QED
      BY <3>1, <3>2
  <2>2. h = [n \in 0 .. l |-> h[n]]
    BY <1>6
  <2>3. QED
    BY <2>1, <2>2
<1>11. QED
  BY <1>1, <1>6, <1>8, <1>9, <1>10 DEF IsWay, WayFrom

LEMMA WayIs ==
  ASSUME NEW path \in Seq(Nat), NEW w, IsWay(w, path)
  PROVE  Way(path) = w[Len(path)]
<1>1. PICK l \in Nat : l = Len(path)
  OBVIOUS
<1>2. PICK t : t = CHOOSE x : WayFrom(x, path)
  OBVIOUS
<1>3. WayFrom(t, path)
  BY <1>2, WayExists
<1>4. Way(path) = t[l]
  BY <1>1, <1>2 DEF Way, WayFrom
<1>5. t[0] = <<>> /\ \A n \in 1 .. l : t[n] = WayTurn(path, n, t[n - 1])
  <2>1. \A n \in 0 .. l : t[n] = IF n = 0 THEN <<>> ELSE WayTurn(path, n, t[n - 1])
    BY <1>1, <1>3 DEF WayFrom
  <2>2. t[0] = <<>>
    BY <1>1, <2>1
  <2>3. ASSUME NEW n \in 1 .. l PROVE t[n] = WayTurn(path, n, t[n - 1])
    <3>1. n \in 0 .. l /\ n # 0
      OBVIOUS
    <3>2. QED
      BY <2>1, <3>1
  <2>4. QED
    BY <2>2, <2>3
<1>6. w[0] = <<>> /\ \A n \in 1 .. l : w[n] = WayTurn(path, n, w[n - 1])
  BY <1>1 DEF IsWay
<1>7. PICK T : T = {n \in 0 .. l : t[n] # w[n]}
  OBVIOUS
<1>8. CASE T # {}
  <2>1. T \subseteq Nat
    BY <1>7
  <2>2. PICK n \in T : \A m \in T : n <= m
    BY <1>8, <2>1, Least
  <2>3. n \in 0 .. l /\ t[n] # w[n]
    BY <1>7
  <2>4. n # 0
    BY <1>5, <1>6, <2>3
  <2>5. n \in 1 .. l /\ n - 1 \in 0 .. l /\ ~(n <= n - 1)
    BY <2>3, <2>4
  <2>6. n - 1 \notin T
    BY <2>2, <2>5
  <2>7. t[n - 1] = w[n - 1]
    BY <1>7, <2>5, <2>6
  <2>8. QED
    BY <1>5, <1>6, <2>3, <2>5, <2>7
<1>9. CASE T = {}
  <2>1. l \in 0 .. l
    OBVIOUS
  <2>2. QED
    BY <1>1, <1>4, <1>7, <1>9, <2>1
<1>10. QED
  BY <1>8, <1>9

(* The way of what comes before a place is the way up to there. *)
LEMMA WayOfPrefix ==
  ASSUME NEW path \in Seq(Nat), NEW w, IsWay(w, path), NEW n \in 0 .. Len(path)
  PROVE  Way(SubSeq(path, 1, n)) = w[n]
<1>1. PICK l \in Nat : l = Len(path) /\ n \in Nat /\ n <= l
  OBVIOUS
<1>2. PICK p : p = SubSeq(path, 1, n)
  OBVIOUS
<1>3. p \in Seq(Nat) /\ Len(p) = n /\ \A i \in 1 .. n : p[i] = path[i]
  <2>1. n \in Nat /\ n <= Len(path) /\ n \in Int /\ n = IF n > 0 THEN n ELSE 0
    BY <1>1
  <2>2. SubSeq(path, 1, n) \in Seq(Nat) /\ HeadRow(SubSeq(path, 1, n), path, n)
    BY <2>1, RowHead
  <2>3. QED
    BY <1>2, <2>2 DEF HeadRow
<1>4. w \in [0 .. l -> Names] /\ w[0] = <<>> /\ \A i \in 1 .. l : w[i] = WayTurn(path, i, w[i - 1])
  BY <1>1 DEF IsWay
<1>5. PICK v : v = [i \in 0 .. n |-> w[i]]
  OBVIOUS
<1>6. v \in [0 .. n -> Names] /\ v[0] = <<>> /\ \A i \in 0 .. n : v[i] = w[i]
  <2>1. ASSUME NEW i \in 0 .. n PROVE v[i] = w[i] /\ w[i] \in Names
    <3>1. i \in 0 .. l
      BY <1>1
    <3>2. QED
      BY <1>4, <1>5, <3>1
  <2>2. v \in [0 .. n -> Names]
    BY <1>5, <2>1
  <2>3. 0 \in 0 .. n
    BY <1>1
  <2>4. QED
    BY <1>4, <2>1, <2>2, <2>3
<1>7. ASSUME NEW i \in 1 .. n PROVE v[i] = WayTurn(p, i, v[i - 1])
  <2>1. i \in 1 .. l /\ i \in 0 .. n /\ i - 1 \in 0 .. n
    BY <1>1
  <2>2. p[i] = path[i]
    BY <1>3
  <2>3. i # 1 => p[i - 1] = path[i - 1]
    <3>1. i # 1 => i - 1 \in 1 .. n
      BY <2>1
    <3>2. QED
      BY <1>3, <3>1
  <2>4. WayTurn(p, i, w[i - 1]) = WayTurn(path, i, w[i - 1])
    BY <2>2, <2>3, Zenon DEF WayTurn
  <2>5. QED
    BY <1>4, <1>6, <2>1, <2>4
<1>8. IsWay(v, p)
  BY <1>3, <1>6, <1>7 DEF IsWay
<1>9. Way(p) = v[n]
  BY <1>3, <1>8, WayIs
<1>10. QED
  BY <1>1, <1>2, <1>6, <1>9

(* How many names of a way nothing that follows can change. *)
ClosedNames(path, w, n) ==
  IF n = 0 THEN 0 ELSE IF path[n] = Slash THEN Len(w[n]) ELSE Len(w[n]) - 1

LEMMA WayStep ==
  ASSUME NEW path \in Seq(Nat), NEW w, IsWay(w, path), NEW n \in 1 .. Len(path)
  PROVE  WayGrows(path, n, w[n - 1], w[n]) /\ w[n - 1] \in Names /\ w[n] \in Names
<1>1. n - 1 \in 0 .. Len(path) /\ n \in 0 .. Len(path)
  OBVIOUS
<1>2. w[n - 1] \in Names /\ w[n] \in Names /\ w[n] = WayTurn(path, n, w[n - 1])
  BY <1>1 DEF IsWay
<1>3. WayGrows(path, n, w[n - 1], WayTurn(path, n, w[n - 1]))
  BY <1>2, WayTurnIs
<1>4. QED
  BY <1>2, <1>3

LEMMA NameOpen ==
  ASSUME NEW path \in Seq(Nat), NEW w, IsWay(w, path)
  PROVE  \A n \in 1 .. Len(path) : path[n] # Slash => Len(w[n]) >= 1
<1>1. PICK T : T = {n \in 1 .. Len(path) : path[n] # Slash /\ ~(Len(w[n]) >= 1)}
  OBVIOUS
<1>2. CASE T = {}
  BY <1>1, <1>2
<1>3. CASE T # {}
  <2>1. T \subseteq Nat
    BY <1>1
  <2>2. PICK n \in T : \A m \in T : n <= m
    BY <1>3, <2>1, Least
  <2>3. n \in 1 .. Len(path) /\ path[n] # Slash /\ ~(Len(w[n]) >= 1)
    BY <1>1
  <2>4. WayGrows(path, n, w[n - 1], w[n]) /\ w[n - 1] \in Names /\ w[n] \in Names
    BY <2>3, WayStep
  <2>5. PICK was \in Names : was = w[n - 1]
    BY <2>4
  <2>6. Len(was) \in Nat /\ Len(w[n]) \in Nat
    BY <2>4, <2>5 DEF Names
  <2>7. CASE n = 1 \/ path[n - 1] = Slash
    <3>1. Len(w[n]) = Len(was) + 1
      BY <2>3, <2>4, <2>5, <2>7 DEF WayGrows
    <3>2. QED
      BY <2>3, <2>6, <3>1
  <2>8. CASE ~(n = 1 \/ path[n - 1] = Slash)
    <3>1. Len(w[n]) = Len(was)
      BY <2>3, <2>4, <2>5, <2>8 DEF WayGrows
    <3>2. n - 1 \in 1 .. Len(path) /\ ~(n <= n - 1)
      BY <2>3, <2>8
    <3>3. n - 1 \notin T
      BY <2>2, <3>2
    <3>4. Len(was) >= 1
      BY <1>1, <2>5, <2>8, <3>2, <3>3
    <3>5. QED
      BY <2>3, <3>1, <3>4
  <2>9. QED
    BY <2>7, <2>8
<1>4. QED
  BY <1>2, <1>3

(* From was to now at least the first c names stay. *)
Keeps(was, now, c) == \A k \in 1 .. c : now[k] = was[k]

LEMMA ClosedIs ==
  ASSUME NEW path \in Seq(Nat), NEW w, IsWay(w, path), NEW n \in 0 .. Len(path)
  PROVE  ClosedNames(path, w, n) \in Nat /\ ClosedNames(path, w, n) <= Len(w[n]) /\ Len(w[n]) \in Nat
<1>1. w[n] \in Names
  BY DEF IsWay
<1>2. Len(w[n]) \in Nat
  BY <1>1 DEF Names
<1>3. CASE n = 0
  BY <1>2, <1>3 DEF ClosedNames
<1>4. CASE n # 0
  <2>1. n \in 1 .. Len(path)
    BY <1>4
  <2>2. path[n] # Slash => Len(w[n]) >= 1
    BY <2>1, NameOpen
  <2>3. PICK l \in Nat : l = Len(w[n])
    BY <1>2
  <2>4. CASE path[n] = Slash
    BY <1>4, <2>3, <2>4 DEF ClosedNames
  <2>5. CASE path[n] # Slash
    BY <1>4, <2>2, <2>3, <2>5 DEF ClosedNames
  <2>6. QED
    BY <2>4, <2>5
<1>5. QED
  BY <1>3, <1>4

(* A slash closes the open name, if there is one; another character closes none. *)
LEMMA ClosesMore ==
  ASSUME NEW path \in Seq(Nat), NEW w, IsWay(w, path), NEW n \in 1 .. Len(path)
  PROVE  /\ ClosedNames(path, w, n - 1) <= ClosedNames(path, w, n)
         /\ ClosedNames(path, w, n) <= ClosedNames(path, w, n - 1) + 1
         /\ path[n] # Slash => ClosedNames(path, w, n) = ClosedNames(path, w, n - 1)
         /\ path[n] = Slash => ClosedNames(path, w, n) = Len(w[n]) /\ w[n] = w[n - 1]
         /\ n = 1 => ClosedNames(path, w, n) = 0
         /\ Keeps(w[n - 1], w[n], ClosedNames(path, w, n - 1))
<1>1. WayGrows(path, n, w[n - 1], w[n])
  BY WayStep
<1>2. n \in 0 .. Len(path) /\ n - 1 \in 0 .. Len(path) /\ n # 0 /\ (n - 1 = 0 <=> n = 1)
  OBVIOUS
<1>3. PICK was : was = w[n - 1]
  OBVIOUS
<1>4. PICK now : now = w[n]
  OBVIOUS
<1>5. PICK b \in Nat : b = ClosedNames(path, w, n - 1)
  BY <1>2, ClosedIs
<1>6. PICK c \in Nat : c = ClosedNames(path, w, n)
  BY <1>2, ClosedIs
<1>7. PICK k \in Nat : k = Len(was)
  BY <1>2, <1>3, ClosedIs
<1>8. PICK l \in Nat : l = Len(now)
  BY <1>2, <1>4, ClosedIs
<1>9. b = IF n = 1 THEN 0 ELSE IF path[n - 1] = Slash THEN k ELSE k - 1
  BY <1>2, <1>3, <1>5, <1>7 DEF ClosedNames
<1>10. c = IF path[n] = Slash THEN l ELSE l - 1
  BY <1>2, <1>4, <1>6, <1>8 DEF ClosedNames
<1>11. b <= k
  BY <1>2, <1>3, <1>5, <1>7, ClosedIs
<1>12. n = 1 => k = 0
  <2>1. w[0] = <<>>
    BY DEF IsWay
  <2>2. n = 1 => w[n - 1] = <<>>
    BY <1>2, <2>1
  <2>3. QED
    BY <1>3, <1>7, <2>2
<1>13. CASE path[n] = Slash
  <2>1. now = was
    BY <1>1, <1>3, <1>4, <1>13 DEF WayGrows
  <2>2. l = k
    BY <1>7, <1>8, <2>1
  <2>3. c = k
    BY <1>10, <1>13, <2>2
  <2>4. b <= c /\ c <= b + 1 /\ (n = 1 => c = 0)
    BY <1>9, <1>12, <2>3
  <2>5. Keeps(was, now, b)
    BY <2>1 DEF Keeps
  <2>6. QED
    BY <1>3, <1>4, <1>5, <1>6, <1>8, <1>13, <2>1, <2>2, <2>3, <2>4, <2>5
<1>14. CASE path[n] # Slash /\ (n = 1 \/ path[n - 1] = Slash)
  <2>1. l = k + 1 /\ \A i \in 1 .. k : now[i] = was[i]
    BY <1>1, <1>3, <1>4, <1>7, <1>8, <1>14 DEF WayGrows
  <2>2. b = k
    BY <1>9, <1>12, <1>14
  <2>3. c = k
    BY <1>10, <1>14, <2>1
  <2>4. Keeps(was, now, b)
    BY <2>1, <2>2 DEF Keeps
  <2>5. b <= c /\ c <= b + 1 /\ c = b
    BY <2>2, <2>3
  <2>6. n = 1 => c = 0
    BY <1>12, <2>3
  <2>7. QED
    BY <1>3, <1>4, <1>5, <1>6, <1>14, <2>4, <2>5, <2>6
<1>15. CASE path[n] # Slash /\ ~(n = 1 \/ path[n - 1] = Slash)
  <2>1. l = k /\ \A i \in 1 .. k - 1 : now[i] = was[i]
    BY <1>1, <1>3, <1>4, <1>7, <1>8, <1>15 DEF WayGrows
  <2>2. b = k - 1
    BY <1>9, <1>15
  <2>3. c = k - 1
    BY <1>10, <1>15, <2>1
  <2>4. Keeps(was, now, b)
    BY <2>1, <2>2 DEF Keeps
  <2>5. b <= c /\ c <= b + 1 /\ c = b /\ n # 1
    BY <1>15, <2>2, <2>3
  <2>6. QED
    BY <1>3, <1>4, <1>5, <1>6, <1>15, <2>4, <2>5
<1>16. QED
  BY <1>13, <1>14, <1>15

(* What is closed stays to the end. *)
LEMMA ClosedStays ==
  ASSUME NEW path \in Seq(Nat), NEW w, IsWay(w, path), NEW n \in 0 .. Len(path)
  PROVE  /\ ClosedNames(path, w, n) <= ClosedNames(path, w, Len(path))
         /\ Keeps(w[n], w[Len(path)], ClosedNames(path, w, n))
<1>1. PICK l \in Nat : l = Len(path)
  OBVIOUS
<1>2. PICK c \in Nat : c = ClosedNames(path, w, n)
  BY ClosedIs
<1>3. PICK T : T = {m \in n .. l : ~(c <= ClosedNames(path, w, m) /\ Keeps(w[n], w[m], c))}
  OBVIOUS
<1>4. CASE T = {}
  <2>1. l \in n .. l
    BY <1>1
  <2>2. QED
    BY <1>1, <1>2, <1>3, <1>4, <2>1
<1>5. CASE T # {}
  <2>1. T \subseteq Nat
    BY <1>1, <1>3
  <2>2. PICK m \in T : \A i \in T : m <= i
    BY <1>5, <2>1, Least
  <2>3. m \in n .. l /\ ~(c <= ClosedNames(path, w, m) /\ Keeps(w[n], w[m], c))
    BY <1>3
  <2>4. m # n
    <3>1. c <= ClosedNames(path, w, n) /\ Keeps(w[n], w[n], c)
      BY <1>2 DEF Keeps
    <3>2. QED
      BY <2>3, <3>1
  <2>5. m - 1 \in n .. l /\ ~(m <= m - 1) /\ m \in 1 .. Len(path) /\ m - 1 \in 0 .. Len(path)
        /\ m \in 0 .. Len(path)
    BY <1>1, <2>3, <2>4
  <2>6. m - 1 \notin T
    BY <2>2, <2>5
  <2>7. c <= ClosedNames(path, w, m - 1) /\ Keeps(w[n], w[m - 1], c)
    BY <1>3, <2>5, <2>6
  <2>8. PICK b \in Nat : b = ClosedNames(path, w, m - 1)
    BY <2>5, ClosedIs
  <2>9. PICK d \in Nat : d = ClosedNames(path, w, m)
    BY <2>5, ClosedIs
  <2>10. b <= d /\ Keeps(w[m - 1], w[m], b)
    BY <2>5, <2>8, <2>9, ClosesMore
  <2>11. c <= b
    BY <2>7, <2>8
  <2>12. c <= d
    BY <2>10, <2>11
  <2>13. ASSUME NEW k \in 1 .. c PROVE w[m][k] = w[n][k]
    <3>1. k \in 1 .. b
      BY <2>11
    <3>2. w[m][k] = w[m - 1][k]
      BY <2>10, <3>1 DEF Keeps
    <3>3. w[m - 1][k] = w[n][k]
      BY <2>7 DEF Keeps
    <3>4. QED
      BY <3>2, <3>3
  <2>14. Keeps(w[n], w[m], c)
    BY <2>13 DEF Keeps
  <2>15. QED
    BY <2>3, <2>9, <2>12, <2>14
<1>6. QED
  BY <1>4, <1>5

(* Before a slash the way is the beginning of the whole. *)
LEMMA WayBefore ==
  ASSUME NEW path \in Seq(Nat), NEW w, IsWay(w, path), NEW n \in 1 .. Len(path),
         path[n] = Slash
  PROVE  /\ ClosedNames(path, w, n) <= Len(w[Len(path)])
         /\ w[n - 1] = SubSeq(w[Len(path)], 1, ClosedNames(path, w, n))
<1>1. n \in 0 .. Len(path) /\ Len(path) \in 0 .. Len(path)
  OBVIOUS
<1>2. PICK c \in Nat : c = ClosedNames(path, w, n)
  BY <1>1, ClosedIs
<1>3. c = Len(w[n]) /\ w[n] = w[n - 1]
  BY <1>2, ClosesMore
<1>4. c <= ClosedNames(path, w, Len(path)) /\ Keeps(w[n], w[Len(path)], c)
  BY <1>1, <1>2, ClosedStays
<1>5. c <= Len(w[Len(path)])
  <2>1. PICK d \in Nat : d = ClosedNames(path, w, Len(path))
    BY <1>1, ClosedIs
  <2>2. PICK l \in Nat : l = Len(w[Len(path)])
    BY <1>1, ClosedIs
  <2>3. d <= l
    BY <1>1, <2>1, <2>2, ClosedIs
  <2>4. c <= d
    BY <1>4, <2>1
  <2>5. c <= l
    BY <2>3, <2>4
  <2>6. QED
    BY <2>2, <2>5
<1>6. PICK a \in Names : a = w[n]
  BY <1>1 DEF IsWay
<1>7. PICK z \in Names : z = w[Len(path)]
  BY <1>1 DEF IsWay
<1>8. c <= Len(z) /\ c = Len(a) /\ \A k \in 1 .. c : z[k] = a[k]
  BY <1>3, <1>4, <1>5, <1>6, <1>7 DEF Keeps
<1>9. SubSeq(z, 1, c) = a
  <2>1. z \in Seq(Seq(Nat)) /\ a \in Seq(Seq(Nat))
    BY DEF Names
  <2>2. c = IF c > 0 THEN c ELSE 0
    BY <1>2
  <2>3. SubSeq(z, 1, c) \in Seq(Seq(Nat)) /\ HeadRow(SubSeq(z, 1, c), z, c)
    BY <1>8, <2>1, <2>2, RowHead
  <2>4. PICK h \in Seq(Seq(Nat)) : h = SubSeq(z, 1, c)
    BY <2>3
  <2>5. Len(h) = c /\ \A k \in 1 .. c : h[k] = z[k]
    BY <2>3, <2>4 DEF HeadRow
  <2>6. Len(h) = Len(a) /\ \A k \in 1 .. Len(h) : h[k] = a[k]
    BY <1>8, <2>5
  <2>7. h = a
    BY <2>1, <2>6, SeqEqual
  <2>8. QED
    BY <2>4, <2>7
<1>10. QED
  BY <1>2, <1>3, <1>5, <1>6, <1>7, <1>9

-----------------------------------------------------------------------------
(* The walk of file_create_dir. *)
Above(way) == {SubSeq(way, 1, k) : k \in 1 .. Len(way)}

(* Of a way the first c names are made, or one of them is refused. *)
Made(was, way, dirs, denied, c) ==
  /\ was.ret \in {0, -1}
  /\ dirs \subseteq was.dirs /\ was.dirs \subseteq dirs \cup Above(way)
  /\ \A new \in was.dirs \ dirs :
       Len(new) = 1 \/ SubSeq(new, 1, Len(new) - 1) \in was.dirs
  /\ was.ret = 0 => \A k \in 1 .. c : SubSeq(way, 1, k) \in was.dirs
  /\ was.ret # 0 => ~(Above(way) \subseteq was.dirs) /\ Above(way) \cap (denied \ dirs) # {}

(* The first m names of a way: none, or one after the first m - 1. *)
LEMMA Beginning ==
  ASSUME NEW way \in Names, NEW m \in 1 .. Len(way)
  PROVE  /\ SubSeq(way, 1, m) \in Names /\ Len(SubSeq(way, 1, m)) = m
         /\ SubSeq(SubSeq(way, 1, m), 1, m - 1) = SubSeq(way, 1, m - 1)
         /\ SubSeq(way, 1, m) \in Above(way)
<1>1. way \in Seq(Seq(Nat)) /\ Len(way) \in Nat
  BY DEF Names
<1>2. PICK w \in Seq(Seq(Nat)) : w = way
  BY <1>1
<1>3. m \in Nat /\ m <= Len(w) /\ m \in Int /\ m = IF m > 0 THEN m ELSE 0
  BY <1>1, <1>2
<1>4. PICK h : h = SubSeq(w, 1, m)
  OBVIOUS
<1>5. SubSeq(w, 1, m) \in Seq(Seq(Nat)) /\ HeadRow(SubSeq(w, 1, m), w, m)
  BY <1>3, RowHead
<1>6. h \in Seq(Seq(Nat)) /\ Len(h) = m /\ \A k \in 1 .. m : h[k] = w[k]
  BY <1>4, <1>5 DEF HeadRow
<1>7. PICK l \in Nat : l = m - 1
  BY <1>3
<1>8. l <= Len(w) /\ l <= Len(h) /\ l \in Int /\ l = IF l > 0 THEN l ELSE 0
  BY <1>3, <1>6, <1>7
<1>9. SubSeq(w, 1, l) \in Seq(Seq(Nat)) /\ HeadRow(SubSeq(w, 1, l), w, l)
  BY <1>8, RowHead
<1>10. SubSeq(h, 1, l) \in Seq(Seq(Nat)) /\ HeadRow(SubSeq(h, 1, l), h, l)
  BY <1>6, <1>8, RowHead
<1>11. PICK a \in Seq(Seq(Nat)) : a = SubSeq(w, 1, l)
  BY <1>9
<1>12. PICK b \in Seq(Seq(Nat)) : b = SubSeq(h, 1, l)
  BY <1>10
<1>13. Len(a) = l /\ \A k \in 1 .. l : a[k] = w[k]
  BY <1>9, <1>11 DEF HeadRow
<1>14. Len(b) = l /\ \A k \in 1 .. l : b[k] = h[k]
  BY <1>10, <1>12 DEF HeadRow
<1>15. ASSUME NEW k \in 1 .. l PROVE b[k] = a[k]
  <2>1. k \in 1 .. m
    BY <1>7
  <2>2. QED
    BY <1>6, <1>13, <1>14, <2>1
<1>16. b = a
  BY <1>13, <1>14, <1>15, SeqEqual
<1>17. h \in Above(way)
  BY <1>2, <1>4 DEF Above
<1>18. QED
  BY <1>2, <1>4, <1>6, <1>7, <1>11, <1>12, <1>16, <1>17 DEF Names

LEMMA EnsuredMakes ==
  ASSUME NEW way \in Names, NEW dirs, NEW denied, NEW was, NEW c \in Nat,
         NEW m \in 0 .. Len(way), m <= c + 1, Made(was, way, dirs, denied, c),
         NEW dir, dir # <<>>, Way(dir) = SubSeq(way, 1, m)
  PROVE  Made(Ensured(denied, was, dir), way, dirs, denied, m)
<1>1. Len(way) \in Nat /\ m \in Nat
  BY DEF Names
<1>2. PICK part : part = SubSeq(way, 1, m)
  OBVIOUS
<1>3. m = 0 => part = <<>>
  <2>1. SubSeq(way, 1, 0) = <<>>
    <3>1. way \in Seq(Seq(Nat)) /\ 0 \in Nat /\ 0 <= Len(way) /\ 0 \in Int /\ 0 = IF 0 > 0 THEN 0 ELSE 0
      BY <1>1 DEF Names
    <3>2. SubSeq(way, 1, 0) \in Seq(Seq(Nat)) /\ HeadRow(SubSeq(way, 1, 0), way, 0)
      BY <3>1, RowHead
    <3>3. PICK h \in Seq(Seq(Nat)) : h = SubSeq(way, 1, 0)
      BY <3>2
    <3>4. Len(h) = 0
      BY <3>2, <3>3 DEF HeadRow
    <3>5. h = <<>>
      BY <3>4
    <3>6. QED
      BY <3>3, <3>5
  <2>2. QED
    BY <1>2, <2>1
<1>4. m # 0 => /\ part \in Names /\ Len(part) = m /\ part \in Above(way)
               /\ SubSeq(part, 1, m - 1) = SubSeq(way, 1, m - 1)
  <2> SUFFICES ASSUME m # 0 PROVE /\ part \in Names /\ Len(part) = m /\ part \in Above(way)
                                  /\ SubSeq(part, 1, m - 1) = SubSeq(way, 1, m - 1)
    OBVIOUS
  <2>1. m \in 1 .. Len(way)
    BY <1>1
  <2>2. QED
    BY <1>2, <2>1, Beginning
<1>5. m # 0 => part # <<>>
  <2>1. Len(<<>>) = 0
    OBVIOUS
  <2>2. QED
    BY <1>4, <2>1
<1>6. was.ret = 0 => \A k \in 1 .. m - 1 : SubSeq(way, 1, k) \in was.dirs
  <2>1. \A k \in 1 .. m - 1 : k \in 1 .. c
    BY <1>1
  <2>2. QED
    BY <2>1 DEF Made
<1>7. PICK now : now = Ensured(denied, was, dir)
  OBVIOUS
<1>8. CASE was.ret # 0
  <2>1. now = was
    BY <1>7, <1>8 DEF Ensured
  <2>2. Made(was, way, dirs, denied, m)
    BY <1>8 DEF Made
  <2>3. QED
    BY <1>7, <2>1, <2>2
<1>9. CASE was.ret = 0 /\ (part = <<>> \/ part \in was.dirs)
  <2>1. Exists(was.dirs, dir)
    BY <1>2, <1>9 DEF Exists
  <2>2. now = was
    BY <1>7, <2>1 DEF Ensured
  <2>3. \A k \in 1 .. m : SubSeq(way, 1, k) \in was.dirs
    <3>1. ASSUME NEW k \in 1 .. m PROVE SubSeq(way, 1, k) \in was.dirs
      <4>1. k = m \/ k \in 1 .. m - 1
        BY <1>1
      <4>2. m # 0
        BY <1>1
      <4>3. part \in was.dirs
        BY <1>5, <1>9, <4>2
      <4>4. QED
        BY <1>2, <1>6, <1>9, <4>1, <4>3
    <3>2. QED
      BY <3>1
  <2>4. Made(was, way, dirs, denied, m)
    BY <1>9, <2>3 DEF Made
  <2>5. QED
    BY <1>7, <2>2, <2>4
<1>10. CASE was.ret = 0 /\ part # <<>> /\ part \notin was.dirs
  <2>1. m # 0
    BY <1>3, <1>10
  <2>2. now = Mkdir(was.dirs, denied, dir)
    <3>1. ~Exists(was.dirs, dir)
      BY <1>2, <1>10 DEF Exists
    <3>2. QED
      BY <1>7, <1>10, <3>1 DEF Ensured
  <2>3. Len(part) = 1 \/ SubSeq(part, 1, Len(part) - 1) \in was.dirs
    <3>1. Len(part) = m /\ SubSeq(part, 1, m - 1) = SubSeq(way, 1, m - 1)
      BY <1>4, <2>1
    <3>2. m = 1 \/ m - 1 \in 1 .. m - 1
      BY <1>1, <2>1
    <3>3. QED
      BY <1>6, <1>10, <3>1, <3>2
  <2>4. CASE part \in denied
    <3>1. now = [ret |-> -1, dirs |-> was.dirs]
      BY <1>2, <2>2, <2>4 DEF Mkdir
    <3>2. now.ret = -1 /\ now.dirs = was.dirs
      BY <3>1
    <3>3. part \in Above(way)
      BY <1>4, <2>1
    <3>4. dirs \subseteq was.dirs
      BY DEF Made
    <3>5. ~(Above(way) \subseteq was.dirs) /\ Above(way) \cap (denied \ dirs) # {}
      BY <1>10, <2>4, <3>3, <3>4
    <3>6. now.ret # 0
      BY <3>2
    <3>7. Made(now, way, dirs, denied, m)
      BY <3>2, <3>5, <3>6 DEF Made
    <3>8. QED
      BY <1>7, <3>7
  <2>5. CASE part \notin denied
    <3>1. now = [ret |-> 0, dirs |-> was.dirs \cup {part}]
      <4>1. part \notin was.dirs \cup denied
        BY <1>10, <2>5
      <4>2. QED
        BY <1>2, <1>10, <2>2, <2>3, <4>1 DEF Mkdir
    <3>2. now.ret = 0 /\ now.dirs = was.dirs \cup {part}
      BY <3>1
    <3>3. now.dirs \subseteq dirs \cup Above(way) /\ dirs \subseteq now.dirs
      BY <1>4, <2>1, <3>2 DEF Made
    <3>4. \A new \in now.dirs \ dirs : Len(new) = 1 \/ SubSeq(new, 1, Len(new) - 1) \in now.dirs
      <4>1. \A new \in was.dirs \ dirs : Len(new) = 1 \/ SubSeq(new, 1, Len(new) - 1) \in was.dirs
        BY DEF Made
      <4>2. QED
        BY <2>3, <3>2, <4>1
    <3>5. ASSUME NEW k \in 1 .. m PROVE SubSeq(way, 1, k) \in now.dirs
      <4>1. k = m \/ k \in 1 .. m - 1
        BY <1>1
      <4>2. QED
        BY <1>2, <1>6, <1>10, <3>2, <4>1
    <3>6. Made(now, way, dirs, denied, m)
      BY <3>2, <3>3, <3>4, <3>5 DEF Made
    <3>7. QED
      BY <1>7, <3>6
  <2>6. QED
    BY <2>4, <2>5
<1>11. QED
  BY <1>8, <1>9, <1>10

WalkTurn(path, denied, n, was) ==
  IF n > 1 /\ path[n] = Slash THEN Ensured(denied, was, SubSeq(path, 1, n - 1)) ELSE was
WalkFrom(walk, path, dirs, denied) ==
  walk = [n \in 0 .. Len(path) |->
            IF n = 0 THEN [ret |-> 0, dirs |-> dirs]
            ELSE IF n > 1 /\ path[n] = Slash
            THEN Ensured(denied, walk[n - 1], SubSeq(path, 1, n - 1)) ELSE walk[n - 1]]
Walks(walk, path, dirs, denied) ==
  /\ walk[0] = [ret |-> 0, dirs |-> dirs]
  /\ \A n \in 1 .. Len(path) : walk[n] = WalkTurn(path, denied, n, walk[n - 1])

(* A record of the walk over a tree. *)
Tree(dirs) == [ret : {0, -1}, dirs : SUBSET (dirs \cup Names)]

LEMMA EnsuredInTree ==
  ASSUME NEW dirs, NEW denied, NEW was \in Tree(dirs), NEW dir, Way(dir) \in Names
  PROVE  Ensured(denied, was, dir) \in Tree(dirs)
<1>1. PICK part : part = Way(dir)
  OBVIOUS
<1>2. was.dirs \in SUBSET (dirs \cup Names)
  BY DEF Tree
<1>3. was.dirs \cup {part} \in SUBSET (dirs \cup Names)
  BY <1>1, <1>2
<1>4. [ret |-> 0, dirs |-> was.dirs \cup {part}] \in Tree(dirs)
  BY <1>3 DEF Tree
<1>5. [ret |-> -1, dirs |-> was.dirs] \in Tree(dirs)
  BY <1>2 DEF Tree
<1>6. Mkdir(was.dirs, denied, dir) \in Tree(dirs)
  BY <1>1, <1>4, <1>5 DEF Mkdir
<1>7. QED
  BY <1>6 DEF Ensured

LEMMA WalkExists ==
  ASSUME NEW path \in Seq(Nat), NEW dirs, NEW denied
  PROVE  \E walk : WalkFrom(walk, path, dirs, denied)
<1>1. PICK l \in Nat : l = Len(path)
  OBVIOUS
<1>2. PICK w : IsWay(w, path)
  BY WayExists
<1>3. PICK X : X = Tree(dirs)
  OBVIOUS
<1>4. ASSUME NEW n \in 1 .. l, NEW was \in X PROVE WalkTurn(path, denied, n, was) \in X
  <2>1. n - 1 \in 0 .. Len(path)
    BY <1>1
  <2>2. w[n - 1] \in Names
    BY <1>2, <2>1 DEF IsWay
  <2>3. Way(SubSeq(path, 1, n - 1)) \in Names
    BY <1>2, <2>1, <2>2, WayOfPrefix
  <2>4. Ensured(denied, was, SubSeq(path, 1, n - 1)) \in X
    BY <1>3, <2>3, EnsuredInTree
  <2>5. QED
    BY <2>4 DEF WalkTurn
<1>5. PICK G : G = [n \in 1 .. l |-> [x \in X |-> WalkTurn(path, denied, n, x)]]
  OBVIOUS
<1>6. G \in [1 .. l -> [X -> X]]
  BY <1>4, <1>5
<1>7. PICK a : a = [ret |-> 0, dirs |-> dirs]
  OBVIOUS
<1>8. a \in X
  BY <1>3, <1>7 DEF Tree
<1>9. PICK h \in [0 .. l -> X] : Steps(h, l, a, G)
  BY <1>6, <1>8, StepsExist
<1>10. \A n \in 0 .. l : h[n] = IF n = 0 THEN a ELSE G[n][h[n - 1]]
  BY <1>9 DEF Steps
<1>11. ASSUME NEW n \in 0 .. l
       PROVE  h[n] = IF n = 0 THEN a ELSE WalkTurn(path, denied, n, h[n - 1])
  <2>1. CASE n = 0
    BY <1>10, <2>1
  <2>2. CASE n # 0
    <3>1. n \in 1 .. l /\ n - 1 \in 0 .. l
      BY <2>2
    <3>2. PICK x \in X : x = h[n - 1]
      BY <1>9, <3>1
    <3>3. G[n][x] = WalkTurn(path, denied, n, x)
      BY <1>5, <3>1
    <3>4. QED
      BY <1>10, <2>2, <3>2, <3>3
  <2>3. QED
    BY <2>1, <2>2
<1>12. h = [n \in 0 .. l |-> IF n = 0 THEN a ELSE WalkTurn(path, denied, n, h[n - 1])]
  <2>1. h = [n \in 0 .. l |-> h[n]]
    BY <1>9
  <2>2. QED
    BY <1>11, <2>1
<1>13. WalkFrom(h, path, dirs, denied)
  BY <1>1, <1>7, <1>12 DEF WalkFrom, WalkTurn
<1>14. QED
  BY <1>13

LEMMA WalkIs ==
  ASSUME NEW path \in Seq(Nat), NEW dirs, NEW denied
  PROVE  \E walk : /\ Walks(walk, path, dirs, denied)
                   /\ FileCreateDir(dirs, denied, path) = Ensured(denied, walk[Len(path)], path)
<1>1. PICK walk : walk = CHOOSE x : WalkFrom(x, path, dirs, denied)
  OBVIOUS
<1>2. WalkFrom(walk, path, dirs, denied)
  BY <1>1, WalkExists
<1>3. FileCreateDir(dirs, denied, path) = Ensured(denied, walk[Len(path)], path)
  BY <1>1 DEF FileCreateDir, WalkFrom
<1>4. PICK l \in Nat : l = Len(path)
  OBVIOUS
<1>5. \A n \in 0 .. l : walk[n] = IF n = 0 THEN [ret |-> 0, dirs |-> dirs]
                                  ELSE WalkTurn(path, denied, n, walk[n - 1])
  BY <1>2, <1>4 DEF WalkFrom, WalkTurn
<1>6. walk[0] = [ret |-> 0, dirs |-> dirs]
  BY <1>5
<1>7. ASSUME NEW n \in 1 .. l PROVE walk[n] = WalkTurn(path, denied, n, walk[n - 1])
  <2>1. n \in 0 .. l /\ n # 0
    OBVIOUS
  <2>2. QED
    BY <1>5, <2>1
<1>8. Walks(walk, path, dirs, denied)
  BY <1>4, <1>6, <1>7 DEF Walks
<1>9. QED
  BY <1>3, <1>8

(* Up to each place what is closed has been made, unless one name was refused. *)
LEMMA WalkMakes ==
  ASSUME NEW path \in Seq(Nat), NEW dirs, NEW denied, NEW walk, Walks(walk, path, dirs, denied),
         NEW w, IsWay(w, path)
  PROVE  \A n \in 0 .. Len(path) : Made(walk[n], w[Len(path)], dirs, denied, ClosedNames(path, w, n))
<1>1. PICK l \in Nat : l = Len(path)
  OBVIOUS
<1>2. PICK way \in Names : way = w[l]
  <2>1. l \in 0 .. Len(path)
    BY <1>1
  <2>2. QED
    BY <2>1 DEF IsWay
<1>3. PICK T : T = {n \in 0 .. l : ~Made(walk[n], way, dirs, denied, ClosedNames(path, w, n))}
  OBVIOUS
<1>4. CASE T # {}
  <2>1. T \subseteq Nat
    BY <1>3
  <2>2. PICK n \in T : \A m \in T : n <= m
    BY <1>4, <2>1, Least
  <2>3. n \in 0 .. l /\ ~Made(walk[n], way, dirs, denied, ClosedNames(path, w, n))
    BY <1>3
  <2>4. n # 0
    <3>1. ClosedNames(path, w, 0) = 0
      BY DEF ClosedNames
    <3>2. walk[0] = [ret |-> 0, dirs |-> dirs]
      BY DEF Walks
    <3>3. walk[0].ret = 0 /\ walk[0].dirs = dirs
      BY <3>2
    <3>4. Made(walk[0], way, dirs, denied, 0)
      BY <3>3 DEF Made
    <3>5. QED
      BY <2>3, <3>1, <3>4
  <2>5. n \in 1 .. l /\ n - 1 \in 0 .. l /\ ~(n <= n - 1) /\ n \in 1 .. Len(path)
        /\ n - 1 \in 0 .. Len(path) /\ n \in 0 .. Len(path)
    BY <1>1, <2>3, <2>4
  <2>6. n - 1 \notin T
    BY <2>2, <2>5
  <2>7. Made(walk[n - 1], way, dirs, denied, ClosedNames(path, w, n - 1))
    BY <1>3, <2>5, <2>6
  <2>8. PICK b \in Nat : b = ClosedNames(path, w, n - 1)
    BY <2>5, ClosedIs
  <2>9. PICK c \in Nat : c = ClosedNames(path, w, n)
    BY <2>5, ClosedIs
  <2>10. walk[n] = WalkTurn(path, denied, n, walk[n - 1])
    BY <2>5 DEF Walks
  <2>11. PICK was : was = walk[n - 1]
    OBVIOUS
  <2>12. Made(was, way, dirs, denied, b)
    BY <2>7, <2>8, <2>11
  <2>13. CASE n > 1 /\ path[n] = Slash
    <3>1. PICK dir : dir = SubSeq(path, 1, n - 1)
      OBVIOUS
    <3>2. dir # <<>>
      <4>1. n - 1 \in Nat /\ n - 1 <= Len(path) /\ n - 1 \in Int /\ n - 1 = IF n - 1 > 0 THEN n - 1 ELSE 0
        BY <2>5
      <4>2. HeadRow(SubSeq(path, 1, n - 1), path, n - 1)
        BY <4>1, RowHead
      <4>3. Len(dir) = n - 1
        BY <3>1, <4>2 DEF HeadRow
      <4>4. Len(<<>>) = 0 /\ n - 1 # 0
        BY <2>5, <2>13
      <4>5. QED
        BY <4>3, <4>4
    <3>3. Way(dir) = w[n - 1]
      BY <2>5, <3>1, WayOfPrefix
    <3>4. c <= Len(way) /\ w[n - 1] = SubSeq(way, 1, c)
      BY <1>1, <1>2, <2>5, <2>9, <2>13, WayBefore
    <3>5. c <= b + 1
      BY <2>5, <2>8, <2>9, ClosesMore
    <3>6. c \in 0 .. Len(way)
      BY <3>4 DEF Names
    <3>7. Way(dir) = SubSeq(way, 1, c)
      BY <3>3, <3>4
    <3>8. Made(Ensured(denied, was, dir), way, dirs, denied, c)
      BY <2>12, <3>2, <3>5, <3>6, <3>7, EnsuredMakes
    <3>9. walk[n] = Ensured(denied, was, dir)
      BY <2>10, <2>11, <2>13, <3>1 DEF WalkTurn
    <3>10. QED
      BY <2>3, <2>9, <3>8, <3>9
  <2>14. CASE ~(n > 1 /\ path[n] = Slash)
    <3>1. walk[n] = was
      BY <2>10, <2>11, <2>14 DEF WalkTurn
    <3>2. c <= b
      <4>1. path[n] # Slash => c = b
        BY <2>5, <2>8, <2>9, ClosesMore
      <4>2. n = 1 => c = 0
        BY <2>5, <2>9, ClosesMore
      <4>3. n = 1 \/ path[n] # Slash
        BY <2>5, <2>14
      <4>4. QED
        BY <4>1, <4>2, <4>3
    <3>3. \A k \in 1 .. c : k \in 1 .. b
      BY <3>2
    <3>4. Made(was, way, dirs, denied, c)
      BY <2>12, <3>3 DEF Made
    <3>5. QED
      BY <2>3, <2>9, <3>1, <3>4
  <2>15. QED
    BY <2>13, <2>14
<1>5. CASE T = {}
  BY <1>1, <1>2, <1>3, <1>5
<1>6. QED
  BY <1>4, <1>5

(* What file_create_dir has made in the end. *)
DirsFit(path, dirs, denied, way, made) ==
  /\ dirs \subseteq made.dirs /\ made.dirs \subseteq dirs \cup Above(way)
  /\ made.ret = 0 <=> path # <<>> /\ Above(way) \subseteq made.dirs
  /\ \A new \in made.dirs \ dirs : Len(new) = 1 \/ SubSeq(new, 1, Len(new) - 1) \in made.dirs
  /\ made.ret # 0 => path = <<>> \/ Above(way) \cap (denied \ dirs) # {}

LEMMA DirsAreMade ==
  ASSUME NEW path \in Seq(Nat), NEW dirs, NEW denied
  PROVE  DirsFit(path, dirs, denied, Way(path), FileCreateDir(dirs, denied, path))
<1>1. PICK l \in Nat : l = Len(path)
  OBVIOUS
<1>2. PICK w : IsWay(w, path)
  BY WayExists
<1>3. PICK walk : /\ Walks(walk, path, dirs, denied)
                  /\ FileCreateDir(dirs, denied, path) = Ensured(denied, walk[l], path)
  BY <1>1, WalkIs
<1>4. l \in 0 .. Len(path)
  BY <1>1
<1>5. PICK way \in Names : way = w[l]
  BY <1>2, <1>4 DEF IsWay
<1>6. Way(path) = way
  BY <1>1, <1>2, <1>5, WayIs
<1>7. PICK c \in Nat : c = ClosedNames(path, w, l)
  BY <1>2, <1>4, ClosedIs
<1>8. Made(walk[l], way, dirs, denied, c)
  BY <1>1, <1>2, <1>3, <1>4, <1>5, <1>7, WalkMakes
<1>9. PICK m \in Nat : m = Len(way)
  BY DEF Names
<1>10. PICK was : was = walk[l]
  OBVIOUS
<1>11. PICK made : made = Ensured(denied, was, path)
  OBVIOUS
<1>12. CASE path = <<>>
  <2>1. l = 0
    BY <1>1, <1>12
  <2>2. was.ret = 0 /\ was.dirs = dirs
    <3>1. was = [ret |-> 0, dirs |-> dirs]
      BY <1>3, <1>10, <2>1 DEF Walks
    <3>2. QED
      BY <3>1
  <2>3. way = <<>>
    BY <1>2, <1>5, <2>1 DEF IsWay
  <2>4. ~Exists(was.dirs, path)
    BY <1>12 DEF Exists
  <2>5. made = [ret |-> -1, dirs |-> dirs]
    <3>1. made = Mkdir(was.dirs, denied, path)
      BY <1>11, <2>2, <2>4 DEF Ensured
    <3>2. QED
      BY <1>6, <2>2, <2>3, <3>1 DEF Mkdir
  <2>6. made.ret = -1 /\ made.dirs = dirs
    BY <2>5
  <2>7. DirsFit(path, dirs, denied, way, made)
    BY <1>12, <2>6 DEF DirsFit
  <2>8. QED
    BY <1>3, <1>6, <1>10, <1>11, <2>7
<1>13. CASE path # <<>>
  <2>1. m <= c + 1
    <3>1. l # 0
      BY <1>1, <1>13
    <3>2. c = IF path[l] = Slash THEN m ELSE m - 1
      BY <1>5, <1>7, <1>9, <3>1 DEF ClosedNames
    <3>3. QED
      BY <3>2
  <2>2. way = SubSeq(way, 1, m)
    <3>1. way \in Seq(Seq(Nat))
      BY DEF Names
    <3>2. QED
      BY <1>9, <3>1, SubSeqFull
  <2>3. m \in 0 .. Len(way) /\ Way(path) = SubSeq(way, 1, m)
    BY <1>6, <1>9, <2>2
  <2>4. Made(was, way, dirs, denied, c)
    BY <1>8, <1>10
  <2>5. Made(Ensured(denied, was, path), way, dirs, denied, m)
    BY <1>13, <2>1, <2>3, <2>4, EnsuredMakes
  <2>6. Made(made, way, dirs, denied, m)
    BY <1>11, <2>5
  <2>7. made.ret = 0 => Above(way) \subseteq made.dirs
    BY <1>9, <2>6 DEF Made, Above
  <2>8. made.ret # 0 => ~(Above(way) \subseteq made.dirs) /\ Above(way) \cap (denied \ dirs) # {}
    BY <2>6 DEF Made
  <2>9. dirs \subseteq made.dirs /\ made.dirs \subseteq dirs \cup Above(way)
    BY <2>6 DEF Made
  <2>10. \A new \in made.dirs \ dirs : Len(new) = 1 \/ SubSeq(new, 1, Len(new) - 1) \in made.dirs
    BY <2>6 DEF Made
  <2>11. DirsFit(path, dirs, denied, way, made)
    BY <1>13, <2>7, <2>8, <2>9, <2>10 DEF DirsFit
  <2>12. QED
    BY <1>3, <1>6, <1>10, <1>11, <2>11
<1>14. QED
  BY <1>12, <1>13

-----------------------------------------------------------------------------
(* Directory and name of a path. *)
LEMMA LastSlashIs ==
  ASSUME NEW s \in Seq(Nat)
  PROVE  /\ LastSlash(s) \in 0 .. Len(s)
         /\ LastSlash(s) # 0 => s[LastSlash(s)] = Slash
         /\ \A i \in LastSlash(s) + 1 .. Len(s) : s[i] # Slash
<1>1. PICK l \in Nat : l = Len(s)
  OBVIOUS
<1>2. PICK T : T = {i \in 1 .. l : s[i] = Slash}
  OBVIOUS
<1>3. LastSlash(s) = IF T = {} THEN 0 ELSE Max(T)
  <2>1. {i \in DOMAIN s : s[i] = Slash} = T
    BY <1>1, <1>2
  <2>2. QED
    BY <2>1 DEF LastSlash
<1>4. CASE T = {}
  <2>1. LastSlash(s) = 0
    BY <1>3, <1>4
  <2>2. \A i \in 1 .. l : s[i] # Slash
    BY <1>2, <1>4
  <2>3. QED
    BY <1>1, <2>1, <2>2
<1>5. CASE T # {}
  <2>1. PICK U : U = {l - i : i \in T}
    OBVIOUS
  <2>2. U \subseteq Nat /\ U # {}
    BY <1>2, <1>5, <2>1
  <2>3. PICK u \in U : \A v \in U : u <= v
    BY <2>2, Least
  <2>4. PICK i \in T : u = l - i
    BY <2>1
  <2>5. \A j \in T : i >= j
    <3>1. ASSUME NEW j \in T PROVE i >= j
      <4>1. l - j \in U /\ i \in Nat /\ j \in Nat
        BY <1>2, <2>1
      <4>2. l - i <= l - j
        BY <2>3, <2>4, <4>1
      <4>3. QED
        BY <4>1, <4>2
    <3>2. QED
      BY <3>1
  <2>6. PICK m : m = CHOOSE x \in T : \A y \in T : x >= y
    OBVIOUS
  <2>7. m \in T /\ \A y \in T : m >= y
    BY <2>5, <2>6
  <2>8. Max(T) = m
    BY <2>6 DEF Max
  <2>9. LastSlash(s) = m
    BY <1>3, <1>5, <2>8
  <2>10. m \in 1 .. l /\ s[m] = Slash
    BY <1>2, <2>7
  <2>11. ASSUME NEW j \in m + 1 .. l PROVE s[j] # Slash
    <3>1. j \in 1 .. l /\ ~(m >= j)
      BY <2>10
    <3>2. QED
      BY <1>2, <2>7, <3>1
  <2>12. QED
    BY <1>1, <2>9, <2>10, <2>11
<1>6. QED
  BY <1>4, <1>5

LEMMA RowCutIs ==
  ASSUME NEW s \in Seq(Nat), NEW room \in Nat, Len(s) < room
  PROVE  Cut(s, room) = s
<1>1. PICK l \in Nat : l = Len(s)
  OBVIOUS
<1>2. PICK T : T = {l, room - 1}
  OBVIOUS
<1>3. l \in T /\ \A y \in T : l <= y
  BY <1>1, <1>2
<1>4. PICK m : m = CHOOSE x \in T : \A y \in T : x <= y
  OBVIOUS
<1>5. m \in T /\ \A y \in T : m <= y
  BY <1>3, <1>4
<1>6. m = l
  BY <1>1, <1>2, <1>3, <1>5
<1>7. Min(T) = l
  BY <1>4, <1>6 DEF Min
<1>8. Cut(s, room) = SubSeq(s, 1, Len(s))
  BY <1>1, <1>2, <1>7 DEF Cut
<1>9. QED
  BY <1>8, SubSeqFull

NameFits(path, dir, name) ==
  name # NoName => /\ path \in {name, dir \o name, dir \o <<Slash>> \o name}
                   /\ \A i \in DOMAIN name : name[i] # Slash

(* What stands before a place and what stands from there on. *)
LEMMA CutInTwo ==
  ASSUME NEW s \in Seq(Nat), NEW n \in 0 .. Len(s)
  PROVE  /\ s = SubSeq(s, 1, n) \o SubSeq(s, n + 1, Len(s))
         /\ SubSeq(s, 1, n) \in Seq(Nat) /\ Len(SubSeq(s, 1, n)) = n
         /\ \A i \in 1 .. n : SubSeq(s, 1, n)[i] = s[i]
         /\ SubSeq(s, n + 1, Len(s)) \in Seq(Nat) /\ Len(SubSeq(s, n + 1, Len(s))) = Len(s) - n
         /\ \A i \in 1 .. Len(s) - n : SubSeq(s, n + 1, Len(s))[i] = s[n + i]
<1>1. PICK l \in Nat : l = Len(s) /\ n \in Nat /\ n <= l
  OBVIOUS
<1>2. PICK a : a = SubSeq(s, 1, n)
  OBVIOUS
<1>3. PICK b : b = SubSeq(s, n + 1, l)
  OBVIOUS
<1>4. a \in Seq(Nat) /\ Len(a) = n /\ \A i \in 1 .. n : a[i] = s[i]
  <2>1. n \in Nat /\ n <= Len(s) /\ n \in Int /\ n = IF n > 0 THEN n ELSE 0
    BY <1>1
  <2>2. SubSeq(s, 1, n) \in Seq(Nat) /\ HeadRow(SubSeq(s, 1, n), s, n)
    BY <2>1, RowHead
  <2>3. QED
    BY <1>2, <2>2 DEF HeadRow
<1>5. b \in Seq(Nat) /\ Len(b) = l - n /\ \A i \in 1 .. l - n : b[i] = s[n + i]
  <2>1. PICK p \in Nat \ {0} : p = n + 1
    BY <1>1
  <2>2. l \in Int /\ l <= Len(s)
    BY <1>1
  <2>3. /\ SubSeq(s, p, l) \in Seq(Nat)
        /\ Len(SubSeq(s, p, l)) = IF p <= l THEN l - p + 1 ELSE 0
        /\ \A i \in 1 .. l - p + 1 : SubSeq(s, p, l)[i] = s[p + i - 1]
    BY <2>2, RowCut
  <2>4. /\ b \in Seq(Nat) /\ Len(b) = IF p <= l THEN l - p + 1 ELSE 0
        /\ \A i \in 1 .. l - p + 1 : b[i] = s[p + i - 1]
    <3>1. b = SubSeq(s, p, l)
      BY <1>3, <2>1
    <3>2. QED
      BY <2>3, <3>1
  <2>5. Len(b) = l - n
    <3>1. p <= l => l - p + 1 = l - n
      BY <1>1, <2>1
    <3>2. ~(p <= l) => l - n = 0
      BY <1>1, <2>1
    <3>3. QED
      BY <2>4, <3>1, <3>2
  <2>6. ASSUME NEW i \in 1 .. l - n PROVE b[i] = s[n + i]
    <3>1. i \in 1 .. l - p + 1 /\ p + i - 1 = n + i
      BY <1>1, <2>1
    <3>2. b[i] = s[p + i - 1]
      BY <2>4, <3>1
    <3>3. QED
      BY <3>1, <3>2
  <2>7. QED
    BY <2>4, <2>5, <2>6
<1>6. PICK t : t = a \o b
  OBVIOUS
<1>7. t \in Seq(Nat) /\ Len(t) = n + (l - n)
      /\ (\A i \in 1 .. n : t[i] = a[i]) /\ \A i \in 1 .. l - n : t[n + i] = b[i]
  <2>1. /\ a \o b \in Seq(Nat) /\ Len(a \o b) = Len(a) + Len(b)
        /\ \A i \in 1 .. Len(a) : (a \o b)[i] = a[i]
        /\ \A i \in 1 .. Len(b) : (a \o b)[Len(a) + i] = b[i]
    <3>1. a \in Seq(Nat) /\ b \in Seq(Nat)
      BY <1>4, <1>5
    <3>2. QED
      BY <3>1, RowsJoined
  <2>2. QED
    BY <1>4, <1>5, <1>6, <2>1
<1>8. ASSUME NEW i \in 1 .. Len(s) PROVE t[i] = s[i]
  <2>1. CASE i <= n
    <3>1. i \in 1 .. n
      BY <2>1
    <3>2. QED
      BY <1>4, <1>7, <3>1
  <2>2. CASE ~(i <= n)
    <3>1. i - n \in 1 .. l - n /\ n + (i - n) = i
      BY <1>1, <2>2
    <3>2. QED
      BY <1>5, <1>7, <3>1
  <2>3. QED
    BY <2>1, <2>2
<1>9. Len(t) = Len(s)
  BY <1>1, <1>7
<1>10. t = s
  BY <1>7, <1>8, <1>9, SeqEqual
<1>11. QED
  BY <1>1, <1>2, <1>3, <1>4, <1>5, <1>6, <1>10

LEMMA NamesFit ==
  ASSUME NEW path \in Seq(Nat)
  PROVE  NameFits(path, FileGetDir(path, Len(path) + 2), FileGetName(path))
<1>1. PICK l \in Nat : l = Len(path)
  OBVIOUS
<1>2. PICK slash \in 0 .. l : slash = LastSlash(path)
  BY <1>1, LastSlashIs
<1>3. /\ slash # 0 => path[slash] = Slash
      /\ \A i \in slash + 1 .. l : path[i] # Slash
  BY <1>1, <1>2, LastSlashIs
<1>4. PICK name : name = SubSeq(path, slash + 1, l)
  OBVIOUS
<1>5. name \in Seq(Nat) /\ Len(name) = l - slash /\ \A i \in 1 .. l - slash : name[i] = path[slash + i]
  BY <1>1, <1>4, CutInTwo
<1>6. \A i \in DOMAIN name : name[i] # Slash
  <2>1. ASSUME NEW i \in 1 .. l - slash PROVE name[i] # Slash
    <3>1. slash + i \in slash + 1 .. l
      BY <1>1
    <3>2. QED
      BY <1>3, <1>5, <3>1
  <2>2. DOMAIN name = 1 .. l - slash
    BY <1>5
  <2>3. QED
    BY <2>1, <2>2
<1>7. FileGetName(path) = IF path = <<Dot>> THEN NoName ELSE name
  BY <1>1, <1>2, <1>4 DEF FileGetName
<1>8. PICK dir : dir = FileGetDir(path, l + 2)
  OBVIOUS
<1>9. Cut(path, l + 2) = path
  <2>1. l + 2 \in Nat /\ Len(path) < l + 2
    BY <1>1
  <2>2. QED
    BY <2>1, RowCutIs
<1>10. dir = CASE slash = 0 -> Cut(<<Dot>>, l + 2)
               [] slash = 1 -> Cut(<<Slash>>, l + 2)
               [] OTHER -> SubSeq(path, 1, slash - 1)
  BY <1>2, <1>8, <1>9 DEF FileGetDir
<1>11. path = SubSeq(path, 1, slash) \o name
  BY <1>1, <1>4, CutInTwo
<1>12. path \in {name, dir \o name, dir \o <<Slash>> \o name}
  <2>1. CASE slash = 0
    <3>1. name = path
      BY <1>1, <1>4, <2>1, SubSeqFull
    <3>2. QED
      BY <3>1
  <2>2. CASE slash # 0
    <3>1. PICK lead : lead = SubSeq(path, 1, slash)
      OBVIOUS
    <3>2. lead \in Seq(Nat) /\ Len(lead) = slash /\ \A i \in 1 .. slash : lead[i] = path[i]
      BY <1>1, <3>1, CutInTwo
    <3>3. PICK one : one = <<Slash>>
      OBVIOUS
    <3>4. one \in Seq(Nat) /\ Len(one) = 1 /\ one[1] = Slash
      BY <3>3 DEF Slash
    <3>5. CASE slash = 1
      <4>1. Cut(one, l + 2) = one
        <5>1. l + 2 \in Nat /\ Len(one) < l + 2
          BY <3>4
        <5>2. QED
          BY <3>4, <5>1, RowCutIs
      <4>2. dir = one
        BY <1>10, <3>3, <3>5, <4>1
      <4>3. Len(lead) = Len(one) /\ \A i \in 1 .. Len(lead) : lead[i] = one[i]
        BY <1>3, <3>2, <3>4, <3>5
      <4>4. lead = one
        BY <3>2, <3>4, <4>3, SeqEqual
      <4>5. path = dir \o name
        BY <1>11, <3>1, <4>2, <4>4
      <4>6. QED
        BY <4>5
    <3>6. CASE slash # 1
      <4>1. dir = SubSeq(path, 1, slash - 1)
        BY <1>10, <2>2, <3>6
      <4>2. slash - 1 \in 0 .. Len(path) /\ slash - 1 \in 0 .. l
        BY <1>1, <2>2
      <4>3. dir \in Seq(Nat) /\ Len(dir) = slash - 1 /\ \A i \in 1 .. slash - 1 : dir[i] = path[i]
        BY <4>1, <4>2, CutInTwo
      <4>4. PICK t : t = dir \o one
        OBVIOUS
      <4>5. t \in Seq(Nat) /\ Len(t) = Len(dir) + Len(one)
            /\ (\A i \in 1 .. Len(dir) : t[i] = dir[i]) /\ \A i \in 1 .. Len(one) : t[Len(dir) + i] = one[i]
        <5>1. /\ dir \o one \in Seq(Nat) /\ Len(dir \o one) = Len(dir) + Len(one)
              /\ \A i \in 1 .. Len(dir) : (dir \o one)[i] = dir[i]
              /\ \A i \in 1 .. Len(one) : (dir \o one)[Len(dir) + i] = one[i]
          <6>1. dir \in Seq(Nat) /\ one \in Seq(Nat)
            BY <3>4, <4>3
          <6>2. QED
            BY <6>1, RowsJoined
        <5>2. QED
          BY <4>4, <5>1
      <4>6. Len(t) = slash
        BY <3>4, <4>2, <4>3, <4>5
      <4>7. ASSUME NEW i \in 1 .. slash PROVE t[i] = lead[i]
        <5>1. CASE i = slash
          <6>1. t[(slash - 1) + 1] = one[1]
            BY <3>4, <4>3, <4>5
          <6>2. (slash - 1) + 1 = slash
            BY <4>2
          <6>3. QED
            BY <1>3, <2>2, <3>2, <3>4, <5>1, <6>1, <6>2
        <5>2. CASE i # slash
          <6>1. i \in 1 .. slash - 1
            BY <5>2
          <6>2. QED
            BY <3>2, <4>3, <4>5, <6>1
        <5>3. QED
          BY <5>1, <5>2
      <4>8. t = lead
        BY <3>2, <4>5, <4>6, <4>7, SeqEqual
      <4>9. path = dir \o one \o name
        BY <1>11, <3>1, <4>4, <4>8
      <4>10. QED
        BY <3>3, <4>9
    <3>7. QED
      BY <3>5, <3>6
  <2>3. QED
    BY <2>1, <2>2
<1>13. QED
  BY <1>1, <1>6, <1>7, <1>8, <1>12 DEF NameFits

LEMMA CleanWay ==
  ASSUME NEW path \in Seq(Nat)
  PROVE  Way(FileCleanPath(path)) = Way(path)
<1>1. PICK l \in Nat : l = Len(path)
  OBVIOUS
<1>2. CASE l > 1 /\ path[l] = Slash
  <2>1. PICK w : IsWay(w, path)
    BY WayExists
  <2>2. FileCleanPath(path) = SubSeq(path, 1, l - 1)
    BY <1>1, <1>2 DEF FileCleanPath
  <2>3. l - 1 \in 0 .. Len(path) /\ l \in 1 .. Len(path)
    BY <1>1, <1>2
  <2>4. Way(SubSeq(path, 1, l - 1)) = w[l - 1]
    BY <2>1, <2>3, WayOfPrefix
  <2>5. w[l] = w[l - 1]
    BY <1>2, <2>1, <2>3, ClosesMore
  <2>6. Way(path) = w[l]
    BY <1>1, <2>1, WayIs
  <2>7. QED
    BY <2>2, <2>4, <2>5, <2>6
<1>3. CASE ~(l > 1 /\ path[l] = Slash)
  BY <1>1, <1>3 DEF FileCleanPath
<1>4. QED
  BY <1>2, <1>3

(* The paths of file_io.c fit together, whatever the path and the directories there are. *)
LEMMA AllPaths ==
  ASSUME NEW path \in Seq(Nat), NEW dirs, NEW denied
  PROVE  PathsFit(path, dirs, denied)
<1>1. NameFits(path, FileGetDir(path, Len(path) + 2), FileGetName(path))
  BY NamesFit
<1>2. Way(FileCleanPath(path)) = Way(path)
  BY CleanWay
<1>3. DirsFit(path, dirs, denied, Way(path), FileCreateDir(dirs, denied, path))
  BY DirsAreMade
<1>4. QED
  BY <1>1, <1>2, <1>3, Zenon DEF PathsFit, NameFits, DirsFit, Above

-----------------------------------------------------------------------------
(* parse_argv and the words of its text, a character each. *)
ArgvState(l) == [buf : [1 .. l + 1 -> Nat], cp : Nat, dest : Nat, quote : Nat,
                 argv : Seq(Nat), open : BOOLEAN, done : BOOLEAN]
WordState == [words : Names, quote : Nat, open : BOOLEAN]

LEMMA LetterIs ==
  ASSUME NEW c \in Letter
  PROVE  c \in Nat /\ c # 0
BY DEF Letter

LEMMA LettersAreNumbers ==
  ASSUME NEW txt \in Seq(Letter)
  PROVE  txt \in Seq(Nat)
<1>1. PICK l \in Nat : l = Len(txt)
  OBVIOUS
<1>2. ASSUME NEW i \in 1 .. l PROVE txt[i] \in Nat
  <2>1. txt[i] \in Letter
    BY <1>1
  <2>2. QED
    BY <2>1, LetterIs
<1>3. txt \in [1 .. l -> Letter]
  BY <1>1
<1>4. txt \in [1 .. l -> Nat]
  BY <1>2, <1>3
<1>5. QED
  BY <1>4, RowIs

LEMMA CopyArgIn ==
  ASSUME NEW l \in Nat, NEW x \in ArgvState(l), NEW c \in Nat
  PROVE  CopyArg(x, c) \in ArgvState(l)
<1>1. /\ x.buf \in [1 .. l + 1 -> Nat] /\ x.cp \in Nat /\ x.dest \in Nat /\ x.quote \in Nat
      /\ x.argv \in Seq(Nat) /\ x.open \in BOOLEAN /\ x.done \in BOOLEAN
  BY DEF ArgvState
<1>2. x = [buf |-> x.buf, cp |-> x.cp, dest |-> x.dest, quote |-> x.quote, argv |-> x.argv,
           open |-> x.open, done |-> x.done]
  BY DEF ArgvState
<1>3. \A a \in Nat : [x.buf EXCEPT ![x.dest] = a] \in [1 .. l + 1 -> Nat]
  BY <1>1
<1>4. x.cp + 1 \in Nat /\ x.dest + 1 \in Nat
  BY <1>1
<1>5. CASE c = 0 \/ (x.quote = 0 /\ c \in Blanks)
  <2>1. PICK b \in [1 .. l + 1 -> Nat] : b = [x.buf EXCEPT ![x.dest] = 0]
    BY <1>3
  <2>2. CopyArg(x, c) = [x EXCEPT !.buf[x.dest] = 0, !.cp = @ + 1, !.open = FALSE, !.done = c = 0]
    BY <1>5 DEF CopyArg
  <2>3. CopyArg(x, c) = [buf |-> b, cp |-> x.cp + 1, dest |-> x.dest, quote |-> x.quote,
                         argv |-> x.argv, open |-> FALSE, done |-> c = 0]
    BY <1>2, <2>1, <2>2
  <2>4. PICK e : e = (c = 0)
    OBVIOUS
  <2>5. e \in BOOLEAN
    BY <2>4
  <2>6. CopyArg(x, c) = [buf |-> b, cp |-> x.cp + 1, dest |-> x.dest, quote |-> x.quote,
                         argv |-> x.argv, open |-> FALSE, done |-> e]
    BY <2>3, <2>4
  <2>7. QED
    BY <1>1, <1>4, <2>5, <2>6 DEF ArgvState
<1>6. CASE ~(c = 0 \/ (x.quote = 0 /\ c \in Blanks)) /\ x.quote = 0 /\ c \in Quotes
  <2>1. CopyArg(x, c) = [x EXCEPT !.cp = @ + 1, !.quote = c]
    BY <1>6 DEF CopyArg
  <2>2. CopyArg(x, c) = [buf |-> x.buf, cp |-> x.cp + 1, dest |-> x.dest, quote |-> c,
                         argv |-> x.argv, open |-> x.open, done |-> x.done]
    BY <1>2, <2>1
  <2>3. QED
    BY <1>1, <1>4, <2>2 DEF ArgvState
<1>7. CASE ~(c = 0 \/ (x.quote = 0 /\ c \in Blanks)) /\ ~(x.quote = 0 /\ c \in Quotes)
           /\ x.quote # 0 /\ c = x.quote
  <2>1. CopyArg(x, c) = [x EXCEPT !.cp = @ + 1, !.quote = 0]
    BY <1>7 DEF CopyArg
  <2>2. CopyArg(x, c) = [buf |-> x.buf, cp |-> x.cp + 1, dest |-> x.dest, quote |-> 0,
                         argv |-> x.argv, open |-> x.open, done |-> x.done]
    BY <1>2, <2>1
  <2>3. QED
    BY <1>1, <1>4, <2>2 DEF ArgvState
<1>8. CASE ~(c = 0 \/ (x.quote = 0 /\ c \in Blanks)) /\ ~(x.quote = 0 /\ c \in Quotes)
           /\ ~(x.quote # 0 /\ c = x.quote)
  <2>1. PICK b \in [1 .. l + 1 -> Nat] : b = [x.buf EXCEPT ![x.dest] = c]
    BY <1>3
  <2>2. CopyArg(x, c) = [x EXCEPT !.buf[x.dest] = c, !.cp = @ + 1, !.dest = @ + 1]
    BY <1>8 DEF CopyArg
  <2>3. CopyArg(x, c) = [buf |-> b, cp |-> x.cp + 1, dest |-> x.dest + 1, quote |-> x.quote,
                         argv |-> x.argv, open |-> x.open, done |-> x.done]
    BY <1>2, <2>1, <2>2
  <2>4. QED
    BY <1>1, <1>4, <2>3 DEF ArgvState
<1>9. QED
  BY <1>5, <1>6, <1>7, <1>8

(* An argument begins where cp stands, and with it a word. *)
Starts(x) == [x EXCEPT !.argv = Append(@, x.cp), !.dest = x.cp, !.open = TRUE]
Begins(s) == [s EXCEPT !.words = Append(@, <<>>), !.open = TRUE]

LEMMA StartsIn ==
  ASSUME NEW l \in Nat, NEW x \in ArgvState(l)
  PROVE  Starts(x) \in ArgvState(l)
<1>1. x.cp \in Nat /\ x.argv \in Seq(Nat)
  BY DEF ArgvState
<1>2. Append(x.argv, x.cp) \in Seq(Nat)
  BY <1>1
<1>3. QED
  BY <1>1, <1>2 DEF ArgvState, Starts

LEMMA BeginsIn ==
  ASSUME NEW s \in WordState
  PROVE  /\ Begins(s) \in WordState /\ Begins(s).open /\ Begins(s).quote = s.quote
         /\ Begins(s).words = Append(s.words, <<>>)
         /\ Len(Begins(s).words) = Len(s.words) + 1
         /\ \A j \in 1 .. Len(s.words) : Begins(s).words[j] = s.words[j]
         /\ Begins(s).words[Len(s.words) + 1] = <<>>
<1>1. s.words \in Seq(Seq(Nat)) /\ s.quote \in Nat
  BY DEF WordState, Names
<1>2. PICK one \in Seq(Nat) : one = <<>>
  <2>1. <<>> \in Seq(Nat)
    OBVIOUS
  <2>2. QED
    BY <2>1, Zenon
<1>3. PICK w : w = s.words
  OBVIOUS
<1>4. /\ Append(w, one) \in Seq(Seq(Nat)) /\ Len(Append(w, one)) = Len(w) + 1
      /\ \A i \in 1 .. Len(w) : Append(w, one)[i] = w[i]
      /\ Append(w, one)[Len(w) + 1] = one
  <2>1. w \in Seq(Seq(Nat))
    BY <1>1, <1>3
  <2>2. QED
    BY <2>1, AppendProperties
<1>5. Begins(s).words = Append(w, one) /\ Begins(s).open /\ Begins(s).quote = s.quote
  BY <1>2, <1>3 DEF Begins, WordState
<1>6. Begins(s) \in WordState
  <2>1. Append(s.words, <<>>) \in Names
    BY <1>2, <1>3, <1>4 DEF Names
  <2>2. QED
    BY <1>1, <2>1 DEF Begins, WordState
<1>7. QED
  BY <1>2, <1>3, <1>4, <1>5, <1>6

(* A character of an open word. *)
OpenTurn(s, c) ==
  IF s.quote = 0 /\ c \in Blanks THEN [s EXCEPT !.open = FALSE]
  ELSE IF s.quote = 0 /\ c \in Quotes THEN [s EXCEPT !.quote = c]
  ELSE IF c = s.quote THEN [s EXCEPT !.quote = 0]
  ELSE [s EXCEPT !.words[Len(s.words)] = Append(@, c)]

LEMMA WordTurnIs ==
  ASSUME NEW s \in WordState, NEW c \in Nat
  PROVE  /\ s.open => WordTurn(s, c) = OpenTurn(s, c)
         /\ ~s.open /\ s.quote = 0 /\ c \in Blanks => WordTurn(s, c) = s
         /\ ~s.open /\ ~(s.quote = 0 /\ c \in Blanks) => WordTurn(s, c) = OpenTurn(Begins(s), c)
<1>1. s.open => WordTurn(s, c) = OpenTurn(s, c)
  BY DEF WordTurn, OpenTurn
<1>2. ASSUME ~s.open, s.quote = 0 /\ c \in Blanks PROVE WordTurn(s, c) = s
  <2>1. WordTurn(s, c) = [s EXCEPT !.open = FALSE]
    BY <1>2 DEF WordTurn
  <2>2. s.open = FALSE
    BY <1>2 DEF WordState
  <2>3. [s EXCEPT !.open = FALSE] = s
    BY <2>2 DEF WordState
  <2>4. QED
    BY <2>1, <2>3
<1>3. ASSUME ~s.open, ~(s.quote = 0 /\ c \in Blanks) PROVE WordTurn(s, c) = OpenTurn(Begins(s), c)
  <2>1. PICK now : now = Begins(s)
    OBVIOUS
  <2>2. now.quote = s.quote
    BY <2>1, BeginsIn
  <2>3. WordTurn(s, c) = IF s.quote = 0 /\ c \in Quotes THEN [now EXCEPT !.quote = c]
                         ELSE IF c = s.quote THEN [now EXCEPT !.quote = 0]
                         ELSE [now EXCEPT !.words[Len(now.words)] = Append(@, c)]
    BY <1>3, <2>1 DEF WordTurn, Begins
  <2>4. OpenTurn(now, c) = IF s.quote = 0 /\ c \in Quotes THEN [now EXCEPT !.quote = c]
                           ELSE IF c = s.quote THEN [now EXCEPT !.quote = 0]
                           ELSE [now EXCEPT !.words[Len(now.words)] = Append(@, c)]
    BY <1>3, <2>2 DEF OpenTurn
  <2>5. QED
    BY <2>1, <2>3, <2>4
<1>4. QED
  BY <1>1, <1>2, <1>3

LEMMA OpenTurnIn ==
  ASSUME NEW s \in WordState, NEW c \in Nat
  PROVE  OpenTurn(s, c) \in WordState
<1>1. s.words \in Names /\ s.quote \in Nat /\ s.open \in BOOLEAN
  BY DEF WordState
<1>2. [s.words EXCEPT ![Len(s.words)] = Append(@, c)] \in Names
  BY <1>1, LastNameGrows
<1>3. [s EXCEPT !.words[Len(s.words)] = Append(@, c)]
        = [s EXCEPT !.words = [s.words EXCEPT ![Len(s.words)] = Append(@, c)]]
  OBVIOUS
<1>4. [s EXCEPT !.words = [s.words EXCEPT ![Len(s.words)] = Append(@, c)]] \in WordState
  BY <1>1, <1>2 DEF WordState
<1>5. [s EXCEPT !.open = FALSE] \in WordState /\ [s EXCEPT !.quote = c] \in WordState
      /\ [s EXCEPT !.quote = 0] \in WordState
  BY <1>1 DEF WordState
<1>6. QED
  BY <1>3, <1>4, <1>5, Zenon DEF OpenTurn

LEMMA WordTurnIn ==
  ASSUME NEW s \in WordState, NEW c \in Nat
  PROVE  WordTurn(s, c) \in WordState
<1>1. Begins(s) \in WordState
  BY BeginsIn
<1>2. OpenTurn(s, c) \in WordState /\ OpenTurn(Begins(s), c) \in WordState
  BY <1>1, OpenTurnIn
<1>3. QED
  BY <1>2, WordTurnIs

LEMMA ArgvTurnIn ==
  ASSUME NEW l \in Nat, NEW n \in Nat, NEW x \in ArgvState(l), x.cp \in 1 .. l + 1
  PROVE  ArgvTurn(n, x) \in ArgvState(l)
<1>1. PICK c : c = x.buf[x.cp]
  OBVIOUS
<1>2. c \in Nat
  BY <1>1 DEF ArgvState
<1>3. CopyArg(x, c) \in ArgvState(l) /\ CopyArg(Starts(x), c) \in ArgvState(l)
  BY <1>2, StartsIn, CopyArgIn
<1>4. [x EXCEPT !.done = TRUE] \in ArgvState(l) /\ [x EXCEPT !.cp = @ + 1] \in ArgvState(l)
  <2>1. [x EXCEPT !.done = TRUE] \in ArgvState(l)
    BY DEF ArgvState
  <2>2. x.cp + 1 \in Nat
    BY DEF ArgvState
  <2>3. [x EXCEPT !.cp = x.cp + 1] \in ArgvState(l)
    BY <2>2 DEF ArgvState
  <2>4. QED
    BY <2>1, <2>3
<1>5. QED
  BY <1>1, <1>3, <1>4, Zenon DEF ArgvTurn, Starts

(* A word lies at a place of the buffer; it has been closed before the place e. *)
Lies(buf, p, word) == \A i \in 1 .. Len(word) : buf[p + i - 1] = word[i] /\ word[i] # 0
Shut(buf, p, word, e) ==
  p \in Nat \ {0} /\ p + Len(word) < e /\ Lies(buf, p, word) /\ buf[p + Len(word)] = 0
AllShut(buf, argv, words, e, m) == \A j \in 1 .. m : Shut(buf, argv[j], words[j], e)

(* The place from where on the buffer is still written, and the arguments before it. *)
Edge(x) == IF x.open THEN x.argv[Len(x.argv)] ELSE x.cp
Count(x) == IF x.open THEN Len(x.argv) - 1 ELSE Len(x.argv)
Unread(buf, txt, k) ==
  buf[Len(txt) + 1] = 0 /\ \A i \in k + 1 .. Len(txt) : buf[i] = txt[i]
Opened(x, s) ==
  x.open => /\ Len(x.argv) > 0 /\ Edge(x) > 0 /\ x.dest <= x.cp
            /\ x.dest = Edge(x) + Len(s.words[Len(x.argv)])
            /\ Lies(x.buf, Edge(x), s.words[Len(x.argv)])

(* k characters read by both, and nothing lost. *)
Fits(x, s, k, n, txt) ==
  /\ x \in ArgvState(Len(txt)) /\ s \in WordState
  /\ ~x.done /\ x.cp = k + 1 /\ x.open = s.open /\ x.quote = s.quote /\ (x.quote # 0 => x.open)
  /\ Len(x.argv) = Len(s.words) /\ Len(x.argv) <= n
  /\ Unread(x.buf, txt, k)
  /\ AllShut(x.buf, x.argv, s.words, Edge(x), Count(x))
  /\ Opened(x, s)

Put(buf, d, c) == [buf EXCEPT ![d] = c]

SameBefore(was, now, e) == \A j \in 1 .. e - 1 : now[j] = was[j]
SameFirst(was, now, m) == \A j \in 1 .. m : now[j] = was[j]

(* What is shut stays so whatever is written from e on. *)
LEMMA ShutStays ==
  ASSUME NEW buf, NEW now, NEW e \in Nat, NEW f \in Nat, e <= f,
         SameBefore(buf, now, e),
         NEW p, NEW word \in Seq(Nat), Shut(buf, p, word, e)
  PROVE  Shut(now, p, word, f)
<1>1. PICK m \in Nat : m = Len(word)
  OBVIOUS
<1>2. p \in Nat \ {0} /\ p + m < e /\ buf[p + m] = 0
  BY <1>1 DEF Shut
<1>3. p + m \in 1 .. e - 1 /\ p + m < f
  BY <1>2
<1>4. now[p + m] = 0
  BY <1>2, <1>3 DEF SameBefore
<1>5. ASSUME NEW i \in 1 .. m PROVE now[p + i - 1] = word[i] /\ word[i] # 0
  <2>1. p + i - 1 \in 1 .. e - 1
    BY <1>2
  <2>2. buf[p + i - 1] = word[i] /\ word[i] # 0
    BY <1>1 DEF Shut, Lies
  <2>3. QED
    BY <2>1, <2>2 DEF SameBefore
<1>6. QED
  BY <1>1, <1>2, <1>3, <1>4, <1>5 DEF Shut, Lies

LEMMA AllStay ==
  ASSUME NEW buf, NEW now, NEW e \in Nat, NEW f \in Nat, e <= f,
         SameBefore(buf, now, e),
         NEW argv, NEW longer, NEW words \in Names, NEW more, NEW m \in Nat, m <= Len(words),
         SameFirst(argv, longer, m), SameFirst(words, more, m),
         AllShut(buf, argv, words, e, m)
  PROVE  AllShut(now, longer, more, f, m)
<1>1. ASSUME NEW j \in 1 .. m PROVE Shut(now, longer[j], more[j], f)
  <2>1. words[j] \in Seq(Nat)
    <3>1. words \in Seq(Seq(Nat)) /\ Len(words) \in Nat
      BY DEF Names
    <3>2. j \in 1 .. Len(words)
      BY <3>1
    <3>3. QED
      BY <3>1, <3>2
  <2>2. Shut(buf, argv[j], words[j], e)
    BY DEF AllShut
  <2>3. Shut(now, argv[j], words[j], f)
    BY <2>1, <2>2, ShutStays
  <2>4. QED
    BY <2>3 DEF SameFirst
<1>2. QED
  BY <1>1 DEF AllShut

(* A letter at the end of an open word, or the NUL that shuts it. *)
LEMMA LetterLies ==
  ASSUME NEW z \in Nat, NEW buf \in [1 .. z -> Nat], NEW p \in 1 .. z, NEW word \in Seq(Nat),
         Lies(buf, p, word), NEW d \in 1 .. z, d = p + Len(word), NEW c \in Nat, c # 0
  PROVE  Lies(Put(buf, d, c), p, Append(word, c))
<1>1. PICK m \in Nat : m = Len(word)
  OBVIOUS
<1>2. PICK more : more = Append(word, c)
  OBVIOUS
<1>3. Len(more) = m + 1 /\ (\A i \in 1 .. m : more[i] = word[i]) /\ more[m + 1] = c
  BY <1>1, <1>2, AppendProperties
<1>4. PICK now : now = Put(buf, d, c)
  OBVIOUS
<1>5. now[d] = c /\ \A i \in 1 .. z : i # d => now[i] = buf[i]
  BY <1>4 DEF Put
<1>6. ASSUME NEW i \in 1 .. m + 1 PROVE now[p + i - 1] = more[i] /\ more[i] # 0
  <2>1. CASE i = m + 1
    <3>1. p + i - 1 = d
      BY <1>1, <2>1
    <3>2. QED
      BY <1>3, <1>5, <2>1, <3>1
  <2>2. CASE i # m + 1
    <3>0. d = p + m
      BY <1>1
    <3>1. i \in 1 .. m /\ p + i - 1 \in 1 .. z /\ p + i - 1 # d
      BY <2>2, <3>0
    <3>2. buf[p + i - 1] = word[i] /\ word[i] # 0
      BY <1>1, <3>1 DEF Lies
    <3>3. QED
      BY <1>3, <1>5, <3>1, <3>2
  <2>3. QED
    BY <2>1, <2>2
<1>7. QED
  BY <1>2, <1>3, <1>4, <1>6 DEF Lies

LEMMA NulShuts ==
  ASSUME NEW z \in Nat, NEW buf \in [1 .. z -> Nat], NEW p \in 1 .. z, NEW word \in Seq(Nat),
         Lies(buf, p, word), NEW d \in 1 .. z, d = p + Len(word), NEW f \in Nat, d < f
  PROVE  Shut(Put(buf, d, 0), p, word, f)
<1>1. PICK m \in Nat : m = Len(word)
  OBVIOUS
<1>2. PICK now : now = Put(buf, d, 0)
  OBVIOUS
<1>3. now[d] = 0 /\ \A i \in 1 .. z : i # d => now[i] = buf[i]
  BY <1>2 DEF Put
<1>4. ASSUME NEW i \in 1 .. m PROVE now[p + i - 1] = word[i] /\ word[i] # 0
  <2>1. p + i - 1 \in 1 .. z /\ p + i - 1 # d
    BY <1>1
  <2>2. buf[p + i - 1] = word[i] /\ word[i] # 0
    BY <1>1 DEF Lies
  <2>3. QED
    BY <1>3, <2>1, <2>2
<1>5. QED
  BY <1>1, <1>2, <1>3, <1>4 DEF Shut, Lies

(* What a state that fits is made of. *)
Parted(x, s, k, n, l) ==
  /\ x.buf \in [1 .. l + 1 -> Nat] /\ x.cp = k + 1 /\ x.dest \in Nat
  /\ x.quote \in Nat /\ x.argv \in Seq(Nat) /\ x.open \in BOOLEAN /\ x.done = FALSE
  /\ s.words \in Names /\ s.quote = x.quote /\ s.open = x.open
  /\ Len(x.argv) = Len(s.words) /\ Len(x.argv) \in Nat /\ Len(x.argv) <= n
  /\ \A j \in 1 .. Len(s.words) : s.words[j] \in Seq(Nat)

LEMMA FitsParts ==
  ASSUME NEW txt, NEW k, NEW n, NEW x, NEW s, Fits(x, s, k, n, txt)
  PROVE  Parted(x, s, k, n, Len(txt))
<1>1. x \in ArgvState(Len(txt)) /\ s \in WordState
  BY DEF Fits
<1>2. /\ x.buf \in [1 .. Len(txt) + 1 -> Nat] /\ x.dest \in Nat
      /\ x.quote \in Nat /\ x.argv \in Seq(Nat) /\ x.open \in BOOLEAN /\ x.done \in BOOLEAN
  BY <1>1 DEF ArgvState
<1>3. s.words \in Names
  BY <1>1 DEF WordState
<1>4. /\ ~x.done /\ x.cp = k + 1 /\ x.open = s.open /\ x.quote = s.quote
      /\ Len(x.argv) = Len(s.words) /\ Len(x.argv) <= n
  BY DEF Fits
<1>5. Len(x.argv) \in Nat
  BY <1>2
<1>6. \A j \in 1 .. Len(s.words) : s.words[j] \in Seq(Nat)
  BY <1>3 DEF Names
<1>7. QED
  BY <1>2, <1>3, <1>4, <1>5, <1>6 DEF Parted

(* In an argument a character does to both the same. *)
LEMMA ArgFits ==
  ASSUME NEW txt \in Seq(Letter), NEW k \in 0 .. Len(txt) - 1, NEW n \in Nat, NEW x, NEW s,
         Fits(x, s, k, n, txt), x.open, NEW c, c = txt[k + 1]
  PROVE  Fits(CopyArg(x, c), OpenTurn(s, c), k + 1, n, txt)
<1>1. PICK l \in Nat : l = Len(txt)
  OBVIOUS
<1>2. k \in 0 .. Len(txt) /\ k \in Nat /\ k + 1 <= l /\ k + 1 \in 1 .. l
  BY <1>1
<1>3. c \in Nat /\ c # 0
  <2>1. c \in Letter
    BY <1>1, <1>2
  <2>2. QED
    BY <2>1, LetterIs
<1>4. /\ x.buf \in [1 .. l + 1 -> Nat] /\ x.cp = k + 1 /\ x.dest \in Nat
      /\ x.quote \in Nat /\ x.argv \in Seq(Nat) /\ x.open = TRUE /\ x.done = FALSE
      /\ s.words \in Names /\ s.quote = x.quote /\ s.open = TRUE
  <2>1. Parted(x, s, k, n, l)
    BY <1>1, FitsParts
  <2>2. QED
    BY <2>1 DEF Parted
<1>5. PICK m \in Nat : m = Len(x.argv) /\ m = Len(s.words) /\ m <= n
  <2>1. Parted(x, s, k, n, l)
    BY <1>1, FitsParts
  <2>2. PICK m \in Nat : m = Len(x.argv)
    BY <2>1 DEF Parted
  <2>3. QED
    BY <2>1, <2>2 DEF Parted
<1>6. PICK word : word = s.words[m]
  OBVIOUS
<1>7. PICK e \in Nat : e = Edge(x) /\ e = x.argv[m] /\ m > 0
  <2>1. m > 0
    BY <1>4, <1>5 DEF Fits, Opened
  <2>2. m \in 1 .. Len(x.argv) /\ x.argv \in Seq(Nat)
    BY <1>4, <1>5, <2>1
  <2>3. x.argv[m] \in Nat
    BY <2>2
  <2>4. Edge(x) = x.argv[m]
    BY <1>4, <1>5 DEF Edge
  <2>5. QED
    BY <2>1, <2>3, <2>4
<1>8. /\ m > 0 /\ e > 0 /\ x.dest <= k + 1 /\ x.dest = e + Len(word)
      /\ Lies(x.buf, e, word)
  <2>1. Opened(x, s)
    BY DEF Fits
  <2>2. QED
    BY <1>4, <1>5, <1>6, <1>7, <2>1 DEF Opened
<1>9. m \in 1 .. m /\ word \in Seq(Nat)
  <2>1. m \in 1 .. Len(s.words)
    BY <1>5, <1>8
  <2>2. QED
    <3>1. Parted(x, s, k, n, l)
      BY <1>1, FitsParts
    <3>2. QED
      BY <1>5, <1>6, <2>1, <3>1 DEF Parted
<1>10. PICK d \in Nat, o \in Nat : d = x.dest /\ o = Len(word)
  BY <1>4, <1>9
<1>11. e = x.argv[m] /\ e \in Nat
  BY <1>7
<1>12. d = e + o /\ d <= k + 1 /\ e > 0
  BY <1>8, <1>10
<1>13. d \in 1 .. l + 1 /\ e \in 1 .. l + 1 /\ e <= d /\ l + 1 \in Nat
  BY <1>2, <1>10, <1>11, <1>12, SMTT(30)
<1>14. PICK b \in [1 .. l + 1 -> Nat] : b = x.buf
  BY <1>4
<1>15. PICK ws \in Names : ws = s.words
  BY <1>4
<1>16. PICK av : av = x.argv
  OBVIOUS
<1>17. AllShut(b, av, ws, e, m - 1) /\ Unread(b, txt, k) /\ Lies(b, e, word) /\ ws[m] = word
  <2>1. Count(x) = m - 1
    BY <1>4, <1>5 DEF Count
  <2>2. AllShut(x.buf, x.argv, s.words, Edge(x), Count(x)) /\ Unread(x.buf, txt, k)
    BY DEF Fits
  <2>3. QED
    BY <1>6, <1>7, <1>8, <1>14, <1>15, <1>16, <2>1, <2>2
<1>18. CopyArg(x, c) \in ArgvState(l) /\ OpenTurn(s, c) \in WordState
  <2>1. x \in ArgvState(l) /\ s \in WordState
    BY <1>1 DEF Fits
  <2>2. QED
    BY <1>3, <2>1, CopyArgIn, OpenTurnIn
<1>19. PICK y : y = CopyArg(x, c)
  OBVIOUS
<1>20. PICK t : t = OpenTurn(s, c)
  OBVIOUS
<1>21. k + 1 + 1 = k + 2 /\ x.cp + 1 = k + 2 /\ k + 2 \in Nat /\ e <= k + 2 /\ d < k + 2
       /\ d + 1 <= k + 2 /\ d + 1 = e + (o + 1) /\ d + 1 \in Nat
  <2>1. k + 1 + 1 = k + 2 /\ k + 2 \in Nat
    BY <1>2
  <2>2. x.cp + 1 = k + 2
    BY <1>2, <1>4
  <2>3. e <= k + 2 /\ d < k + 2 /\ d + 1 <= k + 2 /\ d + 1 \in Nat
    BY <1>2, <1>12
  <2>4. d + 1 = e + (o + 1)
    BY <1>12
  <2>5. QED
    BY <2>1, <2>2, <2>3, <2>4
<1>22. Unread(b, txt, k + 1)
  <2>1. \A i \in k + 1 + 1 .. Len(txt) : i \in k + 1 .. Len(txt)
    BY <1>2
  <2>2. QED
    BY <1>17, <2>1 DEF Unread
<1>23. ASSUME NEW a \in Nat PROVE Unread(Put(b, d, a), txt, k + 1)
  <2>1. PICK now : now = Put(b, d, a)
    OBVIOUS
  <2>2. l + 1 \in 1 .. l + 1 /\ l + 1 # d
    BY <1>2, <1>10, <1>12
  <2>3. \A i \in 1 .. l + 1 : i # d => now[i] = b[i]
    BY <1>13, <2>1 DEF Put
  <2>4. ASSUME NEW i \in k + 1 + 1 .. Len(txt) PROVE now[i] = txt[i]
    <3>1. i \in 1 .. l + 1 /\ i # d
      BY <1>1, <1>2, <1>10, <1>12
    <3>2. QED
      BY <1>22, <2>3, <3>1 DEF Unread
  <2>5. now[Len(txt) + 1] = 0
    BY <1>1, <1>22, <2>2, <2>3 DEF Unread
  <2>6. QED
    BY <2>1, <2>4, <2>5 DEF Unread
<1>24. SameFirst(av, av, m - 1) /\ SameFirst(ws, ws, m - 1)
  BY DEF SameFirst
<1>25. ASSUME NEW a \in Nat, NEW more, NEW f \in Nat, e <= f,
              SameFirst(ws, more, m - 1)
       PROVE  AllShut(Put(b, d, a), av, more, f, m - 1)
  <2>1. PICK now : now = Put(b, d, a)
    OBVIOUS
  <2>2. \A i \in 1 .. l + 1 : i # d => now[i] = b[i]
    BY <1>13, <2>1 DEF Put
  <2>3. \A i \in 1 .. e - 1 : i \in 1 .. l + 1 /\ i # d
    BY <1>11, <1>13, SMTT(30)
  <2>4. SameBefore(b, now, e)
    BY <2>2, <2>3 DEF SameBefore
  <2>5. m - 1 \in Nat /\ m - 1 <= Len(ws)
    BY <1>5, <1>8, <1>15
  <2>6. AllShut(now, av, more, f, m - 1)
    <3>1. PICK r \in Nat : r = m - 1
      BY <2>5
    <3>2. e \in Nat /\ r <= Len(ws) /\ e <= f
      BY <1>25, <1>13, <2>5, <3>1
    <3>4. AllShut(b, av, ws, e, r) /\ SameFirst(av, av, r) /\ SameFirst(ws, more, r)
      BY <1>17, <1>25, <1>24, <3>1
    <3>5. AllShut(now, av, more, f, r)
      BY <2>4, <3>2, <3>4, AllStay
    <3>6. QED
      BY <3>1, <3>5
  <2>7. QED
    BY <2>1, <2>6
<1>26. x \in ArgvState(l) /\ s \in WordState
  BY <1>1 DEF Fits
<1>27. CASE x.quote = 0 /\ c \in Blanks
  <2>1. PICK now : now = Put(b, d, 0)
    OBVIOUS
  <2>2. /\ y.buf = now /\ y.cp = k + 2 /\ y.dest = d /\ y.quote = x.quote /\ y.argv = av
        /\ y.open = FALSE /\ y.done = FALSE
    <3>1. y = [x EXCEPT !.buf[x.dest] = 0, !.cp = @ + 1, !.open = FALSE, !.done = c = 0]
      BY <1>19, <1>27 DEF CopyArg
    <3>2. (c = 0) = FALSE
      BY <1>3
    <3>3. QED
      BY <1>10, <1>14, <1>16, <1>21, <1>26, <2>1, <3>1, <3>2 DEF ArgvState, Put
  <2>3. t = [s EXCEPT !.open = FALSE]
    BY <1>4, <1>20, <1>27 DEF OpenTurn
  <2>4. t.words = ws /\ t.quote = x.quote /\ t.open = FALSE
    BY <1>4, <1>15, <1>26, <2>3 DEF WordState
  <2>5. AllShut(now, av, ws, k + 2, m - 1)
    <3>1. 0 \in Nat
      OBVIOUS
    <3>2. QED
      BY <1>25, <1>21, <1>24, <2>1, <3>1
  <2>6. Shut(now, e, word, k + 2)
    <3>1. d = e + Len(word)
      BY <1>10, <1>12
    <3>2. QED
      BY <1>9, <1>17, <1>13, <1>21, <2>1, <3>1, NulShuts
  <2>7. AllShut(now, av, ws, k + 2, m)
    <3>1. ASSUME NEW j \in 1 .. m PROVE Shut(now, av[j], ws[j], k + 2)
      <4>1. j = m \/ j \in 1 .. m - 1
        BY <1>5
      <4>2. av[m] = e
        BY <1>11, <1>16
      <4>3. QED
        BY <1>17, <2>5, <2>6, <4>1, <4>2 DEF AllShut
    <3>2. QED
      BY <3>1 DEF AllShut
  <2>8. Edge(y) = k + 2 /\ Count(y) = m
    BY <1>5, <1>16, <2>2 DEF Edge, Count
  <2>9. AllShut(y.buf, y.argv, t.words, Edge(y), Count(y))
    BY <2>2, <2>4, <2>7, <2>8
  <2>10. Opened(y, t)
    BY <2>2 DEF Opened
  <2>11. Unread(y.buf, txt, k + 1)
    <3>1. 0 \in Nat
      OBVIOUS
    <3>2. QED
      BY <1>23, <2>1, <2>2, <3>1
  <2>12. y.cp = k + 1 + 1 /\ Len(y.argv) = Len(t.words) /\ Len(y.argv) <= n
    BY <1>5, <1>15, <1>16, <1>21, <2>2, <2>4
  <2>13. QED
    BY <1>1, <1>18, <1>19, <1>20, <1>27, <2>2, <2>4, <2>9, <2>10, <2>11, <2>12 DEF Fits
<1>28. CASE ~(x.quote = 0 /\ c \in Blanks) /\ ((x.quote = 0 /\ c \in Quotes) \/ c = x.quote)
  <2>1. PICK q \in Nat : q = IF x.quote = 0 /\ c \in Quotes THEN c ELSE 0
    BY <1>3
  <2>2. /\ y.buf = b /\ y.cp = k + 2 /\ y.dest = d /\ y.quote = q /\ y.argv = av
        /\ y.open = TRUE /\ y.done = FALSE
    <3>1. y = [x EXCEPT !.cp = @ + 1, !.quote = q]
      <4>1. CASE x.quote = 0 /\ c \in Quotes
        BY <1>3, <1>19, <1>28, <2>1, <4>1 DEF CopyArg
      <4>2. CASE ~(x.quote = 0 /\ c \in Quotes) /\ c = x.quote
        BY <1>3, <1>19, <1>28, <2>1, <4>2 DEF CopyArg
      <4>3. QED
        BY <1>28, <4>1, <4>2
    <3>2. QED
      BY <1>4, <1>10, <1>14, <1>16, <1>21, <1>26, <3>1 DEF ArgvState
  <2>3. t = [s EXCEPT !.quote = q]
    BY <1>4, <1>20, <1>28, <2>1 DEF OpenTurn
  <2>4. t.words = ws /\ t.quote = q /\ t.open = TRUE
    BY <1>4, <1>15, <1>26, <2>3 DEF WordState
  <2>5. Edge(y) = e /\ Count(y) = m - 1
    BY <1>5, <1>11, <1>16, <2>2 DEF Edge, Count
  <2>6. AllShut(y.buf, y.argv, t.words, Edge(y), Count(y))
    BY <1>17, <2>2, <2>4, <2>5
  <2>7. Opened(y, t)
    <3>1. d <= k + 2 /\ d = e + Len(word)
      BY <1>2, <1>10, <1>12
    <3>2. Len(y.argv) = m
      BY <1>5, <1>16, <2>2
    <3>3. QED
      BY <1>8, <1>17, <2>2, <2>4, <2>5, <3>1, <3>2 DEF Opened
  <2>8. Unread(y.buf, txt, k + 1)
    BY <1>22, <2>2
  <2>9. y.cp = k + 1 + 1 /\ Len(y.argv) = Len(t.words) /\ Len(y.argv) <= n
    BY <1>5, <1>15, <1>16, <1>21, <2>2, <2>4
  <2>10. QED
    BY <1>1, <1>18, <1>19, <1>20, <2>2, <2>4, <2>6, <2>7, <2>8, <2>9 DEF Fits
<1>29. CASE ~(x.quote = 0 /\ c \in Blanks) /\ ~(x.quote = 0 /\ c \in Quotes) /\ c # x.quote
  <2>1. PICK now : now = Put(b, d, c)
    OBVIOUS
  <2>2. /\ y.buf = now /\ y.cp = k + 2 /\ y.dest = d + 1 /\ y.quote = x.quote /\ y.argv = av
        /\ y.open = TRUE /\ y.done = FALSE
    <3>1. y = [x EXCEPT !.buf[x.dest] = c, !.cp = @ + 1, !.dest = @ + 1]
      BY <1>3, <1>19, <1>29 DEF CopyArg
    <3>2. QED
      BY <1>4, <1>10, <1>14, <1>16, <1>21, <1>26, <2>1, <3>1 DEF ArgvState, Put
  <2>3. t = [s EXCEPT !.words[Len(s.words)] = Append(@, c)]
    BY <1>4, <1>20, <1>29 DEF OpenTurn
  <2>4. PICK more : more = [ws EXCEPT ![Len(ws)] = Append(@, c)]
    OBVIOUS
  <2>5. /\ more \in Names /\ Len(more) = m /\ (\A j \in 1 .. m - 1 : more[j] = ws[j])
        /\ more[m] = Append(word, c)
    <3>1. /\ more \in Names /\ Len(more) = Len(ws)
          /\ \A j \in 1 .. Len(ws) - 1 : more[j] = ws[j]
          /\ Len(ws) > 0 => more[Len(ws)] = Append(ws[Len(ws)], c)
      <4>1. LET longer == [ws EXCEPT ![Len(ws)] = Append(@, c)] IN
            /\ longer \in Names /\ Len(longer) = Len(ws)
            /\ \A j \in 1 .. Len(ws) - 1 : longer[j] = ws[j]
            /\ Len(ws) > 0 => longer[Len(ws)] = Append(ws[Len(ws)], c)
        BY <1>3, LastNameGrows
      <4>2. QED
        BY <2>4, <4>1
    <3>2. Len(ws) = m
      BY <1>5, <1>15
    <3>3. QED
      BY <1>8, <1>17, <3>1, <3>2
  <2>6. t.words = more /\ t.quote = x.quote /\ t.open = TRUE
    BY <1>4, <1>15, <1>26, <2>3, <2>4 DEF WordState
  <2>7. Edge(y) = e /\ Count(y) = m - 1
    BY <1>5, <1>11, <1>16, <2>2 DEF Edge, Count
  <2>8. AllShut(now, av, more, e, m - 1)
    <3>1. e \in Nat /\ e <= e
      BY <1>11
    <3>2. SameFirst(ws, more, m - 1)
      BY <2>5 DEF SameFirst
    <3>3. QED
      BY <1>3, <1>25, <2>1, <3>1, <3>2
  <2>9. AllShut(y.buf, y.argv, t.words, Edge(y), Count(y))
    BY <2>2, <2>6, <2>7, <2>8
  <2>10. Lies(now, e, more[m])
    <3>1. d = e + Len(word)
      BY <1>10, <1>12
    <3>2. Lies(now, e, Append(word, c))
      BY <1>3, <1>9, <1>17, <1>13, <2>1, <3>1, LetterLies
    <3>3. QED
      BY <2>5, <3>2
  <2>11. Len(more[m]) = o + 1
    BY <1>3, <1>9, <1>10, <2>5
  <2>12. Opened(y, t)
    <3>1. d + 1 = e + Len(more[m]) /\ d + 1 <= k + 2
      BY <1>21, <2>11
    <3>2. Len(y.argv) = m
      BY <1>5, <1>16, <2>2
    <3>3. QED
      BY <1>8, <2>2, <2>6, <2>7, <2>10, <3>1, <3>2 DEF Opened
  <2>13. Unread(y.buf, txt, k + 1)
    BY <1>3, <1>23, <2>1, <2>2
  <2>14. y.cp = k + 1 + 1 /\ Len(y.argv) = Len(t.words) /\ Len(y.argv) <= n
    BY <1>5, <1>16, <1>21, <2>2, <2>5, <2>6
  <2>15. QED
    BY <1>1, <1>18, <1>19, <1>20, <2>2, <2>6, <2>9, <2>12, <2>13, <2>14 DEF Fits
<1>30. QED
  BY <1>27, <1>28, <1>29

(* The array is full: what follows in the text is left aside. *)
Held(x, s, n, txt) ==
  /\ x \in ArgvState(Len(txt)) /\ s \in WordState
  /\ x.done /\ Len(x.argv) = n /\ n <= Len(s.words)
  /\ (s.open => n < Len(s.words)) /\ (s.quote # 0 => s.open)
  /\ AllShut(x.buf, x.argv, s.words, Len(txt) + 2, n)
Agree(x, s, k, n, txt) == Fits(x, s, k, n, txt) \/ Held(x, s, n, txt)

LEMMA OpenTurnKeeps ==
  ASSUME NEW s \in WordState, s.open, NEW c \in Nat, NEW n \in Nat, n < Len(s.words)
  PROVE  /\ Len(OpenTurn(s, c).words) = Len(s.words)
         /\ SameFirst(s.words, OpenTurn(s, c).words, n)
         /\ OpenTurn(s, c).quote # 0 => OpenTurn(s, c).open
<1>1. PICK ws \in Names : ws = s.words
  BY DEF WordState
<1>2. PICK m \in Nat : m = Len(ws) /\ n < m
  BY <1>1 DEF Names
<1>3. PICK t : t = OpenTurn(s, c)
  OBVIOUS
<1>4. CASE s.quote = 0 /\ c \in Blanks
  <2>1. t = [s EXCEPT !.open = FALSE]
    BY <1>3, <1>4 DEF OpenTurn
  <2>2. t.words = ws /\ t.quote = 0
    BY <1>1, <1>4, <2>1 DEF WordState
  <2>3. QED
    BY <1>1, <1>3, <2>2 DEF SameFirst
<1>5. CASE ~(s.quote = 0 /\ c \in Blanks) /\ ((s.quote = 0 /\ c \in Quotes) \/ c = s.quote)
  <2>1. t = [s EXCEPT !.quote = c] \/ t = [s EXCEPT !.quote = 0]
    BY <1>3, <1>5 DEF OpenTurn
  <2>2. t.words = ws /\ t.open = s.open
    BY <1>1, <2>1 DEF WordState
  <2>3. QED
    BY <1>1, <1>3, <2>2 DEF SameFirst
<1>6. CASE ~(s.quote = 0 /\ c \in Blanks) /\ ~(s.quote = 0 /\ c \in Quotes) /\ c # s.quote
  <2>1. t = [s EXCEPT !.words[Len(s.words)] = Append(@, c)]
    BY <1>3, <1>6 DEF OpenTurn
  <2>2. PICK more : more = [ws EXCEPT ![Len(ws)] = Append(@, c)]
    OBVIOUS
  <2>3. t.words = more /\ t.open = s.open
    BY <1>1, <2>1, <2>2 DEF WordState
  <2>4. Len(more) = Len(ws) /\ \A j \in 1 .. Len(ws) - 1 : more[j] = ws[j]
    <3>1. LET longer == [ws EXCEPT ![Len(ws)] = Append(@, c)] IN
          /\ longer \in Names /\ Len(longer) = Len(ws)
          /\ \A j \in 1 .. Len(ws) - 1 : longer[j] = ws[j]
          /\ Len(ws) > 0 => longer[Len(ws)] = Append(ws[Len(ws)], c)
      BY LastNameGrows
    <3>2. QED
      BY <2>2, <3>1
  <2>5. \A j \in 1 .. n : j \in 1 .. Len(ws) - 1
    BY <1>2
  <2>6. SameFirst(ws, more, n)
    BY <2>4, <2>5 DEF SameFirst
  <2>7. QED
    BY <1>1, <1>3, <2>3, <2>4, <2>6
<1>7. QED
  BY <1>4, <1>5, <1>6

LEMMA HeldStays ==
  ASSUME NEW txt \in Seq(Letter), NEW n \in Nat, NEW x, NEW s, Held(x, s, n, txt), NEW c \in Nat
  PROVE  Held(x, WordTurn(s, c), n, txt)
<1>1. x \in ArgvState(Len(txt)) /\ s \in WordState
  BY DEF Held
<1>2. /\ x.done /\ Len(x.argv) = n /\ n <= Len(s.words)
      /\ (s.open => n < Len(s.words)) /\ (s.quote # 0 => s.open)
      /\ AllShut(x.buf, x.argv, s.words, Len(txt) + 2, n)
  BY DEF Held
<1>3. PICK t : t = WordTurn(s, c)
  OBVIOUS
<1>4. t \in WordState
  BY <1>1, <1>3, WordTurnIn
<1>5. PICK l \in Nat : l = Len(txt) + 2
  OBVIOUS
<1>6. SUFFICES ASSUME t # s
               PROVE  n < Len(t.words) /\ SameFirst(s.words, t.words, n) /\ (t.quote # 0 => t.open)
  <2>1. CASE t = s
    BY <1>3, <2>1
  <2>2. CASE t # s
    <3>1. n < Len(t.words) /\ SameFirst(s.words, t.words, n) /\ (t.quote # 0 => t.open)
      BY <1>6, <2>2
    <3>2. s.words \in Names
      BY <1>1 DEF WordState
    <3>3. PICK av : av = x.argv
      OBVIOUS
    <3>4. SameFirst(av, av, n) /\ SameBefore(x.buf, x.buf, l) /\ l <= l
      BY DEF SameFirst, SameBefore
    <3>5. AllShut(x.buf, av, s.words, l, n)
      BY <1>2, <1>5, <3>3
    <3>6. AllShut(x.buf, av, t.words, l, n)
      BY <1>2, <3>1, <3>2, <3>4, <3>5, AllStay
    <3>7. Len(t.words) \in Nat
      BY <1>4 DEF WordState, Names
    <3>8. QED
      BY <1>1, <1>2, <1>3, <1>4, <1>5, <3>1, <3>3, <3>6, <3>7 DEF Held
  <2>3. QED
    BY <2>1, <2>2
<1>7. CASE s.open
  <2>1. t = OpenTurn(s, c)
    BY <1>1, <1>3, <1>7, WordTurnIs
  <2>2. n < Len(s.words)
    BY <1>2, <1>7
  <2>3. QED
    BY <1>1, <1>7, <2>1, <2>2, OpenTurnKeeps
<1>8. CASE ~s.open
  <2>1. ~(s.quote = 0 /\ c \in Blanks) /\ t = OpenTurn(Begins(s), c)
    BY <1>1, <1>3, <1>6, <1>8, WordTurnIs
  <2>2. PICK b : b = Begins(s)
    OBVIOUS
  <2>3. b \in WordState /\ b.open /\ Len(b.words) = Len(s.words) + 1
        /\ \A j \in 1 .. Len(s.words) : b.words[j] = s.words[j]
    BY <1>1, <2>2, BeginsIn
  <2>4. Len(s.words) \in Nat
    BY <1>1 DEF WordState, Names
  <2>5. n < Len(b.words) /\ \A j \in 1 .. n : j \in 1 .. Len(s.words)
    BY <1>2, <2>3, <2>4
  <2>6. /\ Len(OpenTurn(b, c).words) = Len(b.words) /\ SameFirst(b.words, OpenTurn(b, c).words, n)
        /\ OpenTurn(b, c).quote # 0 => OpenTurn(b, c).open
    BY <2>3, <2>5, OpenTurnKeeps
  <2>7. t = OpenTurn(b, c)
    BY <2>1, <2>2
  <2>8. SameFirst(s.words, t.words, n)
    BY <2>3, <2>5, <2>6, <2>7 DEF SameFirst
  <2>9. QED
    BY <2>5, <2>6, <2>7, <2>8
<1>9. QED
  BY <1>7, <1>8

LEMMA FullHolds ==
  ASSUME NEW txt \in Seq(Letter), NEW k \in 0 .. Len(txt), NEW n \in Nat, NEW x, NEW s,
         Fits(x, s, k, n, txt), ~x.open, Len(x.argv) = n
  PROVE  Held([x EXCEPT !.done = TRUE], s, n, txt)
<1>1. x \in ArgvState(Len(txt)) /\ s \in WordState
  BY DEF Fits
<1>2. PICK y : y = [x EXCEPT !.done = TRUE]
  OBVIOUS
<1>3. y \in ArgvState(Len(txt)) /\ y.done /\ y.argv = x.argv /\ y.buf = x.buf
  BY <1>1, <1>2 DEF ArgvState
<1>4. x.cp = k + 1 /\ s.open = FALSE /\ s.quote = x.quote /\ Len(s.words) = n /\ s.words \in Names
  <2>1. Parted(x, s, k, n, Len(txt))
    BY FitsParts
  <2>2. QED
    BY <2>1 DEF Parted
<1>5. ~(s.quote # 0)
  BY <1>4 DEF Fits
<1>6. Edge(x) = k + 1 /\ Count(x) = n
  BY <1>4 DEF Edge, Count
<1>7. PICK e \in Nat : e = k + 1
  OBVIOUS
<1>8. PICK f \in Nat : f = Len(txt) + 2
  OBVIOUS
<1>9. e <= f /\ n <= Len(s.words)
  BY <1>4, <1>7, <1>8
<1>10. AllShut(x.buf, x.argv, s.words, e, n)
  BY <1>6, <1>7 DEF Fits
<1>11. /\ SameBefore(x.buf, x.buf, e) /\ SameFirst(x.argv, x.argv, n)
       /\ SameFirst(s.words, s.words, n)
  BY DEF SameBefore, SameFirst
<1>12. AllShut(x.buf, x.argv, s.words, f, n)
  BY <1>4, <1>9, <1>10, <1>11, AllStay
<1>13. QED
  BY <1>1, <1>2, <1>3, <1>4, <1>5, <1>8, <1>9, <1>12 DEF Held

LEMMA StartFits ==
  ASSUME NEW txt \in Seq(Letter), NEW k \in 0 .. Len(txt), NEW n \in Nat, NEW x, NEW s,
         Fits(x, s, k, n, txt), ~x.open, Len(x.argv) < n
  PROVE  Fits(Starts(x), Begins(s), k, n, txt) /\ Starts(x).open
<1>1. x \in ArgvState(Len(txt)) /\ s \in WordState
  BY DEF Fits
<1>2. /\ x.cp = k + 1 /\ x.argv \in Seq(Nat) /\ x.open = FALSE /\ x.done = FALSE
      /\ s.words \in Names /\ s.quote = x.quote /\ s.open = x.open
  <2>1. Parted(x, s, k, n, Len(txt))
    BY FitsParts
  <2>2. QED
    BY <2>1 DEF Parted
<1>3. PICK m \in Nat : m = Len(x.argv) /\ m = Len(s.words) /\ m + 1 <= n
  <2>1. Len(x.argv) \in Nat /\ Len(x.argv) = Len(s.words)
    <3>1. Parted(x, s, k, n, Len(txt))
      BY FitsParts
    <3>2. QED
      BY <3>1 DEF Parted
  <2>2. PICK m \in Nat : m = Len(x.argv)
    BY <2>1
  <2>3. QED
    BY <2>1, <2>2
<1>4. PICK y : y = Starts(x)
  OBVIOUS
<1>5. PICK av : av = Append(x.argv, x.cp)
  OBVIOUS
<1>6. PICK e \in Nat : e = k + 1 /\ e > 0
  OBVIOUS
<1>7. /\ av \in Seq(Nat) /\ Len(av) = m + 1 /\ (\A j \in 1 .. m : av[j] = x.argv[j]) /\ av[m + 1] = e
  <2>1. PICK a \in Seq(Nat) : a = x.argv
    BY <1>2
  <2>2. /\ Append(a, e) \in Seq(Nat) /\ Len(Append(a, e)) = Len(a) + 1
        /\ (\A j \in 1 .. Len(a) : Append(a, e)[j] = a[j]) /\ Append(a, e)[Len(a) + 1] = e
    BY AppendProperties
  <2>3. av = Append(a, e) /\ Len(a) = m
    BY <1>2, <1>3, <1>5, <1>6, <2>1
  <2>4. QED
    BY <2>1, <2>2, <2>3
<1>8. /\ y.buf = x.buf /\ y.cp = e /\ y.dest = e /\ y.quote = x.quote /\ y.argv = av
      /\ y.open = TRUE /\ y.done = FALSE
  BY <1>1, <1>2, <1>4, <1>5, <1>6 DEF Starts, ArgvState
<1>9. PICK t : t = Begins(s)
  OBVIOUS
<1>10. /\ t \in WordState /\ t.open = TRUE /\ t.quote = x.quote /\ Len(t.words) = m + 1
       /\ (\A j \in 1 .. m : t.words[j] = s.words[j]) /\ t.words[m + 1] = <<>>
  <2>1. t.open \in BOOLEAN
    BY <1>1, <1>9, BeginsIn DEF WordState
  <2>2. QED
    BY <1>1, <1>2, <1>3, <1>9, <2>1, BeginsIn
<1>11. y \in ArgvState(Len(txt))
  BY <1>1, <1>4, StartsIn
<1>12. Edge(y) = e /\ Count(y) = m
  <2>1. m + 1 - 1 = m
    BY <1>3
  <2>2. QED
    BY <1>7, <1>8, <2>1 DEF Edge, Count
<1>13. AllShut(x.buf, x.argv, s.words, e, m) /\ Unread(x.buf, txt, k)
  <2>1. Edge(x) = e /\ Count(x) = m
    BY <1>2, <1>3, <1>6 DEF Edge, Count
  <2>2. QED
    BY <2>1 DEF Fits
<1>14. AllShut(x.buf, av, t.words, e, m)
  <2>1. SameBefore(x.buf, x.buf, e)
    BY DEF SameBefore
  <2>2. SameFirst(x.argv, av, m) /\ SameFirst(s.words, t.words, m)
    BY <1>7, <1>10 DEF SameFirst
  <2>3. e <= e /\ m <= Len(s.words)
    BY <1>3
  <2>4. QED
    BY <1>2, <1>13, <2>1, <2>2, <2>3, AllStay
<1>15. Opened(y, t)
  <2>1. Len(<<>>) = 0 /\ Lies(x.buf, e, <<>>)
    BY DEF Lies
  <2>2. e <= e /\ e = e + 0 /\ m + 1 > 0
    BY <1>3
  <2>3. QED
    BY <1>6, <1>7, <1>8, <1>10, <1>12, <2>1, <2>2 DEF Opened
<1>16. QED
  BY <1>3, <1>4, <1>6, <1>7, <1>8, <1>9, <1>10, <1>11, <1>12, <1>13, <1>14, <1>15 DEF Fits

LEMMA TurnAgrees ==
  ASSUME NEW txt \in Seq(Letter), NEW k \in 0 .. Len(txt) - 1, NEW n \in Nat, NEW x, NEW s,
         Agree(x, s, k, n, txt)
  PROVE  Agree(ArgvTurn(n, x), WordTurn(s, txt[k + 1]), k + 1, n, txt)
<1>1. PICK l \in Nat : l = Len(txt)
  OBVIOUS
<1>2. k \in Nat /\ k + 1 \in 1 .. l /\ k \in 0 .. l /\ k + 1 \in Nat
  BY <1>1
<1>3. PICK c : c = txt[k + 1]
  OBVIOUS
<1>4. c \in Nat /\ c # 0
  <2>1. c \in Letter
    BY <1>1, <1>2, <1>3
  <2>2. QED
    BY <2>1, LetterIs
<1>5. CASE Held(x, s, n, txt)
  <2>1. x.done
    BY <1>5 DEF Held
  <2>2. ArgvTurn(n, x) = x
    BY <2>1 DEF ArgvTurn
  <2>3. Held(x, WordTurn(s, c), n, txt)
    BY <1>4, <1>5, HeldStays
  <2>4. QED
    BY <1>3, <2>2, <2>3 DEF Agree
<1>6. CASE Fits(x, s, k, n, txt)
  <2>1. Parted(x, s, k, n, l)
    BY <1>1, <1>6, FitsParts
  <2>2. x.done = FALSE /\ x.cp = k + 1 /\ x.open \in BOOLEAN /\ s.open = x.open /\ s.quote = x.quote
        /\ Len(x.argv) <= n /\ Len(x.argv) \in Nat
    BY <2>1 DEF Parted
  <2>3. x \in ArgvState(l) /\ s \in WordState
    BY <1>1, <1>6 DEF Fits
  <2>4. x.buf[x.cp] = c
    <3>1. Unread(x.buf, txt, k)
      BY <1>6 DEF Fits
    <3>2. k + 1 \in k + 1 .. Len(txt)
      BY <1>1, <1>2
    <3>3. QED
      BY <1>3, <2>2, <3>1, <3>2 DEF Unread
  <2>5. CASE x.open
    <3>1. ArgvTurn(n, x) = CopyArg(x, c)
      BY <2>2, <2>4, <2>5 DEF ArgvTurn
    <3>2. WordTurn(s, c) = OpenTurn(s, c)
      <4>1. s.open
        BY <2>2, <2>5
      <4>2. QED
        BY <1>4, <2>3, <4>1, WordTurnIs
    <3>3. Fits(CopyArg(x, c), OpenTurn(s, c), k + 1, n, txt)
      BY <1>3, <1>6, <2>5, ArgFits
    <3>4. QED
      BY <1>3, <3>1, <3>2, <3>3 DEF Agree
  <2>6. CASE ~x.open /\ Len(x.argv) = n
    <3>1. ArgvTurn(n, x) = [x EXCEPT !.done = TRUE]
      BY <2>2, <2>6 DEF ArgvTurn
    <3>2. k \in 0 .. Len(txt)
      BY <1>1, <1>2
    <3>3. Held([x EXCEPT !.done = TRUE], s, n, txt)
      BY <1>6, <2>6, <3>2, FullHolds
    <3>4. Held([x EXCEPT !.done = TRUE], WordTurn(s, c), n, txt)
      BY <1>4, <3>3, HeldStays
    <3>5. QED
      BY <1>3, <3>1, <3>4 DEF Agree
  <2>7. CASE ~x.open /\ Len(x.argv) # n /\ c \in Blanks
    <3>1. ArgvTurn(n, x) = [x EXCEPT !.cp = @ + 1]
      BY <1>4, <2>2, <2>4, <2>7 DEF ArgvTurn
    <3>2. s.quote = 0
      <4>1. x.quote # 0 => x.open
        BY <1>6 DEF Fits
      <4>2. QED
        BY <2>2, <2>7, <4>1
    <3>3. WordTurn(s, c) = s
      <4>1. ~s.open
        BY <2>2, <2>7
      <4>2. QED
        BY <1>4, <2>3, <2>7, <3>2, <4>1, WordTurnIs
    <3>4. PICK y : y = [x EXCEPT !.cp = @ + 1]
      OBVIOUS
    <3>5. /\ y.buf = x.buf /\ y.cp = k + 2 /\ y.quote = x.quote /\ y.argv = x.argv
          /\ y.open = FALSE /\ y.done = FALSE /\ y.dest = x.dest
      <4>1. x.cp + 1 = k + 2
        BY <1>2, <2>2
      <4>2. QED
        BY <2>2, <2>3, <2>7, <3>4, <4>1 DEF ArgvState
    <3>6. y \in ArgvState(l)
      <4>1. x.cp + 1 \in Nat
        BY <1>2, <2>2
      <4>2. y = [x EXCEPT !.cp = x.cp + 1]
        BY <3>4
      <4>3. QED
        BY <2>3, <4>1, <4>2 DEF ArgvState
    <3>7. PICK m \in Nat : m = Len(x.argv)
      BY <2>2
    <3>8. PICK e \in Nat : e = k + 1
      BY <1>2
    <3>9. PICK f \in Nat : f = k + 2
      BY <1>2
    <3>10. AllShut(x.buf, x.argv, s.words, f, m)
      <4>1. Edge(x) = e /\ Count(x) = m
        BY <2>2, <2>7, <3>7, <3>8 DEF Edge, Count
      <4>2. AllShut(x.buf, x.argv, s.words, e, m)
        BY <1>6, <4>1 DEF Fits
      <4>3. /\ SameBefore(x.buf, x.buf, e) /\ SameFirst(x.argv, x.argv, m)
            /\ SameFirst(s.words, s.words, m)
        BY DEF SameBefore, SameFirst
      <4>4. s.words \in Names /\ m <= Len(s.words) /\ e <= f
        <5>1. m = Len(s.words) /\ s.words \in Names
          BY <2>1, <3>7 DEF Parted
        <5>2. e <= f
          BY <3>8, <3>9
        <5>3. QED
          BY <5>1, <5>2
      <4>5. QED
        BY <4>2, <4>3, <4>4, AllStay
    <3>11. Edge(y) = f /\ Count(y) = m
      BY <3>5, <3>7, <3>9 DEF Edge, Count
    <3>12. Unread(y.buf, txt, k + 1)
      <4>1. Unread(x.buf, txt, k)
        BY <1>6 DEF Fits
      <4>2. \A i \in k + 1 + 1 .. Len(txt) : i \in k + 1 .. Len(txt)
        BY <1>2
      <4>3. QED
        BY <3>5, <4>1, <4>2 DEF Unread
    <3>13. Opened(y, s)
      BY <3>5 DEF Opened
    <3>14. y.cp = k + 1 + 1
      BY <1>2, <3>5
    <3>15. Len(y.argv) = Len(s.words) /\ Len(y.argv) <= n
      BY <2>1, <3>5 DEF Parted
    <3>16. y.open = s.open /\ y.quote = s.quote /\ ~(y.quote # 0)
      BY <2>2, <2>7, <3>2, <3>5
    <3>17. AllShut(y.buf, y.argv, s.words, Edge(y), Count(y))
      BY <3>5, <3>10, <3>11
    <3>18. Fits(y, s, k + 1, n, txt)
      BY <1>1, <2>3, <3>5, <3>6, <3>12, <3>13, <3>14, <3>15, <3>16, <3>17 DEF Fits
    <3>19. QED
      BY <1>3, <3>1, <3>3, <3>4, <3>18 DEF Agree
  <2>8. CASE ~x.open /\ Len(x.argv) # n /\ c \notin Blanks
    <3>1. ArgvTurn(n, x) = CopyArg(Starts(x), c)
      BY <1>4, <2>2, <2>4, <2>8 DEF ArgvTurn, Starts
    <3>2. WordTurn(s, c) = OpenTurn(Begins(s), c)
      <4>1. ~s.open
        BY <2>2, <2>8
      <4>2. QED
        BY <1>4, <2>3, <2>8, <4>1, WordTurnIs
    <3>3. k \in 0 .. Len(txt) /\ Len(x.argv) < n
      BY <1>1, <1>2, <2>2, <2>8
    <3>4. Fits(Starts(x), Begins(s), k, n, txt) /\ Starts(x).open
      BY <1>6, <2>8, <3>3, StartFits
    <3>5. Fits(CopyArg(Starts(x), c), OpenTurn(Begins(s), c), k + 1, n, txt)
      BY <1>3, <3>4, ArgFits
    <3>6. QED
      BY <1>3, <3>1, <3>2, <3>5 DEF Agree
  <2>9. QED
    BY <2>5, <2>6, <2>7, <2>8
<1>7. QED
  BY <1>5, <1>6 DEF Agree

(* After the NUL at the end: as many arguments as there are words, or as fit. *)
Split(y, words, n, l) ==
  /\ y.buf \in [1 .. l + 1 -> Nat]
  /\ Len(y.argv) \in Nat /\ Len(y.argv) <= n /\ Len(y.argv) <= Len(words)
  /\ Len(y.argv) = n \/ Len(y.argv) = Len(words)
  /\ DOMAIN y.argv = 1 .. Len(y.argv)
  /\ AllShut(y.buf, y.argv, words, l + 2, Len(y.argv))

LEMMA LastTurn ==
  ASSUME NEW txt \in Seq(Letter), NEW n \in Nat, NEW x, NEW s,
         Agree(x, s, Len(txt), n, txt)
  PROVE  Split(ArgvTurn(n, x), s.words, n, Len(txt))
<1>1. PICK l \in Nat : l = Len(txt)
  OBVIOUS
<1>2. x \in ArgvState(l) /\ s \in WordState
  BY <1>1 DEF Agree, Fits, Held
<1>3. x.buf \in [1 .. l + 1 -> Nat] /\ x.argv \in Seq(Nat) /\ x.open \in BOOLEAN
  BY <1>2 DEF ArgvState
<1>4. PICK m \in Nat : m = Len(x.argv) /\ DOMAIN x.argv = 1 .. m
  BY <1>3
<1>5. PICK y : y = ArgvTurn(n, x)
  OBVIOUS
<1>6. PICK f \in Nat : f = l + 2
  BY <1>1
<1>7. s.words \in Names /\ Len(s.words) \in Nat
  BY <1>2 DEF WordState, Names
<1>8. CASE Held(x, s, n, txt)
  <2>1. x.done /\ Len(x.argv) = n /\ n <= Len(s.words)
        /\ AllShut(x.buf, x.argv, s.words, Len(txt) + 2, n)
    BY <1>8 DEF Held
  <2>2. y = x
    BY <1>5, <2>1 DEF ArgvTurn
  <2>3. Split(y, s.words, n, l)
    BY <1>1, <1>3, <1>4, <1>7, <2>1, <2>2 DEF Split
  <2>4. QED
    BY <1>1, <1>5, <2>3
<1>9. CASE Fits(x, s, l, n, txt)
  <2>1. Parted(x, s, l, n, l)
    BY <1>1, <1>9, FitsParts
  <2>2. x.done = FALSE /\ x.cp = l + 1 /\ m <= n /\ m = Len(s.words)
    BY <1>4, <2>1 DEF Parted
  <2>3. x.buf[x.cp] = 0
    <3>1. Unread(x.buf, txt, l)
      BY <1>9 DEF Fits
    <3>2. QED
      BY <1>1, <2>2, <3>1 DEF Unread
  <2>4. AllShut(x.buf, x.argv, s.words, Edge(x), Count(x))
    BY <1>9 DEF Fits
  <2>5. CASE ~x.open
    <3>1. y = [x EXCEPT !.done = TRUE]
      BY <1>5, <2>2, <2>3, <2>5 DEF ArgvTurn
    <3>2. y.buf = x.buf /\ y.argv = x.argv
      BY <1>2, <3>1 DEF ArgvState
    <3>3. PICK e \in Nat : e = l + 1
      BY <1>1
    <3>4. AllShut(x.buf, x.argv, s.words, e, m)
      <4>1. Edge(x) = e /\ Count(x) = m
        BY <1>4, <2>2, <2>5, <3>3 DEF Edge, Count
      <4>2. QED
        BY <2>4, <4>1
    <3>5. AllShut(x.buf, x.argv, s.words, f, m)
      <4>1. /\ SameBefore(x.buf, x.buf, e) /\ SameFirst(x.argv, x.argv, m)
            /\ SameFirst(s.words, s.words, m)
        BY DEF SameBefore, SameFirst
      <4>2. e <= f /\ m <= Len(s.words)
        BY <1>6, <2>2, <3>3
      <4>3. QED
        BY <1>7, <3>4, <4>1, <4>2, AllStay
    <3>6. AllShut(y.buf, y.argv, s.words, l + 2, Len(y.argv))
      BY <1>4, <1>6, <3>2, <3>5
    <3>7. Len(y.argv) = m /\ m <= Len(s.words)
      BY <1>4, <2>2, <3>2
    <3>8. Split(y, s.words, n, l)
      BY <1>3, <1>4, <2>2, <3>2, <3>6, <3>7 DEF Split
    <3>9. QED
      BY <1>1, <1>5, <3>8
  <2>6. CASE x.open
    <3>1. PICK word : word = s.words[m]
      OBVIOUS
    <3>2. PICK e : e = x.argv[m]
      OBVIOUS
    <3>3. m > 0 /\ e > 0 /\ x.dest <= x.cp /\ x.dest = e + Len(word) /\ Lies(x.buf, e, word)
      <4>1. Opened(x, s)
        BY <1>9 DEF Fits
      <4>2. Edge(x) = e
        BY <1>4, <2>6, <3>2 DEF Edge
      <4>3. QED
        BY <1>4, <2>6, <3>1, <4>1, <4>2 DEF Opened
    <3>4. e \in Nat /\ word \in Seq(Nat)
      <4>1. m \in 1 .. Len(x.argv) /\ m \in 1 .. Len(s.words)
        BY <1>4, <2>2, <3>3
      <4>2. e \in Nat
        BY <1>3, <3>2, <4>1, SMTT(30)
      <4>3. word \in Seq(Nat)
        BY <2>1, <3>1, <4>1 DEF Parted
      <4>4. QED
        BY <4>2, <4>3
    <3>5. PICK d \in Nat, o \in Nat : d = x.dest /\ o = Len(word)
      BY <1>2, <3>4 DEF ArgvState
    <3>6. d = e + o /\ d <= l + 1 /\ e > 0 /\ l + 1 \in Nat
      BY <1>1, <2>2, <3>3, <3>5
    <3>7. d \in 1 .. l + 1 /\ e \in 1 .. l + 1 /\ d < f /\ e <= f
      BY <1>6, <3>4, <3>6
    <3>8. PICK b : b = Put(x.buf, d, 0)
      OBVIOUS
    <3>9. y = [x EXCEPT !.buf[x.dest] = 0, !.cp = @ + 1, !.open = FALSE, !.done = 0 = 0]
      <4>1. y = CopyArg(x, 0)
        BY <1>5, <2>2, <2>3, <2>6 DEF ArgvTurn
      <4>2. QED
        BY <4>1 DEF CopyArg
    <3>10. y.buf = b /\ y.argv = x.argv
      BY <1>2, <3>5, <3>8, <3>9 DEF ArgvState, Put
    <3>11. b \in [1 .. l + 1 -> Nat] /\ \A i \in 1 .. l + 1 : i # d => b[i] = x.buf[i]
      BY <1>3, <3>7, <3>8 DEF Put
    <3>12. Shut(b, e, word, f)
      <4>1. d = e + Len(word)
        BY <3>5, <3>6
      <4>2. QED
        BY <1>3, <3>3, <3>4, <3>6, <3>7, <3>8, <4>1, NulShuts
    <3>13. AllShut(b, x.argv, s.words, f, m - 1)
      <4>1. PICK r \in Nat : r = m - 1
        BY <3>3
      <4>2. AllShut(x.buf, x.argv, s.words, e, r)
        <5>1. Edge(x) = e /\ Count(x) = r
          BY <1>4, <2>6, <3>2, <4>1 DEF Edge, Count
        <5>2. QED
          BY <2>4, <5>1
      <4>3. SameBefore(x.buf, b, e)
        <5>1. \A i \in 1 .. e - 1 : i \in 1 .. l + 1 /\ i # d
          BY <3>4, <3>6, <3>7
        <5>2. QED
          BY <3>11, <5>1 DEF SameBefore
      <4>4. SameFirst(x.argv, x.argv, r) /\ SameFirst(s.words, s.words, r)
        BY DEF SameFirst
      <4>5. r <= Len(s.words) /\ e <= f
        BY <2>2, <3>7, <4>1
      <4>6. AllShut(b, x.argv, s.words, f, r)
        BY <1>7, <3>4, <4>2, <4>3, <4>4, <4>5, AllStay
      <4>7. QED
        BY <4>1, <4>6
    <3>14. AllShut(b, x.argv, s.words, f, m)
      <4>1. ASSUME NEW j \in 1 .. m PROVE Shut(b, x.argv[j], s.words[j], f)
        <5>1. j = m \/ j \in 1 .. m - 1
          BY <1>4
        <5>2. QED
          BY <3>1, <3>2, <3>12, <3>13, <5>1 DEF AllShut
      <4>2. QED
        BY <4>1 DEF AllShut
    <3>15. AllShut(y.buf, y.argv, s.words, l + 2, Len(y.argv))
      BY <1>4, <1>6, <3>10, <3>14
    <3>16. Len(y.argv) = m /\ m <= Len(s.words)
      BY <1>4, <2>2, <3>10
    <3>17. Split(y, s.words, n, l)
      BY <1>4, <2>2, <3>10, <3>11, <3>15, <3>16 DEF Split
    <3>18. QED
      BY <1>1, <1>5, <3>17
  <2>7. QED
    BY <1>3, <2>5, <2>6
<1>10. QED
  BY <1>1, <1>8, <1>9 DEF Agree

(* The two walks over the text. *)
NoArgs(txt) == [buf |-> Append(txt, 0), cp |-> 1, dest |-> 1, quote |-> 0,
                argv |-> <<>>, open |-> FALSE, done |-> FALSE]
NoWords == [words |-> <<>>, quote |-> 0, open |-> FALSE]

ArgvTurnsFrom(g, n, txt) ==
  g = [k \in 0 .. Len(txt) + 1 |->
         IF k = 0 THEN [buf |-> Append(txt, 0), cp |-> 1, dest |-> 1, quote |-> 0,
                        argv |-> <<>>, open |-> FALSE, done |-> FALSE]
         ELSE ArgvTurn(n, g[k - 1])]
SeenFrom(h, txt) ==
  h = [k \in 0 .. Len(txt) |-> IF k = 0 THEN [words |-> <<>>, quote |-> 0, open |-> FALSE]
                               ELSE WordTurn(h[k - 1], txt[k])]
Sees(h, txt) ==
  h[0] = NoWords /\ \A k \in 1 .. Len(txt) : h[k] = WordTurn(h[k - 1], txt[k])

LEMMA NoWordsIn == NoWords \in WordState
<1>1. <<>> \in Names
  BY DEF Names
<1>2. QED
  BY <1>1 DEF NoWords, WordState

LEMMA WordsAre ==
  ASSUME NEW txt \in Seq(Letter)
  PROVE  \E h : Sees(h, txt) /\ Words(txt) = h[Len(txt)].words
<1>1. PICK l \in Nat : l = Len(txt)
  OBVIOUS
<1>2. ASSUME NEW k \in 1 .. l, NEW s \in WordState PROVE WordTurn(s, txt[k]) \in WordState
  <2>1. txt[k] \in Letter
    BY <1>1
  <2>2. txt[k] \in Nat
    BY <2>1, LetterIs
  <2>3. QED
    BY <2>2, WordTurnIn
<1>3. PICK G : G = [k \in 1 .. l |-> [s \in WordState |-> WordTurn(s, txt[k])]]
  OBVIOUS
<1>4. G \in [1 .. l -> [WordState -> WordState]]
  BY <1>2, <1>3
<1>5. PICK g \in [0 .. l -> WordState] : Steps(g, l, NoWords, G)
  BY <1>4, NoWordsIn, StepsExist
<1>6. \A k \in 0 .. l : g[k] = IF k = 0 THEN NoWords ELSE G[k][g[k - 1]]
  BY <1>5 DEF Steps
<1>7. ASSUME NEW k \in 0 .. l PROVE g[k] = IF k = 0 THEN NoWords ELSE WordTurn(g[k - 1], txt[k])
  <2>1. CASE k = 0
    BY <1>6, <2>1
  <2>2. CASE k # 0
    <3>1. k \in 1 .. l /\ k - 1 \in 0 .. l
      BY <2>2
    <3>2. PICK s \in WordState : s = g[k - 1]
      BY <1>5, <3>1
    <3>3. G[k][s] = WordTurn(s, txt[k])
      BY <1>3, <3>1
    <3>4. QED
      BY <1>6, <2>2, <3>2, <3>3
  <2>3. QED
    BY <2>1, <2>2
<1>8. g = [k \in 0 .. l |-> IF k = 0 THEN NoWords ELSE WordTurn(g[k - 1], txt[k])]
  <2>1. g = [k \in 0 .. l |-> g[k]]
    BY <1>5
  <2>2. QED
    BY <1>7, <2>1
<1>9. SeenFrom(g, txt)
  BY <1>1, <1>8 DEF SeenFrom, NoWords
<1>10. PICK h : h = CHOOSE x : SeenFrom(x, txt)
  OBVIOUS
<1>11. SeenFrom(h, txt)
  BY <1>9, <1>10
<1>12. Words(txt) = h[Len(txt)].words
  BY <1>10 DEF Words, SeenFrom
<1>13. \A k \in 0 .. l : h[k] = IF k = 0 THEN NoWords ELSE WordTurn(h[k - 1], txt[k])
  BY <1>1, <1>11 DEF SeenFrom, NoWords
<1>14. h[0] = NoWords
  BY <1>13
<1>15. ASSUME NEW k \in 1 .. l PROVE h[k] = WordTurn(h[k - 1], txt[k])
  <2>1. k \in 0 .. l /\ k # 0
    OBVIOUS
  <2>2. QED
    BY <1>13, <2>1
<1>16. QED
  BY <1>1, <1>12, <1>14, <1>15 DEF Sees

LEMMA FirstFits ==
  ASSUME NEW txt \in Seq(Letter), NEW n \in Nat
  PROVE  NoArgs(txt) \in ArgvState(Len(txt)) /\ Fits(NoArgs(txt), NoWords, 0, n, txt)
<1>1. PICK l \in Nat : l = Len(txt)
  OBVIOUS
<1>2. PICK a : a = NoArgs(txt)
  OBVIOUS
<1>3. PICK b : b = Append(txt, 0)
  OBVIOUS
<1>4. /\ a.buf = b /\ a.cp = 1 /\ a.dest = 1 /\ a.quote = 0 /\ a.argv = <<>>
      /\ a.open = FALSE /\ a.done = FALSE
  BY <1>2, <1>3 DEF NoArgs
<1>5. txt \in Seq(Nat)
  BY LettersAreNumbers
<1>6. /\ b \in Seq(Nat) /\ Len(b) = l + 1 /\ (\A i \in 1 .. l : b[i] = txt[i]) /\ b[l + 1] = 0
  <2>1. PICK z \in Nat : z = 0
    OBVIOUS
  <2>2. /\ Append(txt, z) \in Seq(Nat) /\ Len(Append(txt, z)) = Len(txt) + 1
        /\ (\A i \in 1 .. Len(txt) : Append(txt, z)[i] = txt[i]) /\ Append(txt, z)[Len(txt) + 1] = z
    BY <1>5, AppendProperties
  <2>3. QED
    BY <1>1, <1>3, <2>1, <2>2
<1>7. b \in [1 .. l + 1 -> Nat]
  BY <1>6
<1>8. a \in ArgvState(l)
  <2>1. <<>> \in Seq(Nat)
    OBVIOUS
  <2>2. QED
    BY <1>2, <1>3, <1>7, <2>1 DEF NoArgs, ArgvState
<1>9. NoWords.words = <<>> /\ NoWords.quote = 0 /\ NoWords.open = FALSE
  BY DEF NoWords
<1>10. Len(<<>>) = 0 /\ 0 <= n
  OBVIOUS
<1>11. Unread(a.buf, txt, 0)
  BY <1>1, <1>4, <1>6 DEF Unread
<1>12. AllShut(a.buf, a.argv, NoWords.words, Edge(a), Count(a))
  <2>1. Count(a) = 0
    BY <1>4, <1>10 DEF Count
  <2>2. QED
    BY <2>1 DEF AllShut
<1>13. Opened(a, NoWords)
  BY <1>4 DEF Opened
<1>14. a.cp = 0 + 1 /\ ~(a.quote # 0) /\ Len(a.argv) = Len(NoWords.words) /\ Len(a.argv) <= n
  BY <1>4, <1>9, <1>10
<1>15. Fits(a, NoWords, 0, n, txt)
  BY <1>1, <1>4, <1>8, <1>9, <1>11, <1>12, <1>13, <1>14, NoWordsIn DEF Fits
<1>16. QED
  BY <1>1, <1>2, <1>8, <1>15

(* Whoever takes the turns while they agree, agrees at every place. *)
Along(g, h, n, txt) ==
  /\ g[0] = NoArgs(txt)
  /\ \A k \in 1 .. Len(txt) :
       Agree(g[k - 1], h[k - 1], k - 1, n, txt) => g[k] = ArgvTurn(n, g[k - 1])

LEMMA AgreeAlong ==
  ASSUME NEW txt \in Seq(Letter), NEW n \in Nat, NEW g, NEW h, Sees(h, txt), Along(g, h, n, txt)
  PROVE  \A k \in 0 .. Len(txt) : Agree(g[k], h[k], k, n, txt)
<1>1. PICK l \in Nat : l = Len(txt)
  OBVIOUS
<1>2. PICK T : T = {k \in 0 .. l : ~Agree(g[k], h[k], k, n, txt)}
  OBVIOUS
<1>3. CASE T = {}
  BY <1>1, <1>2, <1>3
<1>4. CASE T # {}
  <2>1. T \subseteq Nat
    BY <1>2
  <2>2. PICK k \in T : \A m \in T : k <= m
    BY <1>4, <2>1, Least
  <2>3. k \in 0 .. l /\ ~Agree(g[k], h[k], k, n, txt)
    BY <1>2
  <2>4. k # 0
    <3>1. g[0] = NoArgs(txt) /\ h[0] = NoWords
      BY DEF Along, Sees
    <3>2. Agree(g[0], h[0], 0, n, txt)
      BY <3>1, FirstFits DEF Agree
    <3>3. QED
      BY <2>3, <3>2
  <2>5. PICK p \in Nat : p = k - 1
    BY <2>3, <2>4
  <2>6. p \in 0 .. l /\ ~(k <= p) /\ k \in 1 .. l /\ k = p + 1 /\ p \in 0 .. l - 1
    BY <2>3, <2>4, <2>5
  <2>7. p \notin T
    BY <2>2, <2>6
  <2>8. Agree(g[p], h[p], p, n, txt)
    BY <1>2, <2>6, <2>7
  <2>9. g[k] = ArgvTurn(n, g[p])
    BY <1>1, <2>5, <2>6, <2>8 DEF Along
  <2>10. h[k] = WordTurn(h[p], txt[k])
    BY <1>1, <2>5, <2>6 DEF Sees
  <2>11. p \in 0 .. Len(txt) - 1
    BY <1>1, <2>6
  <2>12. Agree(ArgvTurn(n, g[p]), WordTurn(h[p], txt[p + 1]), p + 1, n, txt)
    BY <2>8, <2>11, TurnAgrees
  <2>13. QED
    BY <2>3, <2>6, <2>9, <2>10, <2>12
<1>5. QED
  BY <1>3, <1>4

LEMMA AgreeTurnIn ==
  ASSUME NEW txt \in Seq(Letter), NEW n \in Nat, NEW k \in 0 .. Len(txt), NEW x, NEW s,
         Agree(x, s, k, n, txt)
  PROVE  ArgvTurn(n, x) \in ArgvState(Len(txt))
<1>1. CASE Held(x, s, n, txt)
  <2>1. x.done /\ x \in ArgvState(Len(txt))
    BY <1>1 DEF Held
  <2>2. QED
    BY <2>1 DEF ArgvTurn
<1>2. CASE Fits(x, s, k, n, txt)
  <2>1. x.cp = k + 1 /\ x \in ArgvState(Len(txt))
    BY <1>2 DEF Fits
  <2>2. x.cp \in 1 .. Len(txt) + 1 /\ Len(txt) \in Nat
    BY <2>1
  <2>3. QED
    BY <2>1, <2>2, ArgvTurnIn
<1>3. QED
  BY <1>1, <1>2 DEF Agree

LEMMA TurnsExist ==
  ASSUME NEW txt \in Seq(Letter), NEW n \in Nat
  PROVE  \E g : ArgvTurnsFrom(g, n, txt)
<1>1. PICK l \in Nat : l = Len(txt)
  OBVIOUS
<1>2. PICK X : X = ArgvState(l)
  OBVIOUS
<1>3. PICK a \in X : a = NoArgs(txt)
  BY <1>1, <1>2, FirstFits
<1>4. PICK Go : Go = [x \in X |-> IF ArgvTurn(n, x) \in X THEN ArgvTurn(n, x) ELSE a]
  OBVIOUS
<1>5. Go \in [X -> X]
  BY <1>4
<1>6. PICK G : G = [k \in 1 .. l + 1 |-> Go]
  OBVIOUS
<1>7. G \in [1 .. l + 1 -> [X -> X]] /\ l + 1 \in Nat
  BY <1>5, <1>6
<1>8. PICK g \in [0 .. l + 1 -> X] : Steps(g, l + 1, a, G)
  BY <1>7, StepsExist
<1>9. \A k \in 0 .. l + 1 : g[k] = IF k = 0 THEN a ELSE G[k][g[k - 1]]
  BY <1>8 DEF Steps
<1>10. ASSUME NEW k \in 1 .. l + 1, ArgvTurn(n, g[k - 1]) \in X
       PROVE  g[k] = ArgvTurn(n, g[k - 1])
  <2>1. k \in 0 .. l + 1 /\ k # 0 /\ k - 1 \in 0 .. l + 1
    BY <1>1
  <2>2. PICK x \in X : x = g[k - 1]
    BY <1>8, <2>1
  <2>3. G[k] = Go
    BY <1>6
  <2>4. Go[x] = ArgvTurn(n, x)
    BY <1>4, <1>10, <2>2
  <2>5. QED
    BY <1>9, <2>1, <2>2, <2>3, <2>4
<1>11. PICK h : Sees(h, txt)
  BY WordsAre
<1>12. g[0] = a
  BY <1>1, <1>9
<1>13. Along(g, h, n, txt)
  <2>1. ASSUME NEW k \in 1 .. Len(txt), Agree(g[k - 1], h[k - 1], k - 1, n, txt)
        PROVE  g[k] = ArgvTurn(n, g[k - 1])
    <3>1. k - 1 \in 0 .. Len(txt) /\ k \in 1 .. l + 1
      BY <1>1
    <3>2. ArgvTurn(n, g[k - 1]) \in X
      BY <1>1, <1>2, <2>1, <3>1, AgreeTurnIn
    <3>3. QED
      BY <1>10, <3>1, <3>2
  <2>2. QED
    BY <1>3, <1>12, <2>1 DEF Along
<1>14. \A k \in 0 .. l : Agree(g[k], h[k], k, n, txt)
  BY <1>1, <1>11, <1>13, AgreeAlong
<1>15. ASSUME NEW k \in 0 .. l + 1
       PROVE  g[k] = IF k = 0 THEN NoArgs(txt) ELSE ArgvTurn(n, g[k - 1])
  <2>1. CASE k = 0
    BY <1>3, <1>12, <2>1
  <2>2. CASE k # 0
    <3>1. PICK p \in Nat : p = k - 1
      BY <2>2
    <3>2. p \in 0 .. l /\ p \in 0 .. Len(txt) /\ k \in 1 .. l + 1
      BY <1>1, <2>2, <3>1
    <3>3. Agree(g[p], h[p], p, n, txt)
      BY <1>14, <3>2
    <3>4. ArgvTurn(n, g[p]) \in X
      BY <1>1, <1>2, <3>2, <3>3, AgreeTurnIn
    <3>5. QED
      BY <1>10, <2>2, <3>1, <3>2, <3>4
  <2>3. QED
    BY <2>1, <2>2
<1>16. g = [k \in 0 .. l + 1 |-> IF k = 0 THEN NoArgs(txt) ELSE ArgvTurn(n, g[k - 1])]
  <2>1. g = [k \in 0 .. l + 1 |-> g[k]]
    BY <1>8
  <2>2. QED
    BY <1>15, <2>1
<1>17. ArgvTurnsFrom(g, n, txt)
  BY <1>1, <1>16 DEF ArgvTurnsFrom, NoArgs
<1>18. QED
  BY <1>17

(* A word that has been shut is what the reader of the argument finds. *)
LEMMA ReaderFinds ==
  ASSUME NEW l \in Nat, NEW buf \in [1 .. l + 1 -> Nat], NEW p, NEW word \in Seq(Nat),
         Shut(buf, p, word, l + 2)
  PROVE  StringAt(buf, p) = word
<1>1. PICK m \in Nat : m = Len(word)
  OBVIOUS
<1>2. p \in Nat \ {0} /\ p + m < l + 2 /\ buf[p + m] = 0
  BY <1>1 DEF Shut
<1>3. \A i \in 1 .. m : buf[p + i - 1] = word[i] /\ word[i] # 0
  BY <1>1 DEF Shut, Lies
<1>4. buf \in Seq(Nat) /\ Len(buf) = l + 1 /\ l + 1 \in Nat
  <2>1. l + 1 \in Nat
    OBVIOUS
  <2>2. QED
    BY <2>1, RowIs
<1>5. PICK z \in Nat : z = p + m /\ z <= l + 1
  BY <1>2
<1>6. \A j \in p .. z - 1 : buf[j] # 0
  <2>1. ASSUME NEW j \in p .. z - 1 PROVE buf[j] # 0
    <3>1. PICK i \in 1 .. m : j = p + i - 1
      <4>1. j - p + 1 \in 1 .. m /\ j = p + (j - p + 1) - 1
        BY <1>2, <1>5
      <4>2. QED
        BY <4>1
    <3>2. QED
      BY <1>3, <3>1
  <2>2. QED
    BY <2>1
<1>7. PICK nul : nul = CHOOSE i \in p .. Len(buf) : buf[i] = 0 /\ \A j \in p .. i - 1 : buf[j] # 0
  OBVIOUS
<1>8. z \in p .. Len(buf) /\ buf[z] = 0
  BY <1>2, <1>4, <1>5
<1>9. nul \in p .. Len(buf) /\ buf[nul] = 0 /\ \A j \in p .. nul - 1 : buf[j] # 0
  BY <1>6, <1>7, <1>8
<1>10. nul = z
  <2>1. nul \in Nat
    BY <1>2, <1>4, <1>9
  <2>2. ~(nul < z)
    <3> SUFFICES ASSUME nul < z PROVE FALSE
      OBVIOUS
    <3>1. nul \in p .. z - 1
      BY <1>2, <1>4, <1>9, <2>1
    <3>2. QED
      BY <1>6, <1>9, <3>1
  <2>3. ~(z < nul)
    <3> SUFFICES ASSUME z < nul PROVE FALSE
      OBVIOUS
    <3>1. z \in p .. nul - 1
      BY <1>2, <1>5, <2>1
    <3>2. QED
      BY <1>8, <1>9, <3>1
  <2>4. QED
    BY <2>1, <2>2, <2>3
<1>11. StringAt(buf, p) = SubSeq(buf, p, z - 1)
  BY <1>7, <1>10 DEF StringAt
<1>12. PICK s : s = SubSeq(buf, p, z - 1)
  OBVIOUS
<1>13. z - 1 \in Int /\ z - 1 <= Len(buf)
  BY <1>4, <1>5
<1>14. /\ s \in Seq(Nat) /\ Len(s) = IF p <= z - 1 THEN z - 1 - p + 1 ELSE 0
       /\ \A i \in 1 .. z - 1 - p + 1 : s[i] = buf[p + i - 1]
  BY <1>2, <1>4, <1>12, <1>13, RowCut
<1>15. Len(s) = m
  <2>1. p <= z - 1 => z - 1 - p + 1 = m
    BY <1>2, <1>5
  <2>2. ~(p <= z - 1) => m = 0
    BY <1>2, <1>5
  <2>3. QED
    BY <1>14, <2>1, <2>2
<1>16. ASSUME NEW i \in 1 .. m PROVE s[i] = word[i]
  <2>1. i \in 1 .. z - 1 - p + 1
    BY <1>2, <1>5
  <2>2. QED
    BY <1>3, <1>14, <2>1
<1>17. s = word
  BY <1>1, <1>14, <1>15, <1>16, SeqEqual
<1>18. QED
  BY <1>11, <1>12, <1>17

(* parse_argv splits every text into its words, as many as the array takes. *)
LEMMA AllArgs ==
  ASSUME NEW txt \in Seq(Letter), NEW n \in Nat
  PROVE  SplitsWords(n, txt)
<1>1. PICK l \in Nat : l = Len(txt)
  OBVIOUS
<1>2. PICK h : Sees(h, txt) /\ Words(txt) = h[l].words
  BY <1>1, WordsAre
<1>3. PICK g : g = CHOOSE x : ArgvTurnsFrom(x, n, txt)
  OBVIOUS
<1>4. ArgvTurnsFrom(g, n, txt)
  BY <1>3, TurnsExist
<1>5. PICK y : y = g[l + 1]
  OBVIOUS
<1>6. ParseArgv(n, txt) = [i \in DOMAIN y.argv |-> StringAt(y.buf, y.argv[i])]
  BY <1>1, <1>3, <1>5 DEF ParseArgv, ArgvTurnsFrom
<1>7. \A k \in 0 .. l + 1 : g[k] = IF k = 0 THEN NoArgs(txt) ELSE ArgvTurn(n, g[k - 1])
  BY <1>1, <1>4 DEF ArgvTurnsFrom, NoArgs
<1>8. ASSUME NEW k \in 1 .. l + 1 PROVE g[k] = ArgvTurn(n, g[k - 1])
  <2>1. k \in 0 .. l + 1 /\ k # 0
    OBVIOUS
  <2>2. QED
    BY <1>7, <2>1
<1>9. g[0] = NoArgs(txt)
  BY <1>7
<1>10. Along(g, h, n, txt)
  <2>1. \A k \in 1 .. Len(txt) : k \in 1 .. l + 1
    BY <1>1
  <2>2. QED
    BY <1>8, <1>9, <2>1 DEF Along
<1>11. Agree(g[l], h[l], l, n, txt)
  <2>1. \A k \in 0 .. Len(txt) : Agree(g[k], h[k], k, n, txt)
    BY <1>2, <1>10, AgreeAlong
  <2>2. l \in 0 .. Len(txt)
    BY <1>1
  <2>3. QED
    BY <2>1, <2>2
<1>12. y = ArgvTurn(n, g[l])
  <2>1. l + 1 \in 1 .. l + 1 /\ l + 1 - 1 = l
    OBVIOUS
  <2>2. g[l + 1] = ArgvTurn(n, g[l + 1 - 1])
    BY <1>8, <2>1
  <2>3. QED
    BY <1>5, <2>1, <2>2
<1>13. PICK words : words = h[l].words
  OBVIOUS
<1>14. Split(y, words, n, l)
  BY <1>1, <1>11, <1>12, <1>13, LastTurn
<1>15. words \in Names /\ words \in Seq(Seq(Nat))
  BY <1>1, <1>11, <1>13 DEF Agree, Fits, Held, WordState, Names
<1>16. PICK m \in Nat : m = Len(y.argv)
  BY <1>14 DEF Split
<1>17. PICK w \in Nat : w = Len(words)
  BY <1>15
<1>18. m <= n /\ m <= w /\ (m = n \/ m = w) /\ DOMAIN y.argv = 1 .. m
  BY <1>14, <1>16, <1>17 DEF Split
<1>19. PICK buf \in [1 .. l + 1 -> Nat] : buf = y.buf
  BY <1>14 DEF Split
<1>20. PICK argv : argv = y.argv
  OBVIOUS
<1>21. ASSUME NEW i \in 1 .. m PROVE StringAt(buf, argv[i]) = words[i] /\ words[i] \in Seq(Nat)
  <2>1. i \in 1 .. w
    BY <1>18
  <2>2. words[i] \in Seq(Nat)
    BY <1>15, <1>17, <2>1
  <2>3. Shut(buf, argv[i], words[i], l + 2)
    BY <1>14, <1>16, <1>19, <1>20 DEF Split, AllShut
  <2>4. QED
    BY <2>2, <2>3, ReaderFinds
<1>22. PICK parsed : parsed = [i \in 1 .. m |-> words[i]]
  OBVIOUS
<1>23. ParseArgv(n, txt) = parsed
  BY <1>6, <1>18, <1>19, <1>20, <1>21, <1>22
<1>24. parsed \in Seq(Seq(Nat)) /\ Len(parsed) = m /\ \A i \in 1 .. m : parsed[i] = words[i]
  <2>1. parsed \in [1 .. m -> Seq(Nat)]
    BY <1>21, <1>22
  <2>2. QED
    BY <1>22, <2>1, RowIs
<1>25. Min({Len(words), n}) = m
  <2>1. PICK T : T = {w, n}
    OBVIOUS
  <2>2. m \in T /\ \A x \in T : m <= x
    BY <1>18, <2>1
  <2>3. PICK q : q = CHOOSE x \in T : \A v \in T : x <= v
    OBVIOUS
  <2>4. q \in T /\ \A v \in T : q <= v
    BY <2>2, <2>3
  <2>5. q = m
    BY <2>1, <2>2, <2>4
  <2>6. QED
    BY <1>17, <2>1, <2>3, <2>5 DEF Min
<1>26. SubSeq(words, 1, m) = parsed
  <2>1. m <= Len(words) /\ m \in Int /\ m = IF m > 0 THEN m ELSE 0
    BY <1>17, <1>18
  <2>2. SubSeq(words, 1, m) \in Seq(Seq(Nat)) /\ HeadRow(SubSeq(words, 1, m), words, m)
    BY <1>15, <2>1, RowHead
  <2>3. PICK s \in Seq(Seq(Nat)) : s = SubSeq(words, 1, m)
    BY <2>2
  <2>4. Len(s) = m /\ \A i \in 1 .. m : s[i] = words[i]
    BY <2>2, <2>3 DEF HeadRow
  <2>5. Len(s) = Len(parsed) /\ \A i \in 1 .. Len(s) : s[i] = parsed[i]
    BY <1>24, <2>4
  <2>6. s = parsed
    BY <1>24, <2>5, SeqEqual
  <2>7. QED
    BY <2>3, <2>6
<1>27. QED
  BY <1>1, <1>2, <1>13, <1>23, <1>25, <1>26 DEF SplitsWords

-----------------------------------------------------------------------------
(* A text of bytes, or one that a NUL ends. *)
TextIsOfKind ==
  /\ text = [kind |-> text.kind, chars |-> text.chars]
  /\ text.kind \in DOMAIN Longest
  /\ text.kind = "data" => text.chars \in Seq(Byte)
  /\ text.kind \in {"argv", "path", "address"} => text.chars \in Seq(Letter)

LEMMA KindInvariance == TextSpec => []TextIsOfKind
<1>1. TextInit => TextIsOfKind
  <2> SUFFICES ASSUME TextInit PROVE TextIsOfKind
    OBVIOUS
  <2>1. PICK ofKind \in DOMAIN Longest : text = [kind |-> ofKind, chars |-> <<>>]
    BY DEF TextInit
  <2>2. <<>> \in Seq(Letter) /\ <<>> \in Seq(Byte)
    OBVIOUS
  <2>3. QED
    BY <2>1, <2>2 DEF TextIsOfKind
<1>2. TextIsOfKind /\ [TextGrows]_text => TextIsOfKind'
  <2> SUFFICES ASSUME TextIsOfKind, [TextGrows]_text PROVE TextIsOfKind'
    OBVIOUS
  <2>1. CASE TextGrows
    <3>1. PICK ofKind, chars : /\ ofKind = text.kind /\ chars = text.chars
                             /\ text = [kind |-> ofKind, chars |-> chars]
      BY DEF TextIsOfKind
    <3>2. Len(chars) < Longest[ofKind] /\ ofKind \in DOMAIN Longest
      BY <2>1, <3>1 DEF TextGrows, TextIsOfKind
    <3>3. PICK c \in Letters(ofKind, Len(chars) + 1) : text' = [text EXCEPT !.chars = Append(@, c)]
      BY <2>1, <3>1 DEF TextGrows
    <3>4. text' = [kind |-> ofKind, chars |-> Append(chars, c)]
      BY <3>1, <3>3
    <3>5. ASSUME ofKind = "data" PROVE Append(chars, c) \in Seq(Byte)
      <4>1. chars \in Seq(Byte)
        BY <3>1, <3>5 DEF TextIsOfKind
      <4>2. PICK m \in Nat : m = Longest["data"]
        BY <3>2, <3>5, LettersAssumption
      <4>3. PICK l \in Nat : l = Len(chars) /\ l < m
        BY <3>2, <3>5, <4>1, <4>2
      <4>4. l + 1 \in 1 .. Longest["data"]
        BY <4>2, <4>3
      <4>5. Letters("data", l + 1) \subseteq 0 .. 255
        BY <3>2, <3>5, <4>4, LettersAssumption
      <4>6. c \in Byte
        BY <3>3, <3>5, <4>3, <4>5 DEF Byte
      <4>7. QED
        BY <4>1, <4>6, AppendProperties
    <3>6. ASSUME ofKind \in {"argv", "path", "address"} PROVE Append(chars, c) \in Seq(Letter)
      <4>1. chars \in Seq(Letter)
        BY <3>1, <3>6 DEF TextIsOfKind
      <4>2. ofKind \in {"data", "argv", "path", "address"} \cap DOMAIN Longest /\ ofKind # "data"
        BY <3>2, <3>6
      <4>3. PICK m \in Nat : m = Longest[ofKind]
        BY <4>2, LettersAssumption
      <4>4. PICK l \in Nat : l = Len(chars) /\ l < m
        BY <3>2, <4>1, <4>3
      <4>5. l + 1 \in 1 .. Longest[ofKind]
        BY <4>3, <4>4
      <4>6. Letters(ofKind, l + 1) \subseteq 1 .. 255
        BY <4>2, <4>5, LettersAssumption
      <4>7. c \in Letter
        BY <3>3, <4>4, <4>6 DEF Letter
      <4>8. QED
        BY <4>1, <4>7, AppendProperties
    <3>7. QED
      BY <3>2, <3>4, <3>5, <3>6 DEF TextIsOfKind
  <2>2. CASE UNCHANGED text
    BY <2>2 DEF TextIsOfKind
  <2>3. QED
    BY <2>1, <2>2
<1>3. QED
  BY <1>1, <1>2, PTL DEF TextSpec

(* What is coded is read back as it was, whatever the bytes and whatever stands in for the
   capital letters of hexadecimal digits; parse_argv finds the words of every text, however
   many the array takes; the paths of file_io.c fit together and file_create_dir makes what
   it promises, whatever the path, the directories there are and those that cannot be made;
   and an address is accepted exactly if it has the form of one. *)
THEOREM ConversionsAreSound == TextSpec => []ConversionsAgree
<1>1. TextIsOfKind => ConversionsAgree
  <2> SUFFICES ASSUME TextIsOfKind PROVE ConversionsAgree
    OBVIOUS
  <2>1. CASE text.kind = "data"
    <3>1. text.chars \in Seq(Byte)
      BY <2>1 DEF TextIsOfKind
    <3>2. Decodes(text.chars)
      BY <3>1, AllDecode
    <3>3. QED
      BY <2>1, <3>2 DEF ConversionsAgree
  <2>2. CASE text.kind = "argv"
    <3>1. text.chars \in Seq(Letter)
      BY <2>2 DEF TextIsOfKind
    <3>2. \A n \in ArgvLens : SplitsWords(n, text.chars)
      BY <3>1, AllArgs, SizesAssumption
    <3>3. QED
      BY <2>2, <3>2 DEF ConversionsAgree
  <2>3. CASE text.kind = "path"
    <3>1. text.chars \in Seq(Letter)
      BY <2>3 DEF TextIsOfKind
    <3>2. text.chars \in Seq(Nat)
      BY <3>1, LettersAreNumbers
    <3>3. \A dirs, denied \in Trees : PathsFit(text.chars, dirs, denied)
      BY <3>2, AllPaths
    <3>4. QED
      BY <2>3, <3>3 DEF ConversionsAgree
  <2>4. CASE text.kind = "address"
    <3>1. text.chars \in Seq(Letter)
      BY <2>4 DEF TextIsOfKind
    <3>2. text.chars \in Seq(Nat)
      BY <3>1, LettersAreNumbers
    <3>3. TakesAddresses(text.chars)
      BY <3>2, AllAddresses
    <3>4. QED
      BY <2>4, <3>3 DEF ConversionsAgree
  <2>5. CASE text.kind \notin {"data", "argv", "path", "address"}
    BY <2>5 DEF ConversionsAgree
  <2>6. QED
    BY <2>1, <2>2, <2>3, <2>4, <2>5
<1>2. QED
  BY <1>1, KindInvariance, PTL

=============================================================================
