------------------------------ MODULE FsMonitor ------------------------------
(***************************************************************************)
(* osi/src/filesystem_monitor.c: watchers of paths on top of inotify.  A   *)
(* watcher has the descriptor inotify gave it (wd); the kernel ties the    *)
(* descriptor to the file the path led to at that moment, and not to the   *)
(* path.  When the file is moved or deleted the monitor watches the path   *)
(* again.  Callbacks may add and remove watchers, also their own, and end  *)
(* the monitor.                                                            *)
(***************************************************************************)
EXTENDS Integers, Sequences, SequencesExt

CONSTANTS
  Paths, NoPath,   (* the strings watchers are added with; none of them      *)
  Places, Place,   (* what the strings name; two strings may name one place  *)
  Files, NoFile,   (* the inodes there can be; none of them                  *)
  Asked,           (* the event masks watchers are added with                *)
  MaxWds,          (* bound: descriptors inotify gives out before it fails   *)
  MaxQueue         (* bound: files change while fewer events wait            *)

ASSUME PathsAssumption == NoPath \notin Paths
ASSUME PlaceAssumption == Place \in [Paths -> Places]
ASSUME FilesAssumption == NoFile \notin Files
ASSUME AskedAssumption == Asked \subseteq SUBSET {"modify", "gone"}
ASSUME BoundsAssumption == MaxWds \in Nat \ {0} /\ MaxQueue \in Nat

VARIABLES
  at, away,        (* the file at each place; the files at no watched place     *)
  watch, nextWd,   (* inotify: file and mask of each descriptor; the next one   *)
  queue,           (* inotify: the events not yet read                          *)
  open,            (* state.fd > 0, and then state.event_buf is allocated       *)
  listed,          (* the paths that have a watcher on state.watch_list         *)
  wd, mask,        (* the fields of the watchers                                *)
  step,            (* where fs_monitor_task is: "out", "loop", "callback", "called" or "dangling" *)
  batch,           (* the events in event_buf that are not yet handled          *)
  event, watcher,  (* locals of fs_monitor_handle_event; a freed watcher is no path *)
  lost,            (* history: event_buf was freed under the events being handled *)
  shared           (* history: paths whose descriptor another watcher got too   *)

inotify  == <<watch, nextWd, queue>>
watchers == <<listed, wd, mask, shared>>
task     == <<step, batch, event, watcher, lost>>
vars     == <<at, away, inotify, open, watchers, task>>

(* IN_DELETE_SELF and IN_MOVE_SELF are one kind, the code treats them alike. *)
Kinds == {"modify", "gone", "ignored"}
Events == [wd : 1 .. MaxWds, kind : Kinds]
NoEvent == [wd |-> 0, kind |-> "modify"]

TypeOK ==
  /\ at \in [Places -> Files \union {NoFile}] /\ away \in SUBSET Files
  /\ watch \in [1 .. MaxWds -> [file : Files \union {NoFile}, mask : SUBSET Kinds]]
  /\ nextWd \in 1 .. MaxWds + 1
  /\ queue \in Seq(Events) /\ batch \in Seq(Events)
  /\ open \in BOOLEAN
  /\ listed \in SUBSET Paths /\ shared \in SUBSET Paths
  /\ wd \in [Paths -> 0 .. MaxWds]
  /\ mask \in [Paths -> SUBSET Kinds]
  /\ step \in {"out", "loop", "callback", "called", "dangling"}
  /\ event \in Events \union {NoEvent}
  /\ watcher \in Paths \union {NoPath}
  /\ lost \in BOOLEAN

Unwatched == [file |-> NoFile, mask |-> {}]

Init ==
  /\ at = [p \in Places |-> NoFile] /\ away = {}
  /\ watch = [w \in 1 .. MaxWds |-> Unwatched] /\ nextWd = 1 /\ queue = <<>>
  /\ open = FALSE
  /\ listed = {} /\ wd = [p \in Paths |-> 0] /\ mask = [p \in Paths |-> {}] /\ shared = {}
  /\ step = "out" /\ batch = <<>> /\ event = NoEvent /\ watcher = NoPath /\ lost = FALSE

(* The descriptors that watch file f when inotify's table is k: one at most. *)
WatchesIn(k, f) == {w \in 1 .. MaxWds : k[w].file = f}
WatchesOf(f) == WatchesIn(watch, f)
Live == {w \in 1 .. MaxWds : watch[w].file # NoFile}

-----------------------------------------------------------------------------
(* The files, changed by other programs. inotify queues an event for the *)
(* watch of the file, if it asks for it and the same event is not the    *)
(* last in the queue; a deleted file takes its watch with it.            *)
Queued(e) == IF queue # <<>> /\ queue[Len(queue)] = e THEN queue ELSE Append(queue, e)

Notify(f, kind) ==
  LET asking == {w \in WatchesOf(f) : kind \in watch[w].mask} IN
  IF asking = {} THEN queue ELSE Queued([wd |-> CHOOSE w \in asking : TRUE, kind |-> kind])

FilesChange == step # "dangling" /\ Len(queue) < MaxQueue

Modify(f) ==
  /\ FilesChange
  /\ queue' = Notify(f, "modify")
  /\ UNCHANGED <<at, away, watch, nextWd, open, watchers, task>>

(* A file that is nowhere and, its inode being free, not watched. *)
Create(p, f) ==
  /\ FilesChange /\ at[p] = NoFile
  /\ f \notin away /\ \A q \in Places : at[q] # f
  /\ at' = [at EXCEPT ![p] = f]
  /\ UNCHANGED <<away, inotify, open, watchers, task>>

Unlink(p) ==
  /\ FilesChange /\ at[p] # NoFile
  /\ at' = [at EXCEPT ![p] = NoFile]
  /\ LET ws == WatchesOf(at[p]) IN
       /\ watch' = [w \in 1 .. MaxWds |-> IF w \in ws THEN Unwatched ELSE watch[w]]
       /\ queue' = Notify(at[p], "gone") \o
                    (IF ws = {} THEN <<>> ELSE <<[wd |-> CHOOSE w \in ws : TRUE, kind |-> "ignored"]>>)
  /\ UNCHANGED <<away, nextWd, open, watchers, task>>

MoveAway(p) ==
  /\ FilesChange /\ at[p] # NoFile
  /\ at' = [at EXCEPT ![p] = NoFile]
  /\ away' = away \union {at[p]}
  /\ queue' = Notify(at[p], "gone")
  /\ UNCHANGED <<watch, nextWd, open, watchers, task>>

MoveHere(p, f) ==
  /\ FilesChange /\ f \in away /\ at[p] = NoFile
  /\ at' = [at EXCEPT ![p] = f]
  /\ away' = away \ {f}
  /\ queue' = Notify(f, "gone")
  /\ UNCHANGED <<watch, nextWd, open, watchers, task>>

FileStep ==
  \/ \E f \in Files : Modify(f)
  \/ \E p \in Places : Unlink(p) \/ MoveAway(p)
  \/ \E p \in Places, f \in Files : Create(p, f) \/ MoveHere(p, f)

-----------------------------------------------------------------------------
(* inotify_rm_watch leaves an event; it fails for a descriptor that is dead. *)
Without(w) == [watch EXCEPT ![w] = Unwatched]
RmEvents(w) == IF w \in Live THEN <<[wd |-> w, kind |-> "ignored"]>> ELSE <<>>

(* inotify_add_watch on what path p leads to, when the table is k: a file  *)
(* that is watched keeps its descriptor and gets the new mask.             *)
AddWatch(k, p, m) ==
  LET f == at[Place[p]]
      w == IF WatchesIn(k, f) = {} THEN nextWd ELSE CHOOSE x \in WatchesIn(k, f) : TRUE
      sharing == {q \in listed \ {p} : wd[q] = w}
  IN /\ f # NoFile /\ w <= MaxWds
     /\ watch' = [k EXCEPT ![w] = [file |-> f, mask |-> m]]
     /\ nextWd' = IF w = nextWd THEN nextWd + 1 ELSE nextWd
     /\ wd' = [wd EXCEPT ![p] = w]
     /\ shared' = IF sharing = {} THEN shared \ {p} ELSE shared \union sharing \union {p}

(* The watchers ps leave the list and are freed. *)
Forget(ps) ==
  /\ listed' = listed \ ps
  /\ wd' = [q \in Paths |-> IF q \in ps THEN 0 ELSE wd[q]]
  /\ mask' = [q \in Paths |-> IF q \in ps THEN {} ELSE mask[q]]
  /\ shared' = shared \ ps
  /\ watcher' = IF watcher \in ps THEN NoPath ELSE watcher

(* The calls of the program, from outside of the task or from a callback. *)
Calling == step \in {"out", "callback"}

FsInit ==
  /\ Calling /\ ~open
  /\ open' = TRUE
  /\ UNCHANGED <<at, away, inotify, watchers, task>>

(* fs_monitor_init of an open monitor removes all watchers.  The order of  *)
(* the events this leaves is not kept: no watcher has their descriptors.   *)
FsInitAgain ==
  /\ Calling /\ open
  /\ watch' = [w \in 1 .. MaxWds |-> Unwatched]
  /\ queue' = queue \o SetToSeq({[wd |-> w, kind |-> "ignored"] : w \in Live})
  /\ Forget(Paths)
  /\ UNCHANGED <<at, away, nextWd, open, step, batch, event, lost>>

(* The descriptor is closed, and with it everything inotify has of it.     *)
(* event_buf is freed: what an event being handled says is gone.           *)
FsCleanup ==
  /\ Calling /\ open
  /\ open' = FALSE
  /\ watch' = [w \in 1 .. MaxWds |-> Unwatched] /\ nextWd' = 1 /\ queue' = <<>>
  /\ Forget(Paths)
  /\ event' = NoEvent /\ lost' = (step = "callback")
  /\ UNCHANGED <<at, away, step, batch>>

AddWatcher(p, m) ==
  /\ Calling /\ open /\ p \notin listed
  /\ AddWatch(watch, p, m \union {"gone"})
  /\ listed' = listed \union {p}
  /\ mask' = [mask EXCEPT ![p] = m]
  /\ UNCHANGED <<at, away, queue, open, task>>

DelWatcher(p) ==
  /\ Calling /\ open /\ p \in listed
  /\ watch' = Without(wd[p])
  /\ queue' = queue \o RmEvents(wd[p])
  /\ Forget({p})
  /\ UNCHANGED <<at, away, nextWd, open, step, batch, event, lost>>

UserStep ==
  \/ FsInit \/ FsInitAgain \/ FsCleanup
  \/ \E p \in Paths : DelWatcher(p) \/ \E m \in Asked : AddWatcher(p, m)

-----------------------------------------------------------------------------
(* fs_monitor_task reads what there is, until there is nothing. *)
Read ==
  /\ step \in {"out", "loop"} /\ open /\ batch = <<>> /\ queue # <<>>
  /\ batch' = queue /\ queue' = <<>>
  /\ step' = "loop"
  /\ UNCHANGED <<at, away, watch, nextWd, open, watchers, event, watcher, lost>>

TaskReturns ==
  /\ step = "loop" /\ batch = <<>> /\ (open => queue = <<>>)
  /\ step' = "out"
  /\ UNCHANGED <<at, away, inotify, open, watchers, batch, event, watcher, lost>>

(* The first watcher of the list with the event's descriptor. The list is  *)
(* a set here; which of two watchers that share one comes first is open.   *)
Dispatch ==
  /\ step = "loop" /\ batch # <<>>
  /\ batch' = Tail(batch)
  /\ LET e == Head(batch)
         found == {p \in listed : wd[p] = e.wd}
     IN \/ /\ found = {}
           /\ UNCHANGED <<step, event, watcher>>
        \/ \E p \in found :
             /\ event' = e /\ watcher' = p
             /\ step' = IF e.kind \in mask[p] THEN "callback" ELSE "called"
  /\ UNCHANGED <<at, away, inotify, open, watchers, lost>>

(* The watcher is looked at again, at once or when its callback returns. *)
Called == step \in {"callback", "called"}
(* A slip of PathChanged: IN_IGNORED is not looked at. *)
PathChangedByItself == event.kind = "gone"

PathChanged == event.kind \in {"gone", "ignored"}

(* On to the next event in event_buf. *)
EventDone ==
  /\ step' = IF lost /\ batch # <<>> THEN "dangling" ELSE "loop"
  /\ event' = NoEvent /\ watcher' = NoPath /\ lost' = FALSE
  /\ UNCHANGED batch

(* Nothing to restore. *)
Pass ==
  /\ Called /\ ~PathChanged
  /\ EventDone
  /\ UNCHANGED <<at, away, inotify, open, watchers>>

(* The watcher was freed by its callback, and is used: what follows is not *)
(* followed. If event_buf was freed too, its mask may be anything: the     *)
(* watcher is used or passed over.                                         *)
UseFreed ==
  /\ Called /\ (PathChanged \/ lost) /\ watcher = NoPath
  /\ step' = "dangling"
  /\ UNCHANGED <<at, away, inotify, open, watchers, batch, event, watcher, lost>>

(* A slip of Restore: the old descriptor is not removed. *)
RestoreKeepsOld ==
  /\ Called /\ PathChanged /\ watcher # NoPath
  /\ AddWatch(watch, watcher, mask[watcher])
  /\ EventDone
  /\ UNCHANGED <<at, away, queue, open, listed, mask>>

(* The watcher's own mask is asked for, without PATH_CHANGE_EVENTS. *)
Restore ==
  /\ Called /\ PathChanged /\ watcher # NoPath
  /\ queue' = queue \o RmEvents(event.wd)
  /\ AddWatch(Without(event.wd), watcher, mask[watcher])
  /\ EventDone
  /\ UNCHANGED <<at, away, open, listed, mask>>

(* inotify_add_watch fails, for want of a file or of anything else. *)
RestoreFails ==
  /\ Called /\ PathChanged /\ watcher # NoPath
  /\ queue' = queue \o RmEvents(event.wd)
  /\ watch' = Without(event.wd)
  /\ listed' = listed \ {watcher}
  /\ wd' = [wd EXCEPT ![watcher] = 0]
  /\ mask' = [mask EXCEPT ![watcher] = {}]
  /\ shared' = shared \ {watcher}
  /\ EventDone
  /\ UNCHANGED <<at, away, nextWd, open>>

HandleEvent == Pass \/ UseFreed \/ Restore \/ RestoreFails
TaskStep == Read \/ TaskReturns \/ Dispatch \/ HandleEvent

Next == FileStep \/ UserStep \/ TaskStep

(* The program calls fs_monitor_task again and again, and callbacks return. *)
Spec == Init /\ [][Next]_vars /\ WF_vars(TaskStep)

-----------------------------------------------------------------------------
(* An event of one of the kinds for descriptor w that is still to be handled. *)
Waiting(events, w, kinds) == \E i \in DOMAIN events : events[i].wd = w /\ events[i].kind \in kinds

Pending(w, kinds) ==
  \/ Waiting(queue, w, kinds) \/ Waiting(batch, w, kinds)
  \/ event.wd = w /\ event.kind \in kinds

Watching(p) == wd[p] \in Live

(* Its descriptor is alive, or an event that will have it restored or      *)
(* removed is under way; and if the file it watches is no longer the one   *)
(* at its path, and the kernel was asked for moves, such an event is under *)
(* way too.                                                                *)
Awake(p) ==
  /\ Watching(p) \/ Pending(wd[p], {"gone", "ignored"})
  /\ Watching(p) /\ watch[wd[p]].file # at[Place[p]] /\ "gone" \in watch[wd[p]].mask
       => Pending(wd[p], {"gone"})

(* As long as no watcher or buffer was used after its release, each        *)
(* watcher whose descriptor was never another's is awake: it hears of its  *)
(* file, or it will be restored or removed.                                *)
WatchersAreAwake == step # "dangling" => \A p \in listed \ shared : Awake(p)

(* Each descriptor inotify has belongs to a watcher on the list, whatever  *)
(* was added, removed and restored, by callbacks too, and whether or not   *)
(* watchers share descriptors.                                             *)
NoStrayWatch == step # "dangling" => \A w \in Live : \E p \in listed : wd[p] = w

(* A watcher with a dead descriptor that is its own is restored or removed. *)
DeafIsRestored ==
  \A p \in Paths : (p \in listed \ shared /\ ~Watching(p))
                   ~> (p \notin listed \/ Watching(p) \/ p \in shared \/ step = "dangling")
=============================================================================
