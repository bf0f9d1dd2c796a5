# A formal model of gwutil

gwutil is a Windows tool (src/main.cpp) that finds ZigBee gateways on the local
network, shows and changes their MQTT, WAN and Wifi configuration over UDP,
and manages the devices paired with a gateway over ssh. The repository also
holds a stand-in for a gateway, the test target (src/testtarget), a small
event-driven program on top of the C library `osi` (lists, queues, hash map,
timers, file events, a monitor of files, codings, sockets and serial lines). The modules here are TLA+ models of both, with TLC
configurations that check them on small instances and TLAPS proofs for every
size of the core ones.

To check a run: `tlc -workers 2 -config MCGwScan.cfg MCGwScan.tla`. To check a
proof: `tlapm GwScanProofs.tla`. `PROJECT.json` lists runs, properties, the
source lines behind every definition, hazards, findings and theorems.

Contents: [1 system](#1-the-system), [2 modules](#2-modules),
[3 runs](#3-runs), [4 fairness](#4-fairness), [5 findings](#5-where-the-code-does-not-do-what-the-repository-says),
[6 proofs](#6-proofs), [7 limits](#7-what-is-not-modelled), [8 plan](#8-plan).

## 1. The system

### The gateway manager (Windows program)

Only main.cpp, util, udp, vlist, ssh2 and encc are compiled (src/Makefile);
timer.cpp, socket.cpp and proto.cpp are commented out there, serial.cpp is not
named.

| Component | State it keeps | Operations | Talks to |
|---|---|---|---|
| Main dialog and scan | button BTN_SCAN, auto-reset event `hEvent`, list `g_hgwlist`, `g_selected_item`; in the scan thread `devs`, `cnt`, a socket | BTN_SCAN, right click, close; the thread's scan: broadcast, receive, append rows, progress, notify | gateways by UDP, the user-interface thread by SendMessage |
| Shell and NTP dialogs | the fields of the dialog | `shell_cmd`, `ntp_set` on OK | the gateway of the selected row, by ssh |
| Configuration dialogs (mqtt, wan, wifi) | the fields of the dialog, a socket per exchange | `query_x` in WM_INITDIALOG, `set_x` on OK | the gateway of the selected row; the same UDP port 9999 as the scan |
| Device dialog | buttons query and add, list `g_hdevlist`, `g_selected_dev_item`, one thread per command with its locals | query, add, delete | the gateway by ssh |
| List helper vlist | nothing of its own | append (several messages), clear, hit test, read a column | the list controls |
| Sockets udp.cpp | the descriptor | open (bind not checked), send, receive with timeout, close | network |
| ssh client ssh2.cpp | library, socket, session, known hosts, channel of one call; libssh2's own count of users | `libssh2_main`, one blocking exchange with eleven failures | gateway; other calls of itself, by that count |
| Frames, addresses, cipher | the key | frame and check byte, `valid_mac`, `valid_ip`, 3DES in base64 | – |

Two threads run all the time: the user-interface thread and the scan thread. A
`SendMessage` from the scan thread is carried out by the user-interface thread,
and only while that thread is in a message pump: the main one, that of a popup
menu, of a modal dialog or of a message box. `query_x` and `set_x` block that
thread on a socket for up to four seconds, `shell_cmd` and `ntp_set` in an ssh
exchange for as long as the gateway likes. The device dialog starts a further
thread for each command.

What is hard here: clicks that arrive while the scan thread is between two
steps; two sockets that want one port, and answers that are late; a list that
one thread changes while another holds an index into it; several threads that
enable and disable the same buttons; dialogs that are closed while their
threads run.

What makes it correct: the scan button is enabled exactly when no scan is
under way, no click is lost, each scan ends and gives the button back; the
list shows exactly the gateways that answered, each once; a dialog shows and
changes the gateway the user selected, and returns; a query of devices is
listed as answered, a delete names the device selected, and no button stays
disabled; an ssh exchange uses what it holds and releases it; a command arrives
as it was sent.

### The test target (Linux program)

| Component | State it keeps | Operations | Talks to |
|---|---|---|---|
| osi list, lockqueue | head, tail, size, links | push, pop and peek at both ends, size, destroy; push, pop and pop\_back of the queue | their callers |
| osi hash map | table, size, count, allocated keys | init, put, get, remove, clear, reset, destroy, iterator, foreach, rehash | its callers |
| osi timers | sorted list of active timers | set, cancel, advance | handlers |
| osi file events | table of descriptors and functions, poll's results | reg, reg\_pollf, unreg, poll | functions of the files |
| Test target | event queue `eq`, step timer | test\_push, test\_run, test\_in, main loop | timers, UDP |
| osi filesystem monitor | list of watchers, inotify descriptor, buffer of events | init, cleanup, add and delete a watcher, task | inotify, callbacks |
| osi input and output | descriptors | create, destroy, accept, send, receive of TCP, UDP and serial lines, with timeouts | the kernel |
| osi codings and parsers | checksum or digest under way | base64, hex, URL, crc, md5, parse\_argv, paths | their callers |

It has a single thread, whose handlers may set timers and change the file table
while the loop walks over them. What makes it correct: the list is a queue with
two ends whatever mix of operations is applied; the map holds what was put into
it; no timer is lost, late for another, or served twice; a file's function is
called for an event reported of its slot; and an event in the queue is taken, in
order, unless a NULL event stops `test_run`; a watcher of a path notices what happens there, whatever file the path leads
to; a result of an input or output function is true of the bytes that moved.

PROJECT.json lists every part, those without a model too.

## 2. Modules

    Deque ─────────────┬── OsiList (see Library)
      (abstract)       └── TestAgent ── MCTestAgent, TestAgentProofs
    EventLoop ─────────────┘
    GwScan ── MCGwScan, GwScanProofs
      └────── GwManager (refines GwScan) ── MCGwManager, GwManagerProofs
    DevManage ── MCDevManage ┐
    Ssh2 ─────── MCSsh2 ─────┴─ both in DevManageProofs
    HashMap ──── MCHashMap, HashMapProofs
    FsMonitor ── MCFsMonitor, FsMonitorProofs
    BitWords ── Des ──── Cipher (with Texts) ┐
         └───── Streams ─────────────────────┤
       Codecs, Parsers ── Conversions ───────┤
          (with Texts)  OsiList, OsiIo ──────┴── Library ── MCLibrary
      (Cipher, OsiList and OsiIo are proved about in LibraryProofs, Streams in StreamProofs,
       Conversions in FsMonitorProofs)

### GwScan: the scan (main.cpp 88–150, 560–700; vlist.cpp 22–70; udp.cpp)

`thread` is the place in `scan_thread`/`scan_devices`; an action is what happens
between two points where another thread or the network can interfere. Every
`SendMessage` is an action with the guard `Pumping`. The event is auto-reset:
`Wake` clears it. `vlist_append` is two actions, `InsertRow` for the message that
makes the row and `FillRow` for the one that writes its address. The new row goes
to index 0: the count the code asks for is that of a tab control, which a list
view answers with 0.

`net` counts answers under way per gateway. A broadcast may give rise to any number
of them, they may get lost, be late, reach the next scan or be received in any
order. One value stands for a gateway's mac and address. `RecvIgnored` is an
answer with a mac already in `devs`, another `ret` or missing members.

### GwManager: the dialogs (main.cpp 110–410, 700–1302), around GwScan

`Scan == INSTANCE GwScan WITH ui <- UiView` takes over every action of the scan;
`win` refines its `ui`. What GwScan leaves open (the user-interface thread is busy
for a while) is here the exchange of a dialog: `OpenDialog` with `query_x`,
`PressOk` with `set_x`, `UiRecv…` for each result of `udp_recv`, message boxes,
and the three `set_x` where they differ (`SetMqttAnswered`, `SetWanAnswered`,
`SetWifiForeign`). `RunCommand`, `ShellReturns` and `NtpTells` are the two dialogs
that use ssh. What a gateway may answer is `Answers`; the test target's
`test_do_cmd` is the instance of it in the repository.

Ports: whoever opens a socket while another has 9999 gets a port of its own. What
is sent to 9999 stays until a socket at 9999 reads it or it is lost; what is sent
to a port of its own is lost with its socket. `net` is shared by both kinds of
sockets and does not record the port the scan had: an over-approximation, which
only gives the scan and the dialogs more late answers. An index that is no row
leaves the buffer as it was, and it is uninitialised: any address.

### DevManage: the device dialog (main.cpp 1440–1760; vlist.cpp)

One record per thread, with the place in `_dev_manage_qrylist/add/del` and the
locals. The table `Switch` holds the `EnableWindow` calls; each is a step of its
own, as any other thread may come between them. The list is found through
`g_hdevlist`, so threads that outlived their dialog write to the list of the
next one, while their window handle is dead (`live`).

### Deque, OsiList (list.c)

Deque is what the list promises: a sequence with operations at both ends. OsiList has the items with `next`, `prev` and data, and head, tail
and size; one action per function, all with the code's case distinctions.
`list_destroy` goes step by step, with the failures it runs into.

### HashMap (hashmap.c)

The table, `num_entries`, the copies of keys, one walk at a time. Data may be NULL: such an
entry is there and counts, but a put for its key overwrites it, and a rehash leaves it out
without uncounting it or freeing its key; `dropped` and `lost` count what is left out so. Put with growth
and with failing allocations, removal with the shift of the chain, clear, reset,
destroy, the iterator and `hashmap_foreach`. The hash function is a constant. `Gaps`
and `Refill` are the two loops, of `hashmap_entry_remove` and `hashmap_rehash`, as
functions of the number of turns; `contents` is what a caller should find.

### EventLoop, TestAgent (timer.c, file\_event.c, lockqueue.c, main.c, test.c)

EventLoop is the library with its loop, TestAgent the program that uses it.
`phase` tells whether the loop is in a timer's handler, a file's function, poll
or between them. Time is relative: `due[t]` is what is left, and 0 for all late
timers; the code only compares times. Functions of files run in phase
"callback" and may do everything a handler may. The queue is an instance of
Deque, which LibraryProofs shows to be what list.c implements: TestAgent is thus
composed with the specification of the list instead of its code. Events are numbered;
`nulls` are those that are NULL, at which `test_run` returns without `test_step`, and `left`
remembers that it did and that nothing was pushed since. `reported` keeps what poll
reported of each slot and of which file, while the walk over the slots lasts.

### Ssh2 (ssh2.cpp)

One `libssh2_main` per thread; the threads share nothing but libssh2's count of
its users, which `libssh2_init` and `libssh2_exit` read and write without a lock:
two steps each. The exchange itself is a table, `Calls`, with one row per call:
what it acquires and releases, where the code goes on, and the `ret` and label of
each failure. A loop on LIBSSH2\_ERROR\_EAGAIN is a step not yet taken. DevManage and
GwManager have the exchange as one blocking step with an arbitrary answer.

### FsMonitor (filesystem\_monitor.c)

Files, places and paths are different things: a path names a place, a place holds
a file, and inotify watches the file. Other programs modify, create, delete and
move files; inotify queues events by descriptor, merges equal ones that follow
each other, and gives a file that is already watched its old descriptor. The
program adds, removes, initialises and cleans up, from outside the task and from
callbacks in the middle of it. Where a callback frees the watcher that is being
handled, or the buffer, the model marks the step that uses it (`dangling`) and
goes no further. What an event in the freed buffer says is then gone: whether its mask
still asks for the watcher to be restored is open (`UseFreed` or `Pass`). `shared` remembers watchers that got one descriptor for two
paths.

### Library: the functions without threads

The parts share no state, so a behaviour of Library is about one of them.

- **Texts**: what functions without state are given, a text of some kind that grows by a
  character a step.

- **BitWords**: bytes and words as rows of bits, and their exclusive or; used by Des, Cipher
  and Streams.
- **Des** (des.cpp of 3des-ecb): the initial and final permutation, the choice and
  the turning of the key, the rounds on halves, and the three passes over each block,
  on bits. The round function is a constant, `F`: decryption undoes encryption for any.
- **Cipher** (the rest of des.cpp, encc.cpp, the frames of main.cpp): padding and its
  removal, base64 with line ends, and the frame with its check byte, on bytes; and
  `CommandsSurvive`, that a receiver gets the command that was sent.
- **Codecs** (base64.c, hex.c, URL coding of des.cpp), **Parsers** (parse\_argv.c
  with its in-place writing, paths and `file_create_dir`, `valid_mac` and
  `valid_ip`): the functions as the code computes them, beside references that
  say what they are for (`Words`, `Decodes`, …). A loop is a recursive function of the
  number of its turns; `ArgvTurn` is one character of `parse_argv`, whose two inner loops
  become the flag `open`.
- **Conversions**: these functions applied to a text of their kind, with the property
  `ConversionsAgree`.
- **Streams** (crc.c, md5.c, proto.cpp): state machines fed with pieces. The
  rounds of MD5 are left out; a transformed block is appended to a list. proto.cpp
  is in no program; its parser and composer share a static variable. `astray` tells that
  a frame was composed while another was received, or that a length had a first byte.
- **OsiList** (list.c), described above, is a part of its own.
- **OsiIo** (tcp.c, udp.c, serial.c): one call at a time; every answer of every
  system call is a step. Bytes are counted.

### Slips

Definitions that a comment calls a slip (`ClickScanKeepsButton`,
`TimerSetAgain`, …) are variants of an action with a plausible mistake in it.
No specification uses them. They are kept to confirm that the properties depend
on the code: with the slip in place of the action, TLC finds the property
violated. PROJECT.json pairs each property with one.

## 3. Runs

| Run | Shows | Instance | States |
|---|---|---|---|
| scan | `ButtonTellsIdle`, `ListIsRight`, `RowsOnlyMoveDown`; `ClickStartsScan`, `ButtonComesBack`, `AnswerIsShown` | 3 gateways, 2 answers each, 2 timeouts | 34,092 |
| manager | `ShownIsOfAsked`, `OnlyScanMovesTarget`, `ListStaysUnderDialog`, and `IsScan`: GwManager refines GwScan | 2 gateways, 1 answer each, dialogs mqtt, wifi, shell and ntp, all three results | 448,419 |
| manager\_live | `ExchangeEnds`, `ButtonComesBack` | 1 gateway, dialogs mqtt and wan | 20,107 |
| devices | `ButtonsAreOwed`, `LoneQueryIsListed`, `CertainTargetIsDeleted` | 2 threads, 2 devices, answers empty or both | 1,961,550 |
| hashmap | `GetFindsWhatWasPut`, `TableIsSound`, `NothingIsSkipped` | tables of 4 to 16, 5 keys with collisions, data among them NULL, one key left out once | 235,593 |
| agent | `TimersAreKept`, `QueueIsServed`, `OnlyReportedEvents`, `EventsInOrder`, `DueTimersFire`, `EventsAreHandled` | 2 timers, 3 files, table of 2, 2 pushes, NULL or not | 493,076 |
| ssh | `HoldsWhatItUses`, `ReturnsRelease`, `LibraryIsUp` | 2 threads that call again and again, count up to 3 | 466,631 |
| fsmonitor | `WatchersAreAwake`, `NoStrayWatch`, `DeafIsRestored` | 2 paths, 2 files, 3 descriptors, files change while no event but one waits | 94,071 |
| library | `CommandsSurvive`, `ConversionsAgree`, `StreamsAreWhole`, `ListIsWhole`, `IsDeque`, `IoTellsTruth`, `IoReturns` | see below | 132,875 |
| hashmap\_lost, frames, crc16 | one claim each that the code does not keep (section 5) | | |

The name in `code` is the operator; its comment says in words what it means.
The runs manager, devices and agent check a type invariant; elsewhere it is part of a
theorem for every instance (section 6) and not checked again.

### Why the bounds are enough

- **Gateways.** What can be confused is a row and its neighbour, or the asked
  gateway and another one: two. The scan run has three, so that a list has a row
  that is neither first nor last.
- **MaxTicks** 2 (ten in the code) tells the last timeout from an earlier one;
  GwManager adds no use of the counter and has 1.
- **MaxCopies, MaxReplies**: one answer that is late is enough to meet the next
  socket; two of the same gateway are what `devs` has to tell apart. Broadcasts
  repeat without bound, thus late answers do too.
- **Lists, devices**: queries that answer nothing, and two devices, so that rows
  have an order and a row in the middle of being made has a neighbour.
- **Threads** 2: every property but the ownership of buttons is about a thread
  and its interferer; three threads add no new kind of pair.
- **Items** 3: the first, the last and one between them that is the neighbour of both;
  the proof has no bound.
- **Tables** of 4 to 16 slots let chains cross the end of the table, be moved by
  a removal and be grown out of. **MaxLost** 1: that one entry is left out by a doubling
  tells the count from the table; what is not emptied in between only adds up. hashmap\_lost uses the code's own smallest
  table, 32.
- **POLL\_EVENT\_NFD** 2 with three files: the table can be full and a slot can
  change hands. **Delays** 2: timers set at different ticks have different times left, those set at one tick equal ones. **MaxPushes** 2:
  an event that waits behind another.

- **Ssh threads** 2: a race for the count is between two; each may call
  again, so a call also meets what an earlier one left behind.
- **Files** of FsMonitor: two paths and two files allow a file to be replaced,
  exchanged, and moved from one watched path to another, where two watchers get
  one descriptor.
- **Texts** of the library: commands up to 61 bytes, so that the cipher text
  has one line end, in every length of the last block, with keys of both lengths and
  ends that look like padding and ends that do not; data up to 4 bytes, which is
  every remainder of three and a second group; argument lines of 6 characters out
  of blank, two quotes and a letter; paths of 6; addresses of 8. Round function
  and letters are chosen so that no two bits of a block play the same part.
- **Streams**: pieces of 1 to 129 bytes against a buffer of 64. A word of the
  digest's count wraps at 1024 in the run (`CountWraps`) and a byte that holds a
  length at 8 (`CopyWraps`), so that both wrap.
- **Input and output**: 3 bytes come, 2 are asked for. Descriptor 0 is in it,
  which the code treats as none in some places.

The dialog wan differs from wifi only in its loop, and there it is as mqtt; the
manager run has mqtt and wifi, manager\_live mqtt and wan, since wifi and the
dialogs with ssh need not return.

CHECK\_DEADLOCK is off where the system may stop: after WM\_CLOSE (GwScan,
GwManager), after `hashmap_destroy` (HashMap), when every caller of ssh has reached the bound or fs\_monitor has nothing
left, and in the library: a text has a greatest length, a stream a last piece, a list
its destruction. It is on for devices, where it says something, and for agent, where it does not: the
clock can always tick, and that the loop goes on is `DueTimersFire`.

### Conditions in properties

- HashMap's invariants are stated up to the first removal from a chain longer
  than half the table, `~stretched`; what happens then is the finding of
  hashmap\_lost, and the model is not followed further.
- `TableIsSound` counts the entries without data that doublings have left out: the count is too
  large by them, and their keys are not freed.
- `OnlyReportedEvents` is about slots, and about files as far as the slot keeps its file: an
  entry registered in a function inherits `revents` of its slot, so its own function
  can be called for an event of the slot's former file, of the kind that was reported. Without
  this exception TLC finds the call.
- `QueueIsServed` and `EventsAreHandled` except a queue that a NULL event made `test_run` leave
  (`left`): it waits for the next push.
- `OnlyScanMovesTarget` is what remains true of the configured gateway: rows are inserted at
  the top, so that a scan moves the rows under the index an open dialog keeps.
- `StreamsAreWhole` follows crc.h for the polynomials, and stops where a length has a first
  byte other than 0; the findings crc16 and frames are about the rest.

## 4. Fairness

- **Scan thread**: strong fairness of its steps. It runs on its own; where it
  waits in SendMessage, Windows delivers sent messages each time the receiving
  thread enters its pump, before posted ones, so a pump that is reached again
  and again lets the thread go on.
- **A blocked handler returns** (`UiResume`, `UiReceives`): weak fairness.
  `udp_recv` is called with a timeout. In GwScan this is an assumption on the
  dialogs, which GwManager justifies for mqtt and wan (`ExchangeEnds`) only; see
  section 5 for set\_wifi. An ssh exchange is not assumed to end:
  nothing in libssh2\_main bounds its loops.
- **File monitor**: weak fairness of the task: the program calls it again and again,
  and callbacks return.
- **Library**: weak fairness of the system's answers (`Answer`): a system call that
  a signal interrupts is started over by the code, and signals are assumed not to
  come for ever. That a `select` fails is not assumed.
- **Test target**: weak fairness of time, of the loop's own steps, of poll's end
  when its time is up, and of the return of handlers, all on one thread. poll
  need not report anything, ever.
- Nothing is assumed of the user, the network or the gateways: clicks, answers
  and reports may or may not come.

A scan ends only because answers are finitely many (`MaxCopies` per broadcast
and gateway): `scan_devices` counts timeouts only, and a network that sends one
datagram a second keeps it going for ever. EventsAreHandled likewise relies on
pushes to end, as each `test_push` postpones the step timer.

## 5. Where the code does not do what the repository says

Each is the subject of a run in which TLC finds the counterexample.

- **hashmap\_lost**, `RemovalKeepsOthers`. `HASHMAP_INDEX_LE` tells before from
  after by half a circle, but a chain may be longer than half the table; a
  removal then moves an entry to where it is never found, against the comment of
  `hashmap_entry_remove` (hashmap.c:127) that the chain stays continuous.
- **frames**, `FramesAreComplete`. proto.h:32 says that `proto_frame_get` returns "a complete
  frame". In `_fm[3]&0xff << 8` (proto.cpp:183) the shift binds first, so the first byte of the
  length is lost: a frame with 256 bytes of data is returned without any. (No program
  contains proto.cpp.)
- **crc16**, `Crc16IsIeee`. The comment above `crc16` (crc.c:49) names the IEEE polynomial with the
  lowest bit first; the code and crc.h:17 have CCITT, and the highest bit is first.

Seen while modelling, without a run of their own, and taken into the models as they are
where the models reach so far:

- main.cpp and vlist.cpp: `vlist_append` inserts every row at the top (the count it asks for is
  a tab control's, vlist.cpp:30); `set_x` reads the address at `g_selected_item` again (main.cpp:963),
  so that after a row is added OK works on what has moved to that index.
- main.cpp: `set_mqtt` takes the late answer to the dialog's own query for success;
  `set_wifi` calls `udp_recv` once before its loop, so that a datagram of another
  gateway makes it loop for ever; receivers do not compare the check byte; an add reads
  the address field twice; the popup menu beside the device list deletes the device
  of a literal MAC or of an old selection; `timeval` gets `ms % 1000` as
  microseconds; `valid_mac` refuses capital digits, though its loop converts them.
- ssh2.cpp: errors -3, -7 and -11 return without releasing everything (`Lost`).
- list.c: the loop of `list_destroy` skips every second item and its final
  assertion fails; no caller destroys a filled list.
- hashmap.c: a rehash leaves out entries with NULL data, without freeing their keys or
  counting them off, though its comment says that it rehashes all entries (line 175), and
  `hashmap_size` "the number of entries" (439); `hashmap_foreach` may skip an entry when its
  function removes another one.
- filesystem\_monitor.c: a callback that removes its own watcher has it used after
  its release; one that calls `fs_monitor_cleanup` has the mask read from the freed buffer; a
  restored watcher is no longer told of moves; a shared descriptor
  is one watcher's only; IN\_Q\_OVERFLOW has no case, so that what the kernel dropped is missed.
- tcp.c: `tcp_destroy` of a socket that listened spins for ever; serial.c: what was
  read before an error is lost.
- proto.cpp copies a frame with a length of one byte, so that a long one is cut.
- test.c: a NULL event makes `test_run` return without `test_step`; the events behind it wait for
  the next push.
- file\_event.c: a slot registered during the walk inherits what was reported of its former file.
- test.c and main.c: JSON objects are released twice in `test_do_cmd`; POLLERR and
  POLLHUP make the loop spin; the mutex does nothing.

## 6. Proofs

All proofs hold for every value of the constants under the modules' named
assumptions; none of them bounds the number of gateways, items, timers or
pushes.

**GwScanProofs** (`GatewaysAssumption`: the mark of an unfilled row is no gateway;
`BoundsAssumption`: limits are positive). `ScanInvariance` shows `[]ScanInv`.
`ScanTypeCorrect`, `ButtonIsSound`, `ListIsSound` and `RowsAreStable` follow from it:
types, the button, the three parts of `ListIsRight`, and the action property
that rows only move down. The properties alone are not inductive. That a
scan finds an empty list (`ScanStartsEmpty`) and fresh locals (`LocalsAreGone`)
is needed for `ListShowsDevs` to begin; that an event is only set while the
thread is idle (`EventIsForIdle`) for a click not to clear the list of a running
scan; that the answer being appended is in `devs` (`AnswerIsMet`) for its row to be
new; that the loop is left at the limit (`TicksBelowLimit`) for the counter's type.

**GwManagerProofs** (all assumptions of GwManager). `ManagerIsScan`: GwManager implements
GwScan; the refinement mapping gives the scan the view it has of the user-interface
thread, which pumps, is busy, or has closed. Each group of the dialogs' steps is shown to
block the pump, resume it, lose an answer or change nothing. `ScanStaysSound`
carries the theorems of GwScanProofs over to the composed program. On top of
that, `FieldsAreOfAsked`, `TargetIsAsked` and `ListIsStable` are the manager's own
properties. The first needs that only a dialog has values and that `dst` is `asked`
while a query waits (`FieldsOfAsked`); the second that the selected row is that of the
gateway asked until a row is added (`AimIsAsked`); the types need that the answers
under way are finite, for their number.

**LibraryProofs**, encrypted commands, and the list and the input and output functions of osi.

For the cipher, `DesBack`: a pass of `des` is undone by a pass in the other mode; and
`DecipherUndoes`: what is deciphered are the blocks that were enciphered, for keys of both
lengths, texts of any number of blocks and any round function that gives 32 bits
(`RoundFunction`; a hypothesis of the theorems, as TLC could not enumerate it). The rounds
backwards are those forwards with the halves swapped (`RoundBack`), if they meet the same
keys: the turns of the key add up to the same from either end, once around apart
(`KeysMeet`). The other facts are that the two permutations are inverse
(`TablesInverse`), that bytes are their bits (`BytesBack`, `BitsBack`), and that the
blocks of a row of blocks are its parts (`BlocksBack`).

Around the cipher, `Base64Back`: decoding gives back the bytes that were encoded, for texts
of any length. What is encoded is first described by groups of four symbols, a line
end after each nineteenth group (`Encodes`); then the loop of the decoder is followed turn by
turn: after each of its turns it stands at the start of a group or at a line end, has counted four
for each group and one for each line end, and has written the bytes of the groups before
(`GroupsDecoded`). The last group may be padded, and the padding symbols make `Data` and the
count part ways, so it is taken by itself. `CommandsArrive` then puts it together: a command has no NUL,
so that the C string stops where it ends; what is taken off behind it is its padding, and
of the command itself only bytes at its end that look like padding; the frame gives back what it holds.
The invariant is that the text is a command (`CommandInvariance`: of the letters and the length
that the assumption states). Its assumptions: `RoundFunction`, as above; `KeysAssumption`, keys are those
`checkKey` takes; `CommandsAssumption`, commands are C strings of at most 744 characters, so
that their cipher text, of 1018 symbols, fits the `enstr[1024]` of `proto_make_frame`
(main.cpp 1213–1245).

For the list (`DataAssumption`, `ItemsAssumption`), `ListIsSound`: the links
in both directions, head, tail and size describe the same sequence (`LinksAgree`),
in every state reached by any mix of operations, until a destroy begins.
`ListIsDeque`: OsiList implements Deque; the refinement mapping takes the sequence
along `next` to its data. The inductive invariant adds that exactly the items of
the sequence are allocated (`HoldsAllocated`), without which a new item might be
one of the list.

For the functions of tcp.c, udp.c and serial.c (the assumptions of OsiIo), `IoInvariance` shows
`[]IoInv` for the specification `IoSpec`, one call after the other with any answer of each
system call, and `ResultsAreTrue` follows: a result is true of the bytes that moved and the
descriptors that are open. `IoTellsTruth` speaks of calls that have returned, so the
invariant has to say what is so in the middle of one: which calls own a descriptor
that is not the caller's yet (`OwnsFd`), how far the count of bytes and of tries has got
(`CountsBytes`), that only the descriptor of the call may be open without being held (`Told`,
`HeldIsOpen`). Size, number of tries and set of descriptors are arbitrary.

**StreamProofs** (`InputAssumption`: what is fed are bytes and chunks shorter than 256;
`CountWrapsAssumption`: the count of bits wraps at a multiple of a block's 512 bits;
`CopyWrapsAssumption`: a length wraps beyond the shortest frame). `InputIsTakenWhole` is
`StreamSpec => []StreamsAreWhole`, for any pieces and any number of them: the compiled values
2^32 and 256 are instances, the ones of the run too. The property is not inductive; `StreamInv`
says what is kept between two pieces.

- Check sums: the state is that of the bytes so far. A step by four bits through a table is
  four steps by one bit with the polynomial (`CrcStepIs`): the exclusive or is linear, so the row
  of the table that four bits select is the sum of those the single bits select, which are looked at
  one by one for each of the three tables.
- Digest: the count is eight times the length, in two words; the buffer begins with what is
  behind the last whole block; the blocks are those of the input so far (`Digested`). A piece may
  stay in the buffer, fill it, or cross it by any number of blocks (`UpdateKeeps`). At the end the padding
  brings the length to eight below a multiple of 64 and the count fills the last block (`FinalIs`).
- Parser: `Parsed` relates its static variables to a scan of all bytes so far: it has a
  frame begun exactly when the scan has, its frame is the bytes from there on, its state and `rlen` are told by
  the frame's length, its sum is that of the frame without the 0xfe, and it has returned a copy of each
  frame found. Each turn of the loop keeps that (`ParserStep`), hence each chunk (`ChunkIsParsed`). A
  `proto_frame_set` in between changes the length only, which matters in the state "data" alone; the
  first byte of a length is dropped, and a scan by the true length goes another way from there on: this is
  why the property stops at `astray`. That a composed frame is one the scan finds is `FrameIsFound`.

**TestAgentProofs** (`StepAssumption`, `PushAssumption`, `DelaysAssumption`), in two layers.

The loop, for any timers, any files and any number of slots. `LoopInvariance` shows
`[]LoopInv`. `TimersKept`: the sorted list holds exactly the timers that are set, in the order of
what is left of them, each once, and poll wakes for the first. Needed for it is that
what `timer_set` finds is a place that keeps the order, and that a timer taken out of a
sequence leaves the rest in order; both are lemmas about sequences of any length
(`JoinKeepsList`, `CutKeepsList`). That poll wakes in time (`WakesForFirst`) is inductive
only together with the order.
`OnlyReported`: a slot's function is called for an event that poll reported for this slot, recv for
input and send for output, and it is the function of the file that was polled unless the slot
was registered since. Its invariant says that an entry's `revents` are those reported of its slot. `TypeCorrect`: the types of both modules.

The agent. `NoEventForgotten`: an event in the queue has a step timer set or `test_run` at
work, or lies behind a NULL event. `EventsAreInOrder`: events are taken in the order of their pushes. Inductive
with `RunIsTestRun` (inside `test_run` the running handler is that of the step
timer, and at its end the timer is set) and `QueueIsRest` (the queue is exactly
what was pushed and not yet taken). The loop enters this layer only by what it
does to the step timer and to the running handler, so it holds for any other use
of timers and files.

**HashMapProofs** (`HashAssumption`: the hash of a key is a number; `NullAssumption`: NULL
is no key; `LostAssumption`: the bound on what is lost is a number; `RoomAssumption`: the bound on the size admits the first table), for any keys,
hash function, sizes and allocations that fail. `MapInvariance` shows `[]MapInv`, from
which `TableSound`, `GetFinds` and, for a function of `hashmap_foreach` that removes nothing but
its own entry, `WalksMeetAll`. Like the properties, the invariant speaks of the time
up to the first removal from a chain longer than half the table (`~stretched`):
afterwards the properties are false, which is a finding of section 5.

`MapInv` says three things. The table holds the contents (`Holds`): each key is in one
slot, and all slots from its home to it are in use. Count and copies agree with the contents
(`Kept`). What a walk still has to meet lies ahead of it (`WalkFine`); this is what a removal
endangers that moves entries around the end of the table. The core is that
`hashmap_entry_remove` keeps `Holds` (lemma `UnchainHolds`). The table is looked at from the emptied
slot on, by distances instead of slots, so that the chain is an interval and nothing
wraps. A follower moves exactly when the free slot lies on the way from its home to it
(`MoversAreFar`); so no slot between the two ends of the chain but the last free one
becomes empty (`Occupied`), and each entry is still reached (`ClosedReached`) and there once
(`ClosedSingle`). `HASHMAP_INDEX_LE` decides whether the slot lies on the way by half a circle,
rightly for as long as the distances stay below half the table (`NotAfterIsBefore`): the
assumption on chains is used there. `RehashHolds` says of a rehash, `StoreHolds` of
a put that the table holds the contents, and `FindFinds` of `hashmap_entry_find` that it finds them.

**FsMonitorProofs** (all assumptions of FsMonitor; any files, places and paths, any
two paths for one place). `NoWatcherSleeps` and `NoWatchStrays` need four things:
inotify watches a file once (`OneWatch`), so that one event can speak for it; the
watcher being handled is on the list with the event's descriptor
(`WatcherIsListed`), so that a restored watcher cannot take another's watch; and
two watchers with one descriptor are known to share it (`OwnersAreShared`). Half of the
proof is that appending to the queue, reading it and taking its head keeps
every event that somebody waits for.

For the conversions (Conversions in the same module; `LettersAssumption`: data are bytes and a
NUL ends the other texts; `SizesAssumption`: array sizes are numbers), `ConversionsAreSound` is
`TextSpec => []ConversionsAgree`, for texts of any length, arrays of any size and any sets of
directories, not only those of the run. The invariant just says of what letters a
text consists (`KindInvariance`); the work is in what the functions compute.

- Codings. What an encoder writes is described as a row of pieces, one for a byte or a group of three,
  and each turn of the decoder reads one piece back (`GroupsRead`, `TurnGives`). base64 ends
  in a group that may be short: the loop of the decoder leaves it, whole or not, and the cases
  behind the loop take what there is of it (`LoopReads`). Of hex, what it refuses is
  part of the property: a buffer that is too small, and nothing else.
- `parse_argv`. Its turns are compared with those of the reference `Words`, character by character
  (`Fits`): both are in an argument or both are not, with the same quote, and as many words have begun
  as arguments. What has been shut lies in the buffer before the place it is written at (`Edge`), which never
  overtakes the place it is read from, so that the NUL behind an argument and the letters of the
  next one spare the words before (`ShutStays`). When the array is full the code stops and the
  reference goes on, which adds words and changes none (`Held`).
- `file_create_dir`. Before each slash the names of the way so far are those that nothing
  behind can change (`ClosedNames`); after each turn these have been made, or one of them was
  refused, and nothing else has (`Made`, `WalkMakes`). Empty names, of double slashes and
  at both ends, are where the walk asks for a way that is there already.
- Addresses. The next dot is the first from a place on (`NextDotIs`); three calls in a row find all the
  dots there are, since there are fewer than four.

**DevManageProofs** (`DefaultAssumption`, `JobsAssumption`, `ListsAssumption`,
`BlankAssumption`), for any number of threads and answers of any length. The four
invariants of the run `devices` are theorems. `ButtonsComeBack` needs that a query has
no steps of an add around it (`JobsHaveTheirSteps`) and that a closed dialog has no live
thread (`ClosedIsOver`). `RightDeviceIsDeleted` needs what the histories say before the
MAC is read: the menu's device, and later the target of a certain thread, is in the selected
row (`SureIsOnRow`, `CertainIsOnRow`). `ListIsOfLastQuery` needs where a thread
that is alone has got to: the rows are the first part of the answer in reverse, `left` is the
rest of it, and between the two messages of an append one row on top is blank (`Alone`).
Each step of a thread is summarised once (`Goes`: one thread takes one of the arrows of its
job, the others keep all but their certainty), and the parts are proved from the summary.

For the ssh exchange (`CallersAssumption`, `UsersAssumption`; Ssh2 in the same module), for any number of threads.
`CallsAreGiven`: what a call is given is held, inductive as it is with the types: a row of
`Calls` acquires what the rows it leads to need. `ReturnsAreClean` needs what a thread
holds at every place between, by the error it is on its way out with.
`LibraryStaysUp` is the hardest: as long as no two threads were inside init or exit
at once, the count a thread has read is still the count when it writes, and the count is
at least the number of threads with the library, a fact about cardinalities of sets
that gain or lose one element.

What loops compute is proved by least counterexamples: a turn that is wrong has a first
one (lemma `Least`, from the well-foundedness of the order of the numbers), and the
turn before it was right. The functions that describe loops are therefore recursive
functions, and the theorems on them hold for tables of any size.

Model-checked only:

- Liveness and fairness everywhere (`ClickStartsScan`, `ButtonComesBack`, `AnswerIsShown`,
  `ExchangeEnds`, `DueTimersFire`, `EventsAreHandled`, `DeafIsRestored`, `IoReturns`) and
  the absence of deadlocks in devices: out of the prover's reach.

Every safety property of a run is a theorem. For those of Library there are specifications of
the parts by themselves, `TextSpec`, `StreamSpec` and `IoSpec`: the theorems are about these, and a
behaviour of Library is one of one part.

## 7. What is not modelled

- JSON and spreadsheets: data no property tells apart. A damaged frame acts as the
  answer it decodes to.
- Time as such: a receive may time out, a timer has so much left.
- The limit of the kernel's queue of events (16384 by default), beyond which inotify drops them and sends
  IN\_Q\_OVERFLOW, which no watcher has.
- In `tcp_destroy`, a socket whose connect was interrupted by a signal and that is then shut down:
  its drain, in the model, ends like that of a connected one (`DrainEnds`).
- Short frames, whose length arithmetic is undefined behaviour in strncpy.
- The moment between BTN_SCAN's click and the disabling of the button, handled
  on one thread with the click; reuse of window handles; JSON exceptions; a
  send that fails otherwise than udp_send reports.
- Answers of the test target (`test_do_cmd`), its pid file and signals.
- The round function of DES and the rounds of MD5: arithmetic without control, best
  tested with the published vectors.
- nameval.c, time\_utils.c, util.c, log.c, `file_get_size`, `file_copy`, util.cpp:
  lookups, conversions and single library calls.
- timer.cpp, socket.cpp and serial.cpp, which no program contains.
- Vendored code. jsoncpp, jansson, libhttpd, the headers of libssh2 and libxls and
  the like make up about two thirds of the repository's lines, which is why the
  modelled lines stay below a third of all: of gwutil's own code the state
  machines are modelled nearly whole.

## 8. Plan

Done: GwScan and its proofs (the program's core loop), GwManager and its proofs,
OsiList with Deque and its proofs, DevManage and its proofs, HashMap and its proofs,
EventLoop, TestAgent and their proofs, Ssh2 and its proofs, FsMonitor and its proofs,
Library with its eight parts, and the proofs of Cipher, Streams, Conversions and OsiIo. Every safety property
that a run checks is a theorem.

Next modules: `PidFile` (main.c), the lifetime of JSON values in `test_do_cmd`,
file copies that fail midway.

Next proofs: HashMap as the implementation of an abstract map of keys to data (`contents`),
action by action; TestAgent's file functions against an abstract table of descriptors.
