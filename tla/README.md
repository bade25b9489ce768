# A verification project for c-nets-tools

c-nets-tools is a GTK 3 program in C: one main window with a button per network
tool, and one window per tool. This directory holds TLA+ modules translated from
its sources, the configurations TLC checks them with, and theorems TLAPS proves
about them.

    cd tla
    tlc -workers 2 -config MCPortEye.cfg MCPortEye     # any .cfg with its module
    tlapm PortEyeProofs.tla                            # any *Proofs module

## The system

| component | state it keeps | operations | hard behaviour |
|---|---|---|---|
| main window, registry (`main.c`, `interface.c`) | `open_windows[10]`, the main loop | button of a tool, `destroyWindow`, `gtk_main_quit` | stale pointers in the array |
| PortEye (`porteye.c`) | the page of its window, the text view and its key `"scan_result"`, one `ScanData` per scan | `checkIp`, `buttonClicked` (7 modes), `scanPort`, `scanPortRange`, `scanPortOpenRange`, two thread bodies, `updateTextView` | scan threads, idle callbacks, nested event loops, a view destroyed under a thread |
| FileSecure (`filesecure.c`) | files; the locals of one job | `buttonClick`, `deriveKeyAndIV`, `encryptFile`, `decryptFile` | partial failures, block and chunk boundaries, one file in two roles |
| PacketSnoop (`packetsnoop.c`) | `PacketSnoopData` per click, copies of frames in idle callbacks | `packetsnoop_confirm`, `capture_packets`, `process`, `etherType_idle` and the decoders | a thread joined from the main loop and never told to stop, callbacks on a destroyed view |
| DDoSWatcher (`ddoswatcher.c`) | static `packet_count`, `suspicious_ips`, `ip_count`, `start_time` | `initWatcher`, `startCapture`, `packetHandler`, `blockIp` | captures that share counters without a lock, dialogs of other threads |
| XMLBuilder (`xmlbuilder.c`) | `relation_attributes`, `id_counters`, `output.sql`, `my_database.db` | `xmlbuilder_confirm`, `parseXml`, `generateSql`, `createTable`, `addRelation`, `insertData`, `executeSqlFile` | memory that is lost and a database that stays, scripts that are cut off or stop half-way |
| URLSpy | none | a button with no handler | none: it is not written |

How they interact:

- All handlers run on the thread of the main loop, one at a time; a handler that
  runs a modal dialog or drains the pending events runs other handlers inside
  itself.
- The tools share `open_windows` (each has one slot) and the main loop: a handler
  that does not return stops every tool, `exit(1)` in FileSecure ends them all.
- Threads (PortEye's scans, the captures of PacketSnoop and DDoSWatcher) hand
  results to the main loop by idle callbacks that hold a bare pointer to a
  widget.

What makes each correct, in one line: the array agrees with the windows
(registry); a scan that is started is answered once, in its own view, with the
finished report of its range (PortEye); "Opération réussie !" means that the
destination holds the whole result (FileSecure); every captured frame is shown
and closing a window ends its capture (PacketSnoop); an alert counts the packets
of one interval of one capture (DDoSWatcher); the script of a document creates
every table it inserts into, and running it twice is possible (XMLBuilder).
`PROJECT.json` lists the hazards behind these, each at its line.

## Modules

| module | models | composes |
|---|---|---|
| `Interface` | `interface.c`, `main.c`: the array, the windows, the main loop | |
| `PortEye` | `porteye.c` | extends `Interface`: its actions open, present and close windows through it |
| `FileSecure` | `filesecure.c`, the job behind "Confirmer" | |
| `PacketSnoop` | `packetsnoop.c`: clicks, capture threads, the callbacks, the closing of the window | refines `Interface` |
| `PacketDecode` | `packetsnoop.c`: what `etherType_idle` decodes of one frame | |
| `Toolbox` | two tools in one process | extends `PortEye`, INSTANCEs `PacketSnoop` over the same registry |
| `DDoSWatcher` | `ddoswatcher.c` | |
| `XmlBuilder` | `xmlbuilder.c`: document to script, script to database | refines `TreeStore` |
| `TreeStore` | abstract: a store of trees that only grows | |
| `EscapeSql` | `escapeSqlString` of `xmlbuilder.c` | |
| `MC...` | values of the constants and symmetries for TLC | |
| `...Proofs` | theorems and proofs | |

### Interface

`open_windows` is the array; `tool[w]` says whose live window `w` is; `front` is
the window last presented; `loop` follows `gtk_main`. A handler is one action.
Window identities are addresses: a new window may take the address of a
destroyed one, which is what makes a stale slot dangerous. `Abort` is the
`exit(1)` of a handler. Each of the five tools that have code uses the array with
the same lines; `Interface` is the abstract specification of that protocol, and
PortEye is shown to implement it.

### PortEye

The state of a window is its `page`; a text view is named by its window, since a
window creates at most one (there is no way back to the options). `scan[s]` is a
`ScanData` with its progress, through these phases:

| phase | where the code is |
|---|---|
| `clicked` | the handler is in `while (gtk_events_pending())`, the thread does not exist |
| `running` | the thread is in its loop over the ports |
| `posted` | after `g_object_set_data`, before `g_idle_add` |
| `queued` | `updateTextView` is in the queue of the main loop |
| `done` | `updateTextView` has run |

`slot[w]` is the string under the key `"scan_result"`, named by the scan that
allocated it, and `heap` says whether that string has been freed. `ui` is the
stack of handlers suspended in a nested event loop: scans that drain events and
modal boxes. With a modal box on top the user can do nothing else, but threads
and idle callbacks go on; a handler resumes only when it is innermost and, for a
drain, no idle callback is pending.

`Net` says what `connect` meets on each port. A "flaky" port accepts, but an
attempt may fail: late answer or no free descriptor.

A step that touches a destroyed view or a freed string is undefined. The model
lets the process end, lets the step do nothing, and lets it do what it would have
done (on the view that took the place of the destroyed one, or with an unreadable
text); `fault` remembers the first such step. `impatient` is a history variable:
it becomes true when a scan starts on a view another scan still serves, or when a
view is closed under its scan.

Abstracted: layout, labels, wording; the difference between the two kinds of range
reports (which ports are listed) beyond the set of ports found open; `AppData` and
the arrays of widgets; `cleanString`, the identity on an accepted address. An
address is four numbers. The single-port probe blocks the main loop and is one
action. A scan's identity is used once: `Scans` bounds their number.

### FileSecure

One job runs on the main loop's thread from the click to its result box, and no
other can start meanwhile (its boxes are modal). The actions are the tests and
loops of `encryptFile` and `decryptFile` in order; `out` is what has been given to
`fwrite`, which reaches the file at `fclose`, or in part when the disk is full.
`Faults` says which library calls may fail.

The cipher is symbolic: ciphertext byte `i` of encryption `r` decrypts to byte `i`
of what `r` was given if password, salt, vector and everything before it match, to
garbage otherwise. Garbage may look like padding, as it does once in 256 times.
CBC's block structure is kept: `EncryptUpdate` lets complete blocks out,
`DecryptUpdate` holds the last complete block back, the two `Final` calls pad and
unpad. `runs` remembers what was encrypted; `before` and `trouble` are history
variables for the properties.

Abstracted: key derivation (a key is a password and a salt), RAND_bytes giving the
same salt twice, the error boxes inside the two functions, and the window itself,
which is a tool window of `Interface`. A reading error in the header has the
result of a failed cipher call and is one with it.

### PacketSnoop

`window` is the tool's slot, `live` the window that exists. `capture[c]` is the
thread of click `c`: `starting` (before `socket`), `running` (in the loop of
`capture_packets`), `box` (inside `gtk_dialog_run`, on its own thread), `answered`,
`ended`. `idle` is the queue of `etherType_idle` callbacks, `<<c, n>>` the n-th
frame of `c`. Each click appends a join and a free to `handlers`, the callbacks of
the button's "destroy" signal; `CloseSnoop` moves them to `destroying`, and until
they have all returned the main loop does nothing else: `LoopFree` guards every
action that the main loop would dispatch. `stale` records that the view of a
capture is gone.

`g_thread_join` is `JoinReturns`, enabled when the thread has ended. The flag
`stop` is read from `data`, which nothing sets and which may have been freed: then
the read is undefined (`fault`). After a frame is shown in a destroyed view the
process may end or go on.

### PacketDecode

One frame, one callback. `frame.copied` is the number of its bytes that `g_strdup`
keeps, up to the first zero byte; an IPv4 frame is cut in its type, an ARP frame in
its first field. A decoder is a step and adds to `shown` the bits it reads, as
`<<first bit, width>>`; the byte that selects the next decoder is the frame's own
if it was copied and any value otherwise (`Seen`). The dump of a payload writes
four characters for each byte and five for each line into an array of `OutputSize`
(`DumpLength`): `fault` says that it has run past the end. Values and characters are
not followed.

### Toolbox

The port scanner is `PortEye` itself. The capture is `PacketSnoop` with its
`window`, `live` and `loop` replaced by what the shared registry says, so that the
two tools have one array, one set of addresses and one main loop. Three things are
added to the tools' own guards, each from how GLib and GTK run them: no callback of
the scanner is dispatched while the main loop joins a capture thread; the drain
before a scan ends only when no callback of either tool is pending; a modal box of
either tool takes the user's input from both. The threads of both go on at any
time.

### DDoSWatcher

`watcher[w]` is one accepted click: the thread's phase, its locals and what it read
of the fields. `packetHandler` is cut where another thread, or the main loop in a
box, may come between: the count, the search of the address, the store, the
increment of the index, the judgement, each box, each call of `iptables`, the
reset. The shared variables keep the code's names. `ring` holds the packets the
kernel has for a capture, with the times they arrived at; `clock` is `time(NULL)`.
`counted` and `blocked` are history variables.

The time field is checked by `initWatcher` and used nowhere, so it is one of the
conditions of `ready`. libpcap and its filter are external. What a packet's address
is does not matter, only that an IPv6 packet passes the filter and is read as IPv4;
`NULL` is the address 0.0.0.0, which ends the search in the list. The thread reads
the fields after the main thread has checked them: the user may have changed them,
or closed the window (`stale`: undefined). A failing thread queues
`gtk_message_dialog_new` itself as a callback, with one argument: undefined too.

### XmlBuilder and TreeStore

A document is the sequence of its elements with the position of each parent. One
click runs both passes of `generateSql` in one action (nothing else runs on the
main loop meanwhile; a kill inside it is `KilledWhileWriting`), leaving a `script`
of statements, which `Execute` and `Refuse` run one at a time on a database that
outlives the process. `relations` and `counters` are the two static tables and are
lost at a restart. `Cause` says what SQLite refuses: a column twice, a table or
column that does not exist, a taken primary key, a statement that is cut off.

No result of `fprintf` or `fclose` is looked at. When the disk fills up, `Build`
leaves a beginning of the script (`Beginnings`), empty perhaps, cut off between two
statements or inside one, and it is executed; SQLite, which needs the disk itself,
may then refuse any statement (`Failures`). A disk once full stays so until the file
is closed: what is lost is the end of the script, not a piece of its middle. The
history variable `whole` tells such a script from one written to the end: "success"
means that the document is stored after the latter only (`WholeScriptIsStored`, and
`MCXmlBuilderDisk.cfg` refutes it of the former). What holds of both, of scripts that fail
half way and of those executed again after a kill or a restart, is `StoredInOrder`:
what is stored of a document is always a beginning of it.

`TreeStore` is what a database of documents promises: a node is stored once, a
nesting once, between a node and its own parent, after both. `ImplementsTreeStore`
reads the rows as nodes and the rows of relation tables as nestings.

Abstracted: values (a row knows the element it was made from), so that of leaves of
one name side by side only the repeated column is seen, not that SQLite keeps one of
their values: "stored" is said of rows, columns and links; names do not collide
when they are joined by "_"; the tables of fixed length (100 relations, 100
counters) are not filled; a path that does not end in ".xml" only shows a box.

### EscapeSql

The loop of `escapeSqlString`, one byte of the value per step; `output` is the
buffer's content and `j` its length. `start[k]` is the value of `j` when byte `k` was
read, so that `ReadsBack` can say where it is found.

The windows of FileSecure, DDoSWatcher and XMLBuilder are tool windows of
`Interface`: they open, present and close with the same lines.

## Runs

| run | bounds | shows |
|---|---|---|
| `toolbox` | 2 windows, 1 scan of 1 port, 1 capture of 1 frame | two tools keep the registry, each reusing the other's addresses; a scan is answered beside a capture, unless a join has stopped the main loop |
| `porteye` | 1 window, 2 scans, ports 0..1 | memory and view are respected unless the user is impatient; reports cover their range and name every port that always accepts; "Scan en cours..." is true |
| `filesecure` | 2 paths, 2 passwords, files of 0, 1, 4 and 5 bytes, blocks of 2, buffer of 4, 1 encryption, any number of decryptions, all faults | buffers, recoverability, chunked decryption, `ERR_FILE_OPEN`, what failures leave behind; every job ends |
| `packetsnoop` | 2 windows, 2 captures of 2 frames, sockets and receptions that fail | no frame is lost, doubled or reordered; no thread reads freed data; late frames need a failure; the queue is served; closing returns or waits for a capture for ever; refines `Interface` |
| `packet_decode` | every type of frame cut at each of 60 bytes, IPv4 headers of 0, 5 and 15 words | each field of the network header comes from its place |
| `xmlbuilder` | 7 documents, 2 clicks, every fault, a full disk, kills, restarts | links resolve; what is stored of a document is a beginning of it, and all of it after success over a whole script; no script of tidy documents is refused for a table, a column or an identifier before a restart; refines `TreeStore` |
| `escape_sql` | values of up to 7 bytes, buffers of 1..10 | the literal reads back, ends within the buffer, and is whole if it fits |
| `ddoswatcher` | 1 watcher, 3 senders, 4 packets (2 if the fields changed under the thread), 2 ticks, a list of 2, a ring of 1 | what is judged is what was handled in the interval; the list holds senders of the interval, none twice; an alert blocks all of them or as many as the list holds; refused values need the user's haste; handlers return; the next packet reports a flood |

Why the bounds are enough. Two scans are what it takes for scans to overlap in a
drain, on a view or in the queue of callbacks; one window suffices because views
interact only when one replaces another at its address, which a closed and reopened
window does, and `toolbox` adds the second. Ports 0 and 1 give empty, partial and
full reports, ranges typed in both orders, and one value beyond each end of the
fields. The file lengths end inside a block, fill the buffer exactly and need a
second chunk; read faults cut the chunks anywhere. Two captures share the queue and
pile up two joins and two frees on one button; two frames have an order. The seven
documents are one that is nested and repeated, one that shares its tables, a loose
leaf, two names nested both ways, one name in two shapes, a column twice, and the
empty one; two clicks make a second run on the same database. A value of seven bytes
and a buffer of ten put a quote at every place before, at and behind the end. A list
of two may hold an address twice, and three senders are more than it takes: the
fourth packet raises the alert over them. Which packets come matters little to a
thread whose fields changed before it read them, so that one gets two (`HastyPackets`
of `MCDDoSWatcher`), enough to be counted and judged. A ring of one is full after the
first packet.

The `violation` runs check a sentence of the repository's README against the code
and TLC refutes it; `findings` in `PROJECT.json` quotes each sentence:

| run | what the code does |
|---|---|
| `success_on_full_disk` | "Opération réussie !" over a truncated file |
| `tools_stay_usable` | closing the packet window under a capture stops the main loop for ever |
| `headers_shown` | the IPv4 header that is displayed is not of the frame |
| `alert_of_port` | an alert of one port counts the packets of another, with a watcher for each |

### Further configurations

Not among the runs; each is run by hand with the command above.

| configuration | what it shows |
|---|---|
| `MCInterface.cfg` | the registry alone, with the 10 slots and 5 tools of `main.c` and 6 windows: array and windows agree, a click presents a live window of its tool |
| `MCPortEyeLive.cfg` | every scan is answered, with two scans |
| `MCPortEyeReturned.cfg` | refuted: of two scans of one view, one is answered with the other's report or a freed one (README: the result is returned) |
| `MCPortEyeFiltered.cfg` | refuted: a port that never answers is listed as "fermé" |
| `MCPortEyeAddress.cfg` | refuted: the entry drops the last digit of 192.168.100.100 |
| `MCFileSecureInPlace.cfg` | refuted: "Opération réussie !" over the encryption of an emptied file |
| `MCPacketDecodePayload.cfg` | refuted: the dump of a payload ends within its array |
| `MCXmlBuilderRows.cfg` | refuted: every row of a script goes to a table the script creates (a leaf under the root has none) |
| `MCXmlBuilderLinks.cfg` | refuted: the same of relations (two names nested both ways have one table) |
| `MCXmlBuilderStale.cfg` | refuted: the script executed is that of the file given (one that cannot be read has the script on the disk executed) |
| `MCXmlBuilderDisk.cfg` | refuted: after "Execution du fichier SQL avec succés" the document is stored (a full disk leaves an empty or shortened script) |
| `MCDDoSWatcherList.cfg` | two alerts in a row, the second over the list that the first has emptied: the list's properties, and no index past its end, for five packets of three senders |
| `MCDDoSWatcherRate.cfg` | refuted: the packets of an alert arrived within one interval |
| `MCDDoSWatcherFlood.cfg` | refuted: a flood that is over is reported (it takes one more packet: `NextPacketAlerts`) |

Definitions marked "Seeded fault" are plausible mistakes; substituted for the
definition that follows them, each makes the property paired with it in
`PROJECT.json` fail. No specification uses them.

### Fairness

Weak fairness is assumed of every step of a thread that nothing blocks, of the idle
callbacks and of the answer to a modal box: the kernel schedules every thread, GLib
dispatches an idle source as soon as nothing more urgent is ready, and a user ends
by closing a box that blocks everything. `connect` returns because of
`SO_SNDTIMEO`. Nothing makes a capture receive a frame, or fail, so nothing makes
its thread end; nothing makes a cipher call fail; nothing is assumed of the user's
other actions.

The return of a drain (`StartThread`, `StartScan`) is strongly fair: a callback that
arrives disables it, but it is enabled again each time the queue is empty, and a
main loop that keeps running events until none is left does leave. In `Toolbox` the
frames of a capture are bounded, so that its queue does empty; a capture whose frames
come faster than they are shown would hold the drain, which is a hazard
`PROJECT.json` lists. For the same reason `HandlersReturn` of `DDoSWatcher` and
`QueueIsServed` of `PacketSnoop` are about the packets that have come. `DDoSWatcher`
also has the clock go on, up to its bound.

## Proofs

| theorem | property |
|---|---|
| `PortEyeProofs!TypeCorrect` | `TypeOK` |
| `PortEyeProofs!SlotsAlwaysTrackWindows` | `SlotsTrackWindows` |
| `PortEyeProofs!ClickAlwaysPresentsTool` | `ClickPresentsTool` |
| `PortEyeProofs!PortEyeImplementsInterface` | `ImplementsInterface` |
| `PortEyeProofs!PortTypeCorrect` | `PortTypeOK` |
| `PortEyeProofs!PatientUserIsSafe` | `FaultOnlyIfImpatient` |
| `PortEyeProofs!PatientMemoryHolds` | `PatientMemory` |
| `PortEyeProofs!ReportsAlwaysComplete` | `ReportsAreComplete` |
| `PortEyeProofs!BusyAlwaysInFlight` | `BusyMeansInFlight` |
| `FileSecureProofs!TypeCorrect` | `TypeOK` |
| `FileSecureProofs!BufferSuffices` | `OutputFitsBuffer` |
| `FileSecureProofs!OpenErrorIsHarmless` | `OpenErrorChangesNothing` |
| `FileSecureProofs!EncryptionRecoverable` | `EncryptionIsRecoverable` |
| `FileSecureProofs!DecryptionWhole` | `DecryptionIsWhole` |
| `FileSecureProofs!DamageContained` | `DamageIsContained` |
| `PacketSnoopProofs!TypesAreKept` | `TypeOK` |
| `PacketSnoopProofs!NoFrameIsLost` | `NothingLost` |
| `PacketSnoopProofs!ThreadsHaveTheirData` | `DataOutlivesThread` |
| `PacketSnoopProofs!LateFramesAreOfFailures` | `LateFramesNeedFailure` |
| `PacketSnoopProofs!ClosingBlocksForEver` | `ClosingBlocks` |
| `PacketSnoopProofs!SnoopUsesTheRegistry` | `ImplementsInterface` |
| `PacketDecodeProofs!NetworkHeadersDecodeInPlace` | `NetworkFieldsInPlace` |
| `ToolboxProofs!ToolboxImplementsInterface` | `ImplementsInterface` |
| `ToolboxProofs!ToolboxTracksWindows` | `SlotsTrackWindows` |
| `ToolboxProofs!ScannerIsSafeInToolbox` | `ReportsAreComplete`, `BusyMeansInFlight`, `FaultOnlyIfImpatient`, `PatientMemory` |
| `EscapeSqlProofs!TypesAreKept` | `TypeOK` |
| `EscapeSqlProofs!TerminatorIsInside` | `TerminatorFits` |
| `EscapeSqlProofs!LiteralReadsBack` | `ReadsBack` |
| `EscapeSqlProofs!FittingValuesAreWhole` | `ValuesThatFitAreWhole` |
| `DDoSWatcherProofs!TypeInvHolds` | `TypeInv`: rings, boxes and threads agree |
| `DDoSWatcherProofs!TypeOKHolds` | `TypeOK` |
| `DDoSWatcherProofs!RefusedValuesNeedHasteHolds` | `RefusedValuesNeedHaste` |
| `DDoSWatcherProofs!JudgesItsIntervalHolds` | `JudgesItsInterval`, one watcher |
| `DDoSWatcherProofs!ListIsOfIntervalHolds` | `ListIsOfInterval`, one watcher |
| `DDoSWatcherProofs!SendersAreBlockedHolds` | `SendersAreBlocked`, one watcher |
| `DDoSWatcherProofs!IndexStaysInListHolds` | `IndexStaysInList`, one watcher |
| `XmlBuilderProofs!ScriptInvHolds` | `ScriptInv`: the shape of every script |
| `XmlBuilderProofs!TypeOKHolds` | `TypeOK` |
| `XmlBuilderProofs!LinksResolveHolds` | `LinksResolve` |
| `XmlBuilderProofs!ImplementsTreeStoreHolds` | `ImplementsTreeStore` |
| `XmlBuilderProofs!WholeScriptIsStoredHolds` | `WholeScriptIsStored` |
| `XmlBuilderProofs!StoredInOrderHolds` | `StoredInOrder` |
| `XmlBuilderProofs!TidyDocumentsBuildHolds` | `TidyDocumentsBuild` |

Assumptions. They hold for every value of the constants that satisfies the named
assumptions of the modules: any numbers of slots, tools, windows, scans, ports,
captures and frames, any network `Net`, any typed addresses and inputs (the tools
are indices of the array, NULL is no window and no scan, the one-click ranges are
ascending and within the ports); any lengths of salt, block, buffer and files, any
set of faults and any number of jobs; any values, and buffers of at least one byte;
any documents whose elements follow their parents, and any number of clicks; any
number of watchers, addresses and packets, any interval, ring and list of at least
one. Four theorems of the flood detector have the
hypothesis `OneWatcher`: the user has started one capture. It is not for the proof's
sake: with two, `MCDDoSWatcherPort.cfg` shows the counters shared and the properties
false, since nothing in the code keeps two threads from them.

The registry's invariant, in `PortEyeProofs` because the port scanner's theorems are
built on it, is `TypeOK /\ SlotsTrackWindows`. It is inductive because
"slot t holds w exactly when w is the live window of tool t" makes the slot that
`destroyWindow` clears first also the only one that holds the window. The action
property follows from it. Every step of PortEye is a step of `Interface` or leaves
its variables alone, whatever PortEye's own state, so PortEye implements
`Interface` and inherits these theorems.

PortEye's own invariant, `PortInv`, adds to the types:

- `IdleOK`: every callback in the queue is that of a scan in phase `queued`, and
  no scan has two; without it a callback could answer a scan that is not waiting;
- `ProgressOK`: the scan's bounds ascend, the ports it has found lie in them and
  accept, every port already probed that must be found is, and a scan past its
  loop has reached its end;
- `ReportsOK`: the string under a key, and the report on display, belong to scans
  past their loop; with `ProgressOK` this is `ReportsAreComplete`. The ports a report
  must name are those that always accept: `scanPort` takes an answer that comes too
  late for a refusal, so a "flaky" port may be missing;
- `BusyOK`: `BusyMeansInFlight`, and the key of a live view is set by the time the
  callback of one of its scans is queued, so that the callback does replace
  "Scan en cours...";
- `PatientOK`: while no scan has shared or lost its view nothing undefined has
  happened, at most one scan is in flight on a view, none is orphaned, and string,
  key and phase agree. These go together: that a callback finds its own string
  depends on no other scan having used the key, which depends on the views not
  being shared.

FileSecure's invariant, `FileInv`, adds to the types and to the two properties of a
finished job:

- `PositionOK`: how far the source has been read, that source and destination
  exist, and that without an unseen failure `final` is reached at the end of the
  source. The destination is empty until `fclose`, so a decryption that has got
  past the header cannot have its own source as destination;
- `FilesOK`: the files are those of the click until the destination is emptied,
  and all but the destination after that;
- `EncryptedOK`: what has been written is the header and the complete blocks of
  what has been read. It is inductive because two adjacent pieces of a stream make
  one (`SealedGrows`) and the number of complete blocks does not fall
  (`BlocksMonotonic`);
- `DecryptedOK`: what has been written is what `DecryptUpdate` lets out of all it
  has read, however it was cut (`ReleasedMonotonic`).

At the end, the padding completes a block (`PaddingProperties`), a header names
its encryption so that the file decrypts to the padded text and no other
(`SealedIsDeciphered`, `SealedIsRecovered`), and what `DecryptFinal` takes from
the block held back is what one decryption of the whole file would (`LastBlock`).
`BufferSuffices` rests on the fact that a complete block is never held back beside
another (`ReleasedProperties`).

`DamageContained` needs `FileInv` and one thing more, `DamageInv`: a source was
there before the job emptied its destination. A job that fails inside its loop
closes the destination over what it has written, by `DecryptedOK` a beginning of
what the source decrypts to, and a full disk leaves a beginning of that
(`BeginningOfBeginning`). A decryption into its own source ends at the header, with
an empty file.

PacketSnoop's invariant, `Inv`, adds to the types:

- `NothingLost`, `ShownReceived`: what is queued of a capture is the interval from
  the frame last shown to the one last received;
- `FreesFollowJoins`, `JoinsPending`: a free stands behind the join of its thread,
  in the handlers of the button and in what is left of them while it is destroyed,
  and a capture that has not ended has its join still to come. `DataOutlivesThread`
  follows: whatever was freed, its join has returned;
- `BoxesWait`: the threads that wait in a box are those in phase `box`, once each;
- `FaultNeedsFailure`: a destroyed view has been touched only once a capture of it
  had ended. By `JoinsPending`, while one has not, the main loop is still to join it
  and dispatches no frame;
- `SlotIsLive`: the slot holds the window that exists, which makes the mapping to
  `Interface` one of steps to steps.

`ClosingBlocks` is an action property: no step leaves a state in which the main loop
waits for a capture under way, since every action that could end the capture is that
of a thread without a reason or of the main loop itself.

`NetworkFieldsInPlace` is inductive with the type of the frame. The decoders only add
to what is displayed, so each is looked at by itself (`DisplayKeeps`): a type that was
copied is the one read, and `FieldsAreStandard` compares its fields with the
standard's. The transport and payload decoders display parts of other names.

In `Toolbox` every step is a step of one tool that leaves the other's variables as
they are: a step of the capture is a step of the registry that PortEye's variables
stutter in (`PacketsStepIsForeign`), and `PortInv` does not read the other tool's
windows, so PortEye's theorems hold unchanged beside a capture. Both tools' steps
are steps of `Interface`, so the array holds the windows of both.

EscapeSql's invariant is `TypeOK`, `TerminatorFits`, `ReadsBack` and `FirstEmpty`
(nothing is written before the first byte is read): byte `k` of the value is at
`start[k]`, doubled if it is a quote, and `start[k + 1]` is where it ends, except
for what has been cut. `ValuesThatFitAreWhole` compares the output with the literal of
the whole value, and needs `WholeInv`: the output is the literal of the bytes read,
or that literal is already too long and agrees with the output up to the last byte
but one of the room. The literal of fewer bytes is a shorter beginning of that of
more (`PartsGrow`), so nothing read later makes it fit again.

DDoSWatcher has three invariants. `TypeInv` holds for any number of watchers: a
thread that handles a packet has it at the head of its ring (`HandledInRing`), and a
box belongs to one thread, which waits (`BoxesWait`), so that an answer sets no other
thread going. `HasteInv` says what `initWatcher`'s check is worth until the thread
reads the fields again: they are open and valid unless edited or stale. `IntervalInv`
needs one watcher. At each point of `packetHandler` it relates the count, the start
of the interval and the list to the packets counted since the last reset:

- `CountIsExact`: `packet_count` is their number, and what a thread has read of it is
  still true when it stores;
- `CountedInInterval`: they were handled between `start_time` and the end of the
  interval, and the packet in hand is too from the moment `start_time` is written;
  before, after the reset of the count, nothing is counted;
- `ListIsSound`: no address of the list is there twice and each is that of a packet
  counted or in hand; while the list is still to be emptied nothing is said of it,
  which is why the invariant follows the reset write by write;
- `ListIsComplete`: a sender that is not in the list found it full;
- `BlockedSoFar`: of the list being blocked, all before `i` are.

XmlBuilder's passes are recursive functions over the elements of a document, and what
they write is proved by induction over the document. `InductionInNat` states
induction for a set rather than for an operator (it follows from the well-foundedness
of the natural numbers), and an equation lemma for each pass (`TablePassEquation`,
`AddRelationsEquation`, `InsertPassEquation`) unfolds its recursion. `PassInvHolds` is
that induction for insertData: after each element the rows written are those of the
elements visited so far, once each, every link stands directly behind the row of its
child and names the row of its parent, and no identifier exceeds the elements
counted. The invariants of the specification are then:

- `ScriptInv`: the script on the disk has that shape, whole, cut off anywhere by a
  kill or a full disk (`BeginningOfScript`), or absent, and its rows are in document
  order (`InOrder`): before that of an element stand the entries of all before it;
- `DataInv`: a key and an element belong to one row (`RowsUnique`); an element
  of the database that the script inserts once more gets the same key (`RowsRepeat`); the rows before `pos` have
  been stored (`RowsExecuted`); a link joins the rows of an element and its parent, no
  two the same (`LinksJoin`, `LinksUnique`); and the child of the link to execute next
  has none yet (`ChildIsFresh`): its row has just been stored, and had it been there
  before, its key would have stopped the script. This is why the missing references
  do no harm, after restarts and in scripts that are executed twice too;
- `ScriptComplete` and `AllDone`: a script that was written to the end has a row and a
  link for every element that insertData visits, and each statement before `pos` has
  had its effect. After "success" that is every statement, hence
  `WholeScriptIsStored`;
- `StoredInOrder` itself: a row about to be stored has, by `InOrder`, the entries of
  the elements before it at statements before `pos`, and by `AllDone` these have been
  executed (`EntryStored`). Nothing is ever taken from the database
  (`IsStoredStays`), so the order outlives failures, kills and restarts.

- `TidyInv`, until a restart, for `TidyDocumentsBuild`. What is kept stems from the
  documents built (`KeptInv`: relations recorded, columns of the database, identifiers
  counted), and what a click has written fits it (`FreshInv`: new identifiers, a table
  created before every row and link). It rests on an induction for each pass.
  `KeysNewHolds`: the identifiers that insertData gives out are above those given out
  before and differ within a name. `TablesInvHolds` and `AllReached`: createTable
  returns without going into an element whose name has its table, so it does not reach
  all elements; but an element of that name was gone into, and when elements of one
  name have children of the same names, the tables and relations are there all the
  same. That no two names are nested both ways is needed here, because
  `addRelation` takes the reverse of a pair for the pair. `NothingMissing` then goes
  through the causes SQLite could refuse a statement for.

With `DataInv` a row executed is `AddNode` of the abstract store and a link is `Nest`;
everything else stutters.

TLC checked the invariants before they were proved.

Left to TLC: liveness (`ScanIsAnswered`, `ScansAreAnswered`, `JobEnds`,
`QueueIsServed`, `CloseReturns`, `HandlersReturn`, `NextPacketAlerts`), since the
proof system does not handle fairness's ENABLED; and everything that is refuted.

## Not modelled

- `urlspy`: it is not written; its button has no handler.
- The unit tests and the build: the tests are of an earlier command-line version.
- Layout and wording; the contents of HTTP payloads.
- libpcap, the kernel's sockets, OpenSSL, libxml2 and SQLite beyond success, failure
  and what they keep.
- Two packet handlers of DDoSWatcher are modelled at every interleaving
  (`MCDDoSWatcherPort.cfg`), but the properties of `ddoswatcher` are stated of one
  watcher: with two the counters are anyone's.

What could come next: `Toolbox` with a
third tool, FileSecure, whose `exit(1)` ends the others; documents with colliding
joined names.
