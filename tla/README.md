# phyMCP in TLA+

A verification development for phyMCP: a component that lets a host discover
small devices over ESP-NOW and call their tools, the firmware and Python
programs that use it, and what they promise each other. The modules are
translated from the C and Python sources; docs and comments are only used to
state what the code is expected to do.

## 1. The system

| Part | Source | State | Operations |
|---|---|---|---|
| Frame codec | `src/phymcp_frame.c` | sequence and transaction counters | pack, unpack, next_seq, next_xid, MAC text, error/result JSON |
| ESP-NOW transport | `src/phymcp_transport_espnow.c` | started flag, receive queue and task, callback, ESP-NOW's peer table | init, deinit, receive callback, worker task, add_peer, send_json |
| Device responder | `src/phymcp_device.c` | configuration, duplicate cache | init, deinit, handlers of discover, tools/list, tool/call, ping |
| Host API | `src/phymcp_host.c` | event callback | init, deinit, discover, list_tools, call_tool, ping, receive callback |
| Host firmware | `examples/led_control/main/host_main.c` | line buffer | command loop; scan, tools, call, ping; printing events |
| Device firmware | `examples/led_control/main/device_main.c` | a GPIO | the tool `led.set` |
| Python interface | `examples/host_mcp_interface/phymcp-host-interface.py` | serial port, lock, caches of devices, aliases and tools | scan, list_tools, call_tool, ping |

How they interact:

    MCP client -> Python interface == serial lines == host main task -> host API -> transport
                                   == event lines  == host receive task <- transport
    host transport  ~~ ESP-NOW ~~  device transport -> worker task -> handlers -> tool

On each chip three tasks share the transport's statics without a lock: the
application, the Wi-Fi task that runs the receive callback, and the worker that
runs the layer above. A device handles one frame at a time; its discovery
delay and its tools run in the worker, while frames wait in a queue of eight
and are dropped when it is full. The host's main task executes one command
line at a time and sleeps through a scan; its worker prints answers meanwhile.
The Python interface holds a lock for a whole command.

What is hard here, and what each part must get right:

- **Device.** A call may be repeated, reordered or lost, its answer too, and the
  device may restart. Within the duplicate window a repetition must be answered
  with the first run's response; after it, run again. The cache has few slots.
- **Transport.** init and deinit race with the callback and the worker: nothing
  may use a deleted queue, free a frame twice or lose one, and a send must not
  fail because another task added the same peer.
- **Frame.** Lengths at their boundaries, byte order.
- **Bridge.** Answers come late or before the ok line of their command, callers
  give up, names and arguments are too long or hold a line end and are read as
  other commands, printed lines are cut and swallow the next: it must be clear
  when an answer can settle the wrong command, and a caller's verdict must reach
  it.
- **Names.** Devices share and change names, look-ups take no lock: a command by
  name must reach the device that the caller was shown.
- **Paging.** Cursors are text from outside, C's integer types wrap around, pages
  may not fit in a frame: a walk must list each tool once and come to an end.
- **Host and device together.** Requests are repeated, answers come late, ids
  start at a random value after a reboot: a result must be that of the call it
  ends, and a tool must not run twice for one call.

`PROJECT.json` lists the hazards with their lines.

## 2. Modules

| Module | Models | Kind |
|---|---|---|
| `DuplicateCache` | slots, lookup with sweeping, storing and eviction | operators |
| `Device` (extends it) | receive queue, worker, handlers, clock, restart | state machine |
| `ToolServer` | what a device promises about calls: a memo of bounded size | abstract state machine |
| `Mailbox` | what the layers above a transport rely on: a bounded queue, one frame handled at a time | abstract state machine |
| `PhyMCP` (extends `Device`) | host, air and device together | composition |
| `ToolsList` | the pages of tools/list and a walk through them | state machine |
| `Frame` | pack, unpack, and a sender, a radio and a receiver | operators and state machine |
| `Transport` | application, callback and worker, step by step | state machine |
| `Bridge` | Python interface and host firmware over a serial line | state machine |
| `Directory` | what the Python interface remembers of the lines it reads | state machine |
| `DeviceProofs`, `DeviceRefinementProofs`, `PhyMCPProofs`, `ToolsListProofs`, `FrameProofs`, `TransportProofs`, `BridgeProofs`, `DirectoryProofs` | theorems about the module they are named after | proofs |
| `MCDevice`, `MCPhyMCP`, `MCToolsList`, `MCFrame`, `MCTransport`, `MCBridge`, `MCDirectory` | constants for TLC | instances |

An operator marked as a mutant is not part of a specification: it is the form
that a definition after it would take with a plausible bug, and shows that a
property can tell the two apart.

### Device and DuplicateCache

One variable per static (`cache`, `rxQueue`) plus where the worker is (`phase`,
`pkt`) and history variables (`runs`, `answered`, `lastRun`) that no guard reads
except the bound. A step is a handler up to the point where the worker can be
away for long: the discovery delay (`BeginJitter`/`EndJitter`) and the tool
(`StartHandler`, then `HandlerSucceeds` or `HandlerFails`). Between the two the
clock and the radio go on. `TakeCall` sweeps dead entries exactly as
`find_duplicate` does on its way to a match; `HandlerSucceeds` stores and sends,
as the code does, in that order. JSON is abstracted to whether it parses and
fits; a response is abstracted to the number of the run that produced it.
`Send` may hand the frame to the radio or not: every handler ignores the result.

`Restart` stands for a reboot and for deinit followed by init. After a reboot the
real clock starts at zero again; that makes no difference since the cache is
empty then and only differences of times matter. deinit clears the cache just
before it stops the worker; a handler running at that moment is cut in one step.

`Device` takes queue and worker for granted, `Transport` builds them; `Mailbox` is
what the two agree on, and both are shown to implement it. In `Device` the box is
`rxQueue` and the frame being handled `pkt`. In `Transport` the box is what the
queue of `s_rx_queue` holds while there is a task to take it (`Waiting`), and the
frame being handled is that of the worker (`Handled`); deinit's deletion of the
task is `Reset`, as is `Restart`. A frame that comes to the mailbox is one that the
callback has copied; it is refused only when the queue is full. What comes while
there is no callback, no queue or no memory for a copy never comes to the mailbox:
`Mailbox` promises nothing about such frames, and in `Device` any frame may be lost
before it is queued.

### PhyMCP

`PhyMCP` closes the open end of `Device`: the frames it receives are the requests
of one host. A step of the composition is a step of `Device` together with what it
does to the air, or a step of the host that leaves the device alone; so every
theorem about `Device` holds in the composition (`NetImplementsDevice`).
`After` and `Draws` are `phymcp_next_xid`, with its random first value and the skipped
zero. The host API has no call that repeats a request with the same id, though
docs/architecture.md:78 leaves retries with the same id to the layers above; `SendAgain` is an application that does it through
`phymcp_transport_send_json`. The air keeps a set of answers on their way and may
deliver a request that was ever made, at any time and again. Either side may
reboot; the number of failing tools and reboots is bounded (`MaxTroubles`).
History: `recent`, `runsOf`, and the fields `since`, `at`, `fresh` and `calm` of a call.
Frames of one host only; several sources are the subject of `Device`.

### ToolsList

`handle_tools_list` with its arithmetic: the cursor is read as a signed number,
compared as a `size_t` (`AsSize`), and the limit has been cut to a byte on the host
(`ByteLimit`). A page may end early, when there is no memory for an item, and is
sent only if it fits in a frame; `Fits` says which do. The repository has no program
that follows the cursors: the Python interface shows one page. `TakePage`,
`StartAgain` and `Seek` are such a program, written from what a page says, and are
marked external in the map. It tells lists apart by their etag, so `EtagsDiffer` is
assumed: two devices' programs that both leave `tool_etag` at its default would break
it. Members that cJSON silently leaves out when memory ends are not modelled.

### Transport

Each action touches the shared statics at most once. Queues, tasks and frame
blocks have identities, so that a deleted queue or a freed block is seen when
it is used. Assumed of ESP-IDF, because the code relies on it: receive callbacks
run one at a time and only while registered; `esp_now_deinit` waits for one that
is running and clears the peers; `esp_now_init` and the Wi-Fi set-up may be
repeated, which also an ordinary deinit and init requires. A send is reduced to
its peer look-up and addition; a handler sends at most one frame, and the
application is taken not to call deinit in the middle of its own send. deinit
called from inside a handler, which would delete the calling task, is excluded.
`InitNoQueue` and `InitNoTask` are the failures that init cleans up after;
`InitFailsLate` is the failure of either of init's last two calls, and the constant
`LateFailure` switches it on. A failure before the queue (NVS, Wi-Fi, ESP-NOW, its
key) leaves at most ESP-NOW initialised, and is left out.

### Frame

Bytes are functions from indexes, as in C. `Deliver` gives the receiver a frame
followed by other bytes or cut at any length, `DeliverForeign` one with a header
byte replaced. Null arguments are left out.

### Bridge

`down` and `up` are the serial line. `MainSend` builds and sends a request; the
ok line is a separate, later step, since the receive task has the higher
priority and may print the answer first. The interface's two waits are
`client.at = "ok"` and `"event"`; `Timeout` may end either at any moment, because
nothing relates the interface's timeout (3 s by default, set by the user) to the
time the main task is busy (a scan window, set by another).

What the interface writes for one command is a text (`Texts`). Nobody checks the
name prefix of a scan, the name of a tool and raw JSON arguments: with a line end
in them, with more than the 767 bytes of the line buffer, or with characters that
erase others, the host reads the text as other lines than the one that was meant.
`StrayLine` says what each of them may be taken for, a complete command included:
the main task executes it, draws a transaction id for it and prints another ok line
with its answers. `Issue` is `misread` then, a history variable, and the properties
say for which commands that matters.

A printed line of 512 bytes or more loses its line end, and stays `open`: an event
line in its JSON text, an ok line or an error that repeats what it was given in its
fields. `Says` joins the next line to it, and `Joined` is what the interface's parser
makes of the two. The air may repeat an answer (`RxPrintsEvent`). No byte is lost, and
the port is open from the start. Every line carries the number of its command (`n`)
for the properties; no guard reads it. `gaveUp`, `misread` and `swallowed` are
history.

### Directory

The caches of the interface, written under the lock by whichever command reads a
line, and read without it when a command begins. The cache of tools is left out:
only `list_tools` reads it, it is written in the order of the lines, and nothing
else depends on it. `Begin` is the look-up, `Write` the
moment the lock is taken and the command written; other threads may read lines
between the two. The class locks as if several threads used it; an MCP server
that runs its tools one after the other has a subset of these behaviours. A
device line without a name (cut, or not JSON) leaves the entry its name, and the
name is made to stand for that device again, as in the code. `heard` is a history of
the device lines and the names then listed. A name that a device had before goes on to
stand for it: the code never removes one.

## 3. Runs

| Run | Shows | Bounds |
|---|---|---|
| `device_calls` | one live entry per call, answers never crossed, repetition only under crowding, replay only in the window, `Device` implements `ToolServer`, its queue and worker `Mailbox`, whatever other frames come in between | two sources, three calls (one more than the two slots: eviction happens), all other types of frame, well and ill formed, under the ids of one call; window of 2 ticks in 5 (entries expire and slots are reused), 4 tool runs, queue of 1 |
| `device_crowded` | counterexample to `NoRepeatInWindow` | as `device_calls` with four calls only; the default cache size |
| `device_failed` | counterexample to `NoRepeatAfterToolError` | four calls, three slots |
| `network` | a result is that of the call it ends, and of its only run; one run per call, ids take turns, a repeated call is answered | ids 0 to 2 (the counter wraps around, zero is skipped), two calls, one trouble, one answer on the air, two slots (never crowded by one other call: crowding is the subject of `device_calls`) |
| `tools_walk` | a walk is exact and ends, foreign cursors list nothing that is not there, limits are never exceeded | 4 tools and 2 after an update, pages of at most 3, three pages that do not fit, bytes of 2 bits and sizes of 4 |
| `frame` | whole frames restored, cut ones dropped, what is accepted is a packed frame | frames up to 14 bytes, cut or padded at every length; 16-bit values 0, 255, 256, 65535 |
| `transport` | no use of a deleted queue, one owner per frame, leaks only when the worker is deleted in the middle of a frame, no refused peer by race, every posted frame is taken, in order and one at a time, and none that was copied is lost but to a full queue or a stop (`Mailbox`) | two queues, two tasks, three frames, two nodes, queue of 2 (it overflows, and its order matters), room for two peers (it fills) |
| `transport_late` | which of these survive a late failure of init | as `transport`, queue of 1 |
| `transport_retried` | counterexample to `OneAtATime`: two workers after such a failure | as `transport`, queue of 1 |
| `bridge` | which line may settle which command, when an answer is missed, when a verdict never comes; every command line is executed | two commands, scans and calls, one device, one oddity (a text read as up to two other lines, each any command, an error, help or nothing; or an event line that is cut or repeated) |
| `bridge_stale` | counterexample to `ResultIsOfThisCall` | two calls |
| `directory` | which device a command by name reaches | two devices, two names, two threads, four lines read (a name is shared, changed and taken back) |

The bounds suffice to reach each interesting case: every property has a mutant
of the code, listed in `PROJECT.json`, that the same run refutes.
Symmetry is used in `directory` only, which has no liveness property.
Deadlock is checked except where a system stops because its bounds are used up:
in the bridge, the network and the walk, and where a transport whose init failed
has no queue left to create.

Fairness. `Transport`: FreeRTOS runs the worker when it can run, handlers
return, a callback that has begun ends, and deinit, once it waits for ESP-NOW,
goes on; nothing is assumed of the radio or of the application's calls.
`Bridge`: the main task runs when it is ready and its delays end; nothing is
assumed of devices or callers. `PhyMCP`: the worker runs and tools return (weak);
an application that keeps asking, and an air that loses neither all requests nor
all answers, which is what a retry can hope for (strong: a queue that is full now and then
must not count). `ToolsList`: waits time out (weak); the walker asks again, in turn with each limit it
knows, and not every request or page is lost (strong). Both belong to the
environment and are the least under which an answer can be promised at all.
`Device` and `Directory` have no fairness: their properties are about safety.

## 4. What the counterexamples say

- *Crowding.* The duplicate cache forgets a random live entry when it is full, so
  "prevents repeated side effects during the duplicate window"
  (docs/architecture.md) holds only with fewer competing calls than slots.
  `NoRepeatUnlessCrowded`, which is proved, says exactly when it holds.
- *Failed tools.* Only successes are remembered; a tool that acts and then fails is
  run again by a retry.
- *Late failure of init.* When registering the callback or adding the broadcast
  peer fails, init leaves queue and worker behind; another init adds a second
  worker and frames are handled concurrently.
- *Stale ok lines.* The interface identifies an ok line by its command alone. One
  left by a call that timed out is taken by the next call, which then returns
  the earlier call's result. `OwnVerdict` and `OwnAnswer` say where a line that
  crosses can come from: from a command whose caller left before its ok (or took
  another's for it), from one whose text was read as other lines than the one meant,
  or, for answers, from one with a line that became part of a cut one. A command
  that was read as meant, whose caller got its ok, and whose lines all stood alone
  settles nobody else's wait, however late its answer comes and however often.

The bridge also loses answers: the receive task may print a result before the
main task prints the ok line, the interface skips it, and the call times out
though the tool ran. `AnswerMissedOnlyEarly` says that this is when it happens, or
when the caller took another ok for its own or its text made several requests. A
verdict is lost for good only when it is printed after a line that was cut, and
becomes part of it, or when the text was read as lines that get none:
`VerdictIsOnItsWay`.

Names are weaker than they look. Every device with the LED example's firmware is
called `esp32c3_led`; a command by name goes to the one heard last, and a late
answer to a scan may change which that is. A name that a device no longer has
still stands for it. `NameReachesLastHeard` says which device is reached: the one
that was last heard under the name when it was looked up. While the caller waits for
the lock another device may be heard under it; the property accepts that, as the
code does.

What makes a call safe to repeat is the same id within the window. A host that
reboots draws ids from a random start and may meet an old one, and is then answered
with an old call's response: no property excludes that, and none would catch it.
The properties of `PhyMCP` about results and runs are about calls that are `fresh`,
with an id that was never drawn before, neither before a reboot nor before the
counter wrapped around. `AtMostOneRun` and `ResultOfOneRun` ask that the call is
`calm`: besides, since it began its tool has not reported failure and the device
has not rebooted (either makes the device run a repetition again). `IdsTakeTurns` says that
between reboots an id comes back only after all others.

## 5. Proofs

For every value of the constants that satisfies the named assumptions:

| Module | Theorems |
|---|---|
| `DeviceProofs` | `TypeCorrect`, `UniqueLiveHolds`, `ReplyIsLastRunHolds`, `RememberedOrCrowdedHolds`, `NoRepeatUnlessCrowdedHolds`, `ReplayOnlyInWindowHolds`; `DeviceMailbox`: `Device` implements `Mailbox` |
| `DeviceRefinementProofs` | `Implementation`: `Device` implements `ToolServer` |
| `PhyMCPProofs` | `NetImplementsDevice`, `NetImplementsServer` (`ToolServer` and `Mailbox`), `ResultIsOfThisCallHolds`, `AtMostOneRunHolds`, `ResultOfOneRunHolds`, `IdsTakeTurnsHolds` |
| `ToolsListProofs` | `WalkIsExactHolds`, `ListedToolsExistHolds`, `NeverMoreThanAskedHolds` |
| `FrameProofs` | `WholeFrameRestored`, `CutFrameDropped`, `AcceptedPacked` |
| `TransportProofs` | `TypeCorrect`, `OneOwnerHolds`, `RefusedOnlyWhenFullHolds`; if init does not fail late (`~LateFailure`) also `QueueOutlivesUsersHolds`, `OneAtATimeHolds`, `LeaksOnlyByDeletionHolds`, and `MailboxImplementation`: `Transport` implements `Mailbox` |
| `BridgeProofs` | `TypeCorrect`, `VerdictIsOnItsWayHolds`, `OwnVerdictHolds`, `OwnAnswerHolds`, `AnswerMissedOnlyEarlyHolds` |
| `DirectoryProofs` | `TypeCorrect`, `NameReachesLastHeardHolds` |

*Device.* The argument rests on the inductive invariant `IInv`. None of the
properties is inductive by itself: that entries are unique (`UniqueLive`) needs
that the call whose tool is running is not in the cache (`RunningIsFresh`), which
holds because the worker looked before it started and is the only one to store;
that an answer is the latest run's needs that every live entry records its
key's latest success (`CacheTracksAnswers`). `RememberedOrCrowded` is the heart:
a response that is missing within its window was evicted, which happens only
when every slot holds a live entry; these belong to distinct other calls
(by `UniqueLive`), all of which are in its crowd, and a crowd does not shrink
while the window lasts. Every action keeps the crowd or enlarges it. The
refinement maps the memo to the live entries; the step that stores needs that
an eviction removes one entry and only when the memo is full, which is a
statement about the cardinality of the live keys (`IInv` again). The mailbox needs
only types: every step that empties `pkt` ends a handler, and frames of a wrong
version or type are taken and dealt with at once.

*PhyMCP.* The device in the net takes only steps of `Device`, so `IInv` is an
invariant of the net. A result of a new id can only come from a run after the
call, because runs, entries and answers of an id exist only once the id has
been drawn. That a calm call runs once needs that its first run ended in a
success whose window covers the call's, so that `NoRepeatUnlessCrowded` applies to
the next. That a result ends such a call after one run
exactly rests on `OneRunInv`: as long as the crowd stays below the cache's size, a second run cannot
begin, and where there is a result there was a run. The crowd counted
since the call began (`CallCrowd`) only grows while the call goes on, so that the
crowd of any moment in between is bounded by that of its end. `NetImplementsServer` composes the
refinement of the device with that of the net. That ids take turns is arithmetic: the ids since a boot are
consecutive modulo wrap-around, so that the last `XidModulus - 2` differ.

*ToolsList.* The walk's next cursor is the number of tools it holds, and the
etag says of which firmware they are. Foreign cursors need only that a page
starts below the tool count once it is not empty.

*Transport.* `FrameInv` says who may hold a block in which state, for each task,
queue and the callback; `PhaseInv` ties the steps of init and deinit to the queue,
the task and the registration that exist then. With a late failure `PhaseInv`
fails (a worker exists that the next init does not know), which is what
`transport_retried` shows; ownership does not depend on it. `PeersInv` says
when ESP-NOW is down and that its table never holds more than it has room for; since
the complaint about a peer that exists counts as success, a refusal means that
the table is full or ESP-NOW has been shut down. `BoxInv` adds to `PhaseInv` that the
handle of the task is cleared whenever there is no task, so that what waits, and
who handles it, are those of one queue and one task; a frame that the callback has
copied finds both there, since deinit waits for the callback before it deletes them.

*Bridge.* The invariant follows each command whose text was read as meant (`Meant`):
of its line, its turn at the main task and its verdict only one is there at any
time (`Unique`). Every command whose verdict is still to come is owed it by the
caller, or by one that has left (`Debts`), and what may settle a wait that is on
for an answer is owed by those that left, were misread or were swallowed. A
transaction id belongs to one command, also in lines that were joined, unless one
of these became part of the other (`Ids`). None of the three holds without the others:
which ok line ends a wait decides which ids are then awaited. That an answer is not
passed over needs also that the lines about the caller's command are of its kind
(`OwnKind`).

*Directory.* The alias of a name is the last device heard under it, and what a
thread looked up was so among the lines read until then.

*Frame.* The key lemma is `UnpackOfPack`: on the beginning of a packed frame,
unpack succeeds exactly when the frame is all there, and then returns what was
packed; it uses that a 16-bit value survives being stored in two bytes. The
converse, `PackOfUnpack`, holds for any bytes, whoever sent them: storing what was
loaded gives back the two bytes (`StoreOfLoad`), so that accepted bytes begin with
the frame that pack makes of what unpack returned.

Only model-checked: the liveness properties (`EveryFrameIsTaken`,
`EveryLineIsExecuted`, `CallIsAnswered`, `WalkEnds`).
Liveness under fairness, ENABLED and induction over data are outside the prover;
no module declares a recursive operator.

## 6. Not modelled

- `phymcp_device_deinit` and `phymcp_host_deinit` against a running handler: no
  program of the repository calls them. `Device` restarts in one step.
- The frame codec's sequence counter (the same code as the transaction counter;
  no receiver reads its values), MAC text, and the helpers that build error and
  result texts.
- Text: JSON, tokens (a name prefix that holds a space is read as two arguments;
  Python splits a line at more kinds of white space than C does), names, the help
  text. What a text with such characters is read as is chosen, not computed.
- Members that cJSON leaves out without memory, lost serial bytes, a write that
  times out in the middle of a command, closing and reopening the serial port, a
  number that is itself so long that the line which repeats it is cut.
- The interface's cache of tools.
- NVS, Wi-Fi and event-loop set-up, encryption keys, logging, the LED's GPIO, the
  MCP server wrapper and its arguments, build files.

## 7. Plan

The plan of the first version (device, transport, frame, bridge, then paging,
the composition, cut lines and caches, and their proofs) is carried out, and
every safety property that a passing run checks is proved. What is left to prove:
an abstract dialogue of requests and answers that `Bridge` implements as long as no
caller leaves early and every text is read as meant, and that the first
`XidModulus - 2` ids of a host that does not
reboot are `fresh`, which ties `IdsTakeTurns` to `ResultIsOfThisCall`.

What could follow in the model: `Device` over the step-by-step `Transport` instead of
`Mailbox`, with deinit against a running handler, once a program of the repository
uses deinit; and a host API that repeats a request with its id, in place of
`SendAgain`.
