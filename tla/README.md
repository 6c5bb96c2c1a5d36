# A verification project for the pipe-inspection program

The repository is a Windows program (C++, MFC) that inspects pipes with a laser
profiler: a dialog starts and stops measurements on a Keyence LJ-V7000
controller, profiles are written to files, consumer threads run a detection
library over such files, and pictures, configurations and results are sent to an
upload service. The program's own code is in `src/MFCApplication1/` (about 8,900
lines); `include/`, `lib/` and `x64/` are third-party headers and binaries.

This directory holds TLA+ modules of the parts that have a behaviour over time,
the TLC configurations that check them, and proofs for TLAPS.
`PROJECT.json` lists the components, the runs, the lines of code that every
definition stands for, the mutants that show that each property can fail, the
hazards and the theorems.

- [1 The system](#1-the-system)
- [2 The modules](#2-the-modules)
- [3 What the runs check](#3-what-the-runs-check)
- [4 Where the code and its comments disagree](#4-where-the-code-and-its-comments-disagree)
- [5 What is proved](#5-what-is-proved)
- [6 What is not modelled](#6-what-is-not-modelled)
- [7 Plan](#7-plan)
- [8 Running it](#8-running-it)

## 1 The system

    operator ──buttons──► dialog ─────► CaptureLaser ─────► LJV7 library ─► controller
                            │               │  ▲                 │
                            │               │  └─ profile buffer │ receive callback,
                            │               │                    │ on the library's thread
                            │               └─► consumer threads ▼
                            │                    │        files E:\logs\7A-8B
                            │                    │ read
                            │                    └──────── files D:\logs\7A-8B_org ◄─ another program
                            └── HTTP picture (button 4), MySQL (button 6)

    terminal ──► upload client (libevent) ══ TCP ══► upload service (libevent)

| Part | State | Operations | Talks to |
|---|---|---|---|
| Dialog and `CaptureLaser` | timers, status of the device, the library's state (initialised, path open, how far the high-speed communication has got) | Start, Pause, Stop, `OnInitDialog`, `OnTimer` | the LJV7 library by calls that may fail; makes consumer threads at each Start |
| Profile buffer (`CThreadSafeBuffer`) | per device: profiles, count, notification bits, batch number; one critical section | `Add`, `AddCount`, `Get`, `GetCount`, `ClearBuffer` | written for several threads; in this program only `ClearBuffer` is called, from the dialog's thread |
| Consumers (`DoProcessDatas`, `ConsumerDatas`) | the global `Buffers` and `myMutex`, each thread's round | list the directory, take, read, detect, erase, for ever | share `Buffers`, `myMutex` and the directory |
| Upload client (`ClientDatas`) | `writeQueue`, the bufferevent and the event of `write_cb` | `SendMsg` (terminal thread), `write_cb`, `error_cb` with its reconnection (loop thread) | the service, over TCP |
| Upload service (`DoService`) | static transfer variables shared by all connections, the registry `client_vec`, each bufferevent's input | `do_accept`, `read_cb`, `error_cb` | all clients; files |
| Capture files (receive callback, `CDataExport`) | none between calls | append a batch to the file of this millisecond | the library's thread; files |
| `IniFile` | sections with their items and comments, the comment flags; the file | `load`, `save`, `saveas`, setters, `deleteKey`, `deleteSection` | its caller (the upload client loads one); the file |
| `WriteFile` | ring buffers and one writer thread | `log`, `writeOutput`, `run` | not compiled into the program |
| `NetworkClient`, `httpClient` | what is set for the next request, the open upload, the last response, the options of the curl handle | `doGet`, `doPost`, `doUpload`, `doUploadMultipartData`, setters | libcurl; button 4 downloads a picture |
| `DBOperation`, `AIOperationDatas`, base64, JSON, device records, MFC frame | none, or records without behaviour | | |

Where this is hard:

- **Static transfer state.** The service keeps *one* set of flags, one buffer and
  one file name for all connections; reads of different clients interleave at the
  loop's pleasure, a client may leave in mid-upload, and the length of a read
  stands for the end of a file.
- **Descriptors are reused**, and the registry is searched by descriptor.
- **A start on any state.** Every call of a start may fail, nobody looks at what
  the steps return, and each step cleans up for itself. Start, Pause and Stop come
  in any order; a pause may be put off to a timer.
- **Threads that share vectors.** `Buffers` and `writeQueue` are used by two
  threads without a lock that works; each Start makes one more consumer and
  initialises and destroys the mutex again.
- **Reconnection.** Bytes that the broken connection had not taken are sent on
  the next one, messages are typed meanwhile, and an event stays on the old
  socket. To the service the new connection is another client, whose bytes may be
  read before those the old one still holds.
- **Files that are read, edited and written back**, with comments that wait for the
  item they belong to, by a process that may end between emptying a file and
  writing it.
- **One handle for many requests.** Options of a curl handle stay until they are
  set again; a call that is given up half way leaves what it had set.

What makes each part correct:

| Part | Correct means |
|---|---|
| Service | the registry is exactly the live connections; texts reach all in one order; no transfer is dropped silently; used one message at a time it stores each upload and tells each text exactly once |
| Buffer | every call takes effect at once; no way out keeps the lock; no reader loses the end of a batch |
| Session | nothing is closed under what is open; a handler leaves all or nothing; Start works from anywhere; Stop leaves nothing; the status is right |
| Consumers | a lone consumer takes no name that is not in `Buffers`, and reads every finished file |
| Client | order, no duplicates, and nothing lost but what was on the wire of a broken connection |
| Client and service | a saved file holds what was typed, in order, with holes only where a connection broke |
| `IniFile` | what was saved is what is loaded; loading and saving loses no item and no comment in front of one |
| `NetworkClient` | a request is made of what was set for it, and nothing of earlier requests or responses |

## 2 The modules

| Module | What it is |
|---|---|
| `UploadStore` | what the service promises: a message at a time becomes a file or is told to all |
| `DoService` | `service/DoService.cpp`: the loop, its callbacks, the registry, the transfer state |
| `PoliteUploads` | `DoService` with clients that wait their turn (what one operator at one terminal does), and the refinement mapping to `UploadStore` |
| `MCDoService`, `MCPoliteUploads` | their instances |
| `DoServiceProofs` | theorems about `DoService`, and that, used politely, it implements `UploadStore` |
| `ProfileStore` | what the buffer promises: calls that take effect at once |
| `ThreadSafeBuffer` | `ThreadSafeBuffer.cpp`, statement by statement, and the refinement mapping |
| `MCThreadSafeBuffer`, `ThreadSafeBufferProofs` | its instance, its theorems |
| `CaptureLaser` | the dialog's handlers and `CaptureLaser.cpp`, call by call |
| `MCCaptureLaser`, `CaptureLaserProofs` | its instance, its theorems |
| `ConsumerDatas` | `DoProcessDatas` and the threads it makes |
| `MCConsumerDatas`, `ConsumerDatasProofs` | its instance, its theorems |
| `ClientDatas` | `ClientDatas.cpp`: the queue between two threads, and the connection |
| `MCClientDatas`, `ClientDatasProofs` | its instance, its theorems |
| `UploadPath` | `ClientDatas` and `DoService` composed: from the terminal to the saved file |
| `MCUploadPath`, `UploadPathProofs` | its instance, its theorems |
| `IniFile` | `inifile.cpp`, load line by line, save statement by statement on the file |
| `MCIniFile`, `IniFileProofs` | its instance, its theorems |
| `NetworkClient` | `NetworkClient.cpp`: one request after another on one handle |
| `MCNetworkClient`, `NetworkClientProofs` | its instance, its theorems |

How they correspond to the code:

**DoService.** An action is one dispatch of the event loop: `do_accept`,
`Readable` (libevent reads up to 4096 bytes into the input buffer, then calls
`read_cb` *once*, which takes up to 4095), `error_cb`. Bytes come in tokens: the
four letters that open an upload, the markers `#`, `*`, `$`, the terminator, and
words; a token is never split, and the buffer sizes are counted in tokens.
`read_cb` is its chain of six branches: for each kind, in the order of `Rank`, a
header (`HeaderRead`) or more of an open transfer (`BodyRead`); else a text
(`TextRead`). `paraseHead` is `HeadMarker`, `HeadEnd`, `HeadName` and `HeadData`,
with its quirks: it looks for any marker, `#` first; it throws where a marker
comes before the name (`HeadThrows`, which ends the process, as nothing catches
it). `FormatCharDatas`, `base64_decode` and the writing of files are functions of
the strings.

**PoliteUploads.** The clients of `DoService` with a condition on when they send, and
two history variables: `asked` is the last message sent, `stored` the files written
but for the log that a picture of several reads is written to first (149). The
store's `pending` is `asked` until nothing of it is left to read and no transfer is open
(`Quiet`). `PoliteMessages` names what the code counts on in a message without testing
it (`PoliteAssumption` of `MCPoliteUploads` has TLC evaluate it for the instance): its
length never leaves a rest in the input buffer nor ends on a full read (`Fits`), no
later read begins as a header does (`GoesOn`), its header is in the first read and
`paraseHead` meets its own marker first (`IsFound`), the file system takes its name and
a picture holds no `#` (`IsTaken`); a text is shorter than a read, begins with no marker
and has no NUL.

**ThreadSafeBuffer.** `Body` is the order of the statements of each operation, a
thread's `at` its place in it, one action per statement. `Leave` is what every way
out does (Unlock, the early `return` of `GetCount`, a throw): the destructor of
`CSingleLock` gives the critical section back. `settled` and `reported` are history: the
data as of the last release, and the batch number last returned.

**CaptureLaser.** `Script` has the statements of each handler that change
something, `pc` the one that comes next; the controller may be unplugged, get busy
or stop being busy between any two. A call of the library succeeds only where it can
(`Possible`, `Reachable`) and may fail anyway; `Opened`, `Fail` and `Undoes` say what
the program makes of each. `DoLaserInitUsbHighSpeedDatas` is the only function
whose calls are checked: it returns at the first failure (`LeaveInit`).
`m_xvCurrentDeviceID` is never set; `validID` is whether it happens to be a device,
and `Fault` what may come of an index that is not.

**ConsumerDatas.** One action for each statement on the mutex, on `Buffers` and on
the files. A mutex is what `pthread_mutex_init` made last; a lock of a destroyed
mutex fails and nobody looks; a destroy of a locked one is refused. `Race` is the
undefined behaviour of two consumers on one vector: it may end the process or
leave any names. Without the directory, `List` lists whatever `FindDatas` holds, or ends
the process copying it (CaptureLaser.cpp:173-181). The directory is filled by another
program, which finishes and removes files at any time.

**ClientDatas.** Messages are numbered, each is written as two pieces, so that a
connection can break inside one. `PushBegins` to `PushEnds` and `write_cb` to
`EraseEnds` are intervals: where they overlap, either may leave anything in the
vector or end the process. `error_cb` is `EofEvent`, `ErrorEvent`, `Reconnected`
and `ConnectFails`; `ev` tells whether the event of `write_cb` is on the
bufferevent's present socket.

**UploadPath.** The client's connections, counted by `conn`, are the clients of
`DoService`; a piece that `write_cb` writes arrives as its tokens (`Part`). A
connection breaks for the client first (`Breaks`); the service may go on reading
what it had, and learns of it later or never, while it accepts and reads the next
one. `stranded` is history: what the service had not read when a connection broke.
Tokens are labels here: each, and what it is decoded to, stands for the one place it was
typed at (`LabelAssumption`), so that a file tells where all of it comes from. The code
looks at no token but those that open an upload, the markers and the NUL, so any other may
be given any name; these cannot, so that what is typed holds at most one upload
of each kind, and one picture's NUL.

**IniFile.** A file is a sequence of lines, a line a sequence of characters, in
which `#`, `;`, `[`, `]` and `=` stand for themselves and a word for a run of any
others; trimming of blanks is left out. `ReadLine` is one round of `load`, one
action for each thing it makes of a line; `at`, `section` and `comment` are its
local variables. `saveas` renders a section or an item at a step, then empties the file
(`OpenForWriting`) and writes it (`Write`), and the process may be killed between
these. Each setter is an action. `saved` is the sections and flags that the file was written
from; `edited` tells whether a setter was called since the last load, and `"spoilt"` that
one was given a text that `load` cannot read back.

**NetworkClient.** What a caller sets is represented by the number of the call it
is set for. A transfer is one step, since nothing else uses the object meanwhile.
`handle` has the options of the curl handle that stay from one request to the
next, `Verb` and `Body` are what libcurl 7.67 (the version in `include/curl`) makes
of them. Every call has an action, and so has every way to give one up:
`doUploadFails` (611, 618), `MultipartFails` (264). `sent` is history: the last
request, what it was asked for, and the calls whose settings it is made with.

## 3 What the runs check

| Run | Checks | Shows |
|---|---|---|
| `svc_transfers` | `TypeOK`, `RegistryIsLive`, `TextsAreOrdered`, `TransferEndsInSave`, `PictureHoldsOthersBack` | whatever clients do, an open transfer ends in a saved file under the last header's name, and a picture transfer holds everything else back: not isolation of clients, which the code does not have, but what is left of it; no entry of a freed bufferevent, no stale descriptor, one order of texts |
| `svc_polite` | `KeepsTheStore` (refinement), `HandlesEach` (liveness) | a message at a time, unsplit, of a length that fits: every upload is stored once with its name and content, every text told once, and each in the end |
| `buf_atomic` | `TypeOK`, `FlagTellsOfBatch`, `ActsAtomically` (refinement), `LockIsGivenBack` (liveness) | the buffer is atomic, throws included |
| `las_session` | `TypeOK`, `OpenFromBelow`, `AllOrNothing`, `StartStreams`, `StoppedIsQuiet`, `StatusTellsOfPath` | what every handler leaves behind, from whatever it finds |
| `con_files` | `TypeOK`, `CrashNeedsTwo`, `FinishedFilesAreRead` (liveness) | over a directory that exists it takes two consumers to fail; a lone one, which gets in whatever the mutex does, reads every finished file |
| `cli_messages` | `TypeOK`, `InOrderOnce`, `TypedArrives` (liveness) | order and no duplicates over all connections; all of a message arrives or is lost on a broken wire; what can keep the rest from the service for ever is only what `Stuck` lists, and of a connection that is up only what is still queued while the event of `write_cb` is gone |
| `path_files` | `SavedAsTyped` | client and service together, over a connection that breaks in mid-upload: what is in a saved file is in the order it was typed, with holes only where the connection broke |
| `ini_files` | `TypeOK`, `OnlyEditsSpoil`, `ReadsBack`, `KeepsItems` | what a file means survives loading, editing and saving, unless a setter was given a text that cannot be read back; not a process that is killed between emptying the file and writing it: the properties are silent about the empty file it leaves |
| `net_requests` | `TypeOK`, `NothingCarriesOver`, `MethodIsOwn`, `BodyIsAsked`, `ResponsesAreOwn` | what a request inherits from the ones before it: nothing, with the exceptions that the properties name |

The other runs are in section 4.

**Bounds.** They are constants, or in the cfg.

- Service: reads of 3 from arrivals of 4 tokens (the code: 4095 of 4096; the
  one-byte difference is kept), so that uploads of 5 take two reads and leave rests;
  two clients that send two messages interleave two uploads or an upload and a text at every
  split of the network. Each client connects once, so that a descriptor is not reused
  in this run; theorem `RegistryStaysLive` is about any number of clients, who reuse them.
- Polite uploads: reads of 4 from arrivals of 5, and every kind with lengths below a
  read, above it and above two reads. Lengths that leave a rest in the input buffer,
  or that end exactly on a full read, are left out: with them the
  promise does not hold (see section 4). Two messages show that one leaves
  nothing behind for the next.
- Buffer: three threads, four calls, one device (devices share only the lock),
  counts modulo 4 that wrap.
- Session: four clicks after `OnInitDialog`: every order of four handlers, each on whatever
  the ones before it left behind.
- Consumers: two files (an order), two Starts (two consumers).
- Client: three messages (one in the queue, one in the output, one on the
  wire), two lost connections, one race, two connects per reconnection.
- Client and service: a picture and a configuration, each of two pieces, one break, so that
  an upload is cut at any place and goes on over the new connection. The second piece of
  the picture ends in a NUL, for what `write_cb` sends past its end (ClientDatas.cpp:273). A push that
  overlaps `write_cb` ends the exploration (`NoOverlap`): the property says nothing from
  there on. Descriptors are interchangeable (symmetry).
- INI files: four calls (load, edit, save, load again), from five files: one with every
  kind of line, comments before and behind each and two items of one key; one with
  lines that load drops; three that it gives up or dies of (an item after a nameless header, a header
  that is there twice, a header without an end).
- HTTP client: three calls (one to leave something, one to be given up or to change it,
  one to inherit it), each with at most two settings standing (`MaxSet`); data of
  up to two reads.

Deadlock is not checked: bounded typing, clicking and calling come to an end, and
processes exit.

**Fairness.**

- Service: `Readable` of each client, since the loop dispatches every ready descriptor. Nothing is assumed of clients.
- Buffer: each thread's statements, since Windows schedules every thread that can
  run. It is weak: `LockIsGivenBack` needs the thread that has the critical section
  to go on, not a waiting one to get it.
- Session: the dialog's thread executes its statements. Nothing else must happen.
- Consumers: each consumer, and the rest of `DoProcessDatas`. No fairness for the
  directory, the presses and the races.
- Client: the loop goes on, moves its output and gets to `write_cb`, and the network
  delivers. `write_cb` has strong fairness: libevent serves all the events
  of a pass, so that a connection that is up again and again long enough to dispatch has its write
  event served. Typing may stop at any time.

## 4 Where the code and its comments disagree

Each of these is a run that TLC refutes, with the comment in `PROJECT.json`.

| Run | The comment | The code |
|---|---|---|
| `svc_one_go` | "if the transfer is complete in one go, save directly" (DoService.cpp:131) | tests only that the read was short: an upload that TCP delivers in two pieces is saved after the first |
| `las_put_off_pause` | `TIMER_ID` closes or starts the pausing of the device (CaptureLaser.h:62) | nobody handles that timer: a pause that is put off is never made |
| `cli_reconnect` | the connection is broken; if so, reconnect (ClientDatas.cpp:104, 123) | at EOF the bufferevent is freed and nothing reconnects |

Met while modelling, without a run of their own: an upload whose length does not
fit the reads leaves a rest in the input buffer until something more arrives
(DoService.cpp:106, which takes 4095 of up to 4096 bytes); a configuration
file that holds a `#` is stored under a name that runs up to it (29); Pause kills
`CaptureLaser`'s `TIMER_EX_ID` (200), not the dialog's (10) that Start set
(CaptureLaser.cpp:941); the comment "read, run, delete" over a loop whose
deletion is commented out (196, 200); the ports 81123 of both programs do not fit
into 16 bits.

Also: the mutex of the consumers is locked once and never given back, though a
comment speaks of a wait that unlocks it (CaptureLaser.cpp:194). After a
reconnection the event of `write_cb` stays on the closed socket although "the events must
be added again" (ClientDatas.cpp:135): what is typed is sent only if the new socket
has the number of the old one. A configuration whose lines end in two characters
is sent with bytes behind its end (ClientDatas.cpp:227-238). In `inifile.cpp`,
`setSectionComment` (360) stores its text without a comment flag, `deleteKey` removes
only the first of two items of one name, and a load that stops at a line it
cannot parse leaves an object whose `save` drops the rest of the file. In
`NetworkClient.cpp`, a multipart upload is sent with the verb, and after a PUT with
the body, that an earlier request set in the handle, as it applies no method (246);
one that is given up because a file cannot be opened leaves its parameters to
the next request (264-268), and the caller that does not look at the result
(httpClient.cpp:52-53) reads the response code of the request before; data that
libcurl takes in two reads is sent as its first part twice (598); an upload given up
once its file is open (618) makes the next upload of data send that file; `doGet`
with the method POST sends the freed buffer of the last `doPost` (375).

## 5 What is proved

The proofs hold for every value of the constants that satisfies the module's
assumption, all of which TLC evaluates in the runs.

| Module | Theorem | States |
|---|---|---|
| `DoServiceProofs` | `Typing` | `Spec => []TypeOK` |
| | `RegistryStaysLive` | `Spec => []RegistryIsLive` |
| | `TextsStayOrdered` | `Spec => []TextsAreOrdered` |
| | `TransfersEndInSave` | `Spec => TransferEndsInSave` |
| | `PicturesHoldOthersBack` | `Spec => PictureHoldsOthersBack` |
| | `StoreIsKept` | `PoliteSpec => KeepsTheStore`: the refinement of `UploadStore`, for `PoliteMessages`, `~Fragmented` and `m_bSendAll` |
| `ThreadSafeBufferProofs` | `Typing` | `Spec => []TypeOK` |
| | `Atomicity` | `Spec => ActsAtomically`: the refinement of `ProfileStore` |
| | `Notification` | `Spec => []FlagTellsOfBatch` |
| `CaptureLaserProofs` | `Typing` | `Spec => []TypeOK` |
| | `OpenedFromBelow` | `Spec => []OpenFromBelow` |
| | `NothingHalfDone` | `Spec => []AllOrNothing` |
| | `StartWorks` | `Spec => []StartStreams` |
| | `StopEndsAll` | `Spec => []StoppedIsQuiet` |
| | `StatusTells` | `Spec => []StatusTellsOfPath` |
| `ConsumerDatasProofs` | `Typing` | `Spec => []TypeOK` |
| | `OneIsSafe` | `Spec => []CrashNeedsTwo` |
| `ClientDatasProofs` | `Typing` | `Spec => []TypeOK` |
| | `InOrder` | `Spec => []InOrderOnce` |
| `UploadPathProofs` | `PathHasItsParts` | `PathSpec => Spec /\ Client!Init /\ [][Client!Next]_(Client!vars)`: each part behaves as its own specification |
| | `TypedIsSaved` | `PathSpec => []SavedAsTyped` |
| `IniFileProofs` | `Typing` | `Spec => []TypeOK` |
| | `LoadMakesStorable` | `Spec => []OnlyEditsSpoil` |
| | `ItemsAreKept` | `Spec => []KeepsItems` |
| | `SavedIsReadBack` | `Spec => []ReadsBack` |
| `NetworkClientProofs` | `Typing` | `Spec => []TypeOK` |
| | `OwnSettings` | `Spec => []NothingCarriesOver` |
| | `OwnMethod` | `Spec => []MethodIsOwn` |
| | `OwnBody` | `Spec => []BodyIsAsked` |
| | `OwnResponses` | `Spec => []ResponsesAreOwn` |

Assumptions: `ServiceAssumption` (kinds, markers and words are different tokens,
messages are sequences of tokens, buffer sizes are positive), `BufferAssumption`
(calls are well-formed records, the modulus is positive), `SessionAssumption` (the
bound is a number), `ConsumerAssumption` (finitely many files, at least one),
`ClientAssumption` (bounds are numbers, at least one connect), `IniAssumption` (files
and arguments are texts over the alphabet), `NetAssumption` (at least one
call; the other methods are none of GET, POST and PUT), `PathAssumption` (each piece is a
message of the service, and the numbers of connections and messages of the two sides agree) and
`LabelAssumption` (a token stands for at most one place, section 2; this is what limits
`TypedIsSaved` to one upload of each kind, and to texts and contents whose words all differ).
`StoreIsKept` has one hypothesis more: `PoliteMessages` is what the code counts on in a
message, a condition on the use of the service, which section 4 shows to be needed.

The arguments:

- **Service.** Types first: `From`, `SubSeq`, `Erase`, `base64_decode` at computed
  places. `RegistryIsLive` needs that a client that never connected has no
  descriptor and that everyone registered was welcomed (`RegistryInv`); the step that matters
  is `error_cb`, where the entry found by descriptor is the client's own because
  descriptors in the registry differ. The order of texts then follows from `sendAll` appending the same
  text to everyone in the registry. The two action properties are of single steps: a read
  looks at the first tokens of its input only (`ReadsTokens`), and a header or body
  that ends a transfer saves as its last statement (`SaveIsLast`, `HeaderEndsInSave`,
  `BodyEndsInSave`); with a picture open no other branch is reached (`OnlyReading`).
- **Polite uploads.** A message is read in several steps, and all but the last are
  stutters of the store, so the invariant must say in the middle of an upload what is so of
  it. `Underway(c, k, r)` does: k full reads of c's message have been made and r are to come
  before the short one; the input buffer and the stream together are what is left of it
  behind k full reads (`IsRest`); `fileData` is what those reads held, without the header
  if it is a picture's (`Collected`); the open transfer is of its kind and under its name. The lengths
  are two inequalities, one for arrivals (`SocketRead`) and one for reads
  (`FileBuffers`): a full read takes one off both (`FullRead`), and with none left the
  next read takes everything and is short (`LastRead`). `PoliteInv` is that
  there is at most one such message. Below it are three layers of lemmas: which piece of the message
  a read takes (`ReadCut`), which branch of `read_cb` takes that piece (`TextHandled`,
  `HeaderHandled`, `BodyHandled`), and what the branch leaves (`ShortHeader` to `LongBody`).
  `HandleStep` joins them: a full read stutters, the short one is `Save` or `Tell`.
  `do_accept` is `Join`, `error_cb` is `Leave`, `Send` is `Submit`, as the registry
  holds exactly the live clients (`RegistryInv`).
- **Client and service.** First the parts (`PartsInv`): pieces are messages of the
  service, at most two for each that was typed, and all connections are numbered
  below `MaxDrops + 2`; so each step of the composition is a step or a stutter of each
  part (`PathHasItsParts`), and the types proved of the service hold here too. Then
  `ClientInv` counts: `Gone` pieces have left the wire, and what is on the wire, in the
  output and in the queue are the ones behind them, with no gap. On the connection that is
  up, all that has left the wire and was typed behind some place is stranded or
  unread (`Known`), the unread is in order (`Whole`), and the last token that the
  open transfer collected comes before all of it (`Ahead`). So what a read adds
  next is what was typed next, but for what is stranded. On any other connection all
  that is unread is stranded (`Gave`), so that what a late read of it adds is an
  exception of the property by itself, and a transfer whose last token is
  stranded may be followed by anything. `AfterBreaks` is the step where the
  one becomes the other. That what the branches of `read_cb` save flows if the input and
  `fileData` do is a layer of lemmas below (`Flows` of pieces, of joined strings and
  of decoded ones).
- **Buffer.** `LockInv`: a thread past its Lock owns the critical section. `Partial`
  says for each place in each call how the data differs from what was there when
  the lock was taken. So the moment of release maps to `Perform` (or `Fail`) of
  `ProfileStore`, and all other steps stutter. `Reporting` relates flag and batch number
  at each place of a call, and gives `FlagTellsOfBatch` when the lock is free.
- **Session.** `SessionInv` is the type, `OpenFromBelow` and `StageInv`: which
  statement comes next tells how far the communication can have got. It rests on
  the order of the scripts (`ScriptsOrdered`: a link is closed only behind
  `FinalizeHighSpeed`, `UsbInitialize`, `PreStart` and `Start` are neighbours),
  which is proved for the pieces and kept by joining them. What a *finished* handler
  leaves needs more: `Progress` says for each statement of a script what is so when it
  comes next (`StartInv`, `StopInv`, `StatusInv`), so that at the end of Start, Stop and
  any handler it is `StartStreams`, `StoppedIsQuiet` and `StatusTellsOfPath`.
- **Consumers.** `RoundInv`: a consumer that is alone in its loop has as many names to
  take as `Buffers` holds; the process has failed only with two of them, or without a directory. A second one that enters makes two, and they never leave.
- **Client.** `OrderInv`: as long as no push overlapped `write_cb`, what was received,
  what is on the wire, what is in the output and what is queued increase, one
  after the other, so that moving the first of one to the end of the one before keeps all
  in order, and losing any of it does too.
- **INI files.** `Sound`: as long as nothing is spoilt, all the sections hold, and the
  comment that waits, can be written with the flags as text that means them. A piece
  that load cuts off before the first flag, `=` or `]` is free of them. `KeepsItems` is of
  the end of load and save, so `Keeping` says it of their middle: every item line read so
  far is an item of a section with the comments in front of it (`Loading`), every item
  that the save has passed is a line of the text (`Saving`). `ReadsBack` joins
  two calls that may be far apart. `Writing` says what the text written so far
  is: a chunk for each section passed, in some order; `Written` keeps that of
  the disk for the sections `saved`; and `Rereads` says of any text made of such chunks
  that a load which has got to a place in it holds exactly the sections before
  that place. The induction over the lines is that of the behaviour: one step
  of load or save per line.
- **HTTP client.** `Fresh`: every setting that stands was made by a call later than the last
  request. `AsApplied`: what the handle has is what the last method that was applied left
  there. So what a request takes is its own, and what the handle still has
  of another method is in the exceptions of the property.

Only model-checked: liveness (`LockIsGivenBack`, `FinishedFilesAreRead`,
`TypedArrives`, `HandlesEach`), which is out of the prover's reach. Every invariant, action
property and refinement that a run checks is a theorem. `StoreIsKept` needs `~Fragmented`:
with a network that splits messages the refinement does not hold, as `svc_one_go` shows. It
needs `m_bSendAll`, which is what the program runs with (DoService.cpp:5, nobody calls
`setSendAll`): without it a text is only sent back to its client.

## 6 What is not modelled

- The receive callback and the export of profiles: no state between calls; the
  content of capture files. They write to `E:\logs\7A-8B`, the consumers read
  `D:\logs\7A-8B_org`, so that the two do not meet in this code.
- `WriteFile`: the build does not compile it and nothing calls it.
- In `NetworkClient`: URL encoding, proxy, certificates and progress; how a
  response is parsed. The proofs and runs are about what a request is made of and
  whose response it is.
- In `IniFile`: the getters, which change nothing, and the trimming of blanks.
- In the upload client: how a file to send is read and encoded
  (ClientDatas.cpp:202-240); its messages are given.
- `getInstance` of the buffer (test and assignment without the lock): the first call is made by the dialog's
  thread before the controller is asked for data.
- The sizes of capture files, the heap, the detection library.
- Other threads' use of `CaptureLaser` members during a handler: the library's thread
  only reads the profile information that `AllOrNothing` is about.
- The session and the consumers as one system: all they share is that Start makes a
  consumer, and `ConsumerDatas` lets that happen at any time.
- JSON (third-party), MFC frame, MySQL demonstration statements, records and
  constants, empty stubs, the copies `MainClient.cpp`, `base64.cpp`,
  `BufferManager.cpp` of the main program.

## 7 Plan

Done, in this order: service, buffer, session, consumers and client; then `IniFile`,
the composition of client and service (`UploadPath`), `NetworkClient`; the
proofs of the session's three outcomes and of the service's two action properties; then those of
what `IniFile` keeps and reads back, of the refinement of `UploadStore` and of
`SavedAsTyped` over the composition. Left:

1. `SavedAsTyped` for several uploads of one kind, which needs a place for each token
   in the model (a history variable beside the strings) instead of labels.
2. `WriteFile`, should it be compiled: the ring and the life of its thread (its
   destructor waits for the thread only if that has begun to run).
3. The hazards without a property, with their reasons in `PROJECT.json`. Some are
   outside the models: the size of a capture file (AIOperationDatas.cpp:69), the heap (61),
   two batches in a millisecond (CaptureLaser.cpp:216). The others are modelled, and what is
   in question is what the code does, against no statement of its own: a configuration
   that another client's picture clears (DoService.cpp:172), a rest that waits (106), a
   marker before the name (31), a client that is gone before it is accepted (292), a refused name
   (BufferManager.cpp:26), a device number that nothing sets (CaptureLaser.h:88), two consumers
   (CaptureLaser.cpp:164), a directory that is missing (173), a push that overlaps `write_cb`
   (ClientDatas.cpp:166), an event that stays behind (74), a save that is killed
   (inifile.cpp:225), a comment without a flag (360), what a call that was given up leaves in
   `NetworkClient` (267, 592) and data of two reads (598). A property of them needs a
   decision about what the code should do.

## 8 Running it

    tlc -workers 2 -config svc_transfers.cfg MCDoService
    tlapm DoServiceProofs.tla

The module of each run is in `PROJECT.json`.
