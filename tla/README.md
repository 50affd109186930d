# Verification of Asubio

Asubio is a voice-over-IP program for GNOME: two users agree on a call with SSIP,
the program's own protocol over TCP, and then speak over RTP. This directory
holds TLA+ models of its core logic, the TLC configurations that check them on
small instances, and TLAPS proofs of the results that hold for every instance.
Paths below are under `src/`, the repository.

1. Inventory
2. Plan
3. Modules, and how they correspond to the code
4. Runs: what is checked, within which bounds
5. Fairness
6. Proofs
7. Where the code and its documentation disagree
8. Limits: what is only model-checked, what is not modelled

## 1. Inventory

### Components, their state and operations

| component | source (`src/src/`) | state | operations |
|---|---|---|---|
| SSIP negotiation | `ssip_neg.c`, `ssip.h` | the connection, the packet last sent, the codec and ports chosen so far, `notify_call` (the dialog), `pd->exit` (the cancel button), the list of codecs | `ssip_connect`, `ssip_accept`, the dialogs of an incoming and an outgoing call |
| call hand-off | `gui_gtk/gui_ssip_neg.c`, `gui_main.c`, `gui_main_functions.c` | `session_ready` with two mutexes, `control_audio_processor`, `conection_reject`, `go_ssip_process` | `ssip_process_loop`, `ssip_connect_loop`, `ssip_connect_to`, `control_sessions`, `init_audio_processor` |
| sessions | `gui_gtk/gui_session.c`, `gui_main.c` | `list_session_users`, the tabs, `num_users_active_dialogs` | `create_session`, `destroy_session`, `destroy_partial_session`, `change_user_codec` |
| session threads | `io.c` | `asession` (process, bye, mute), `rtpinfo`, the queue `qrtcp` | `session_io_loop`, `tx_loop`, `rx_loop`, `handler_rtp_event`, `handler_rtcp_event` |
| RTP/RTCP | `rtp/rtp.c` | the database of sources, reception statistics, the timers of RTCP | `rtp_send_data`, `rtp_recv`, `rtp_update`, `rtp_send_ctrl`, `rtp_send_bye`, `rtp_done` |
| audio buffers | `audio_buffer*.c` | a buffer, two pointers, a queue of blocks | `mcm`, `init_*`, `read_audio_buffer`, `write_audio_buffer` |
| audio processor | `audio_processor.c` | lists of microphone and speaker queues | `audio_processor_loop` and the functions that make and free queues |
| proxy | `ssip_proxy/ssip_proxy.c` | a file of users and its lock, the count of children, two flags that signals clear | `protocol_manager` (a relay in a child process), `manage_user_process`, `notify_process`, `add_user`, `del_user` |
| presence | `notify.c`, `gui_gtk/gui_ssip_neg.c`, `gui_configuration.c`, `gui_main.c` | the password and the use of the proxy in the configuration, the last action of the toolbar | `notify_online_to`, `notify_offline_to`, `init_ssip`, `exit_ssip`, the buttons of the toolbar, Apply |
| configuration | `configfile.c` | sections of lines, as read from a file | open, read, write, remove, free |
| sockets | `net/` | descriptors; for UDP one shared `fd_set` | `tcp_*`, `udp_*` |
| plugins | `codec_plugin/`, `effect_plugin/`, `inout_plugin/` | the state of a codec, an echo, a device | encode/decode, `effect`, read/write |
| address book, dialogs, conversions, cryptography | `addbook_xml.c`, `gui_gtk/*`, `audio_convert.c`, `crypt/` | | |

### How they interact

- A call in: `ssip_process_loop` (a thread) accepts a connection and runs
  `ssip_accept`, which raises a dialog through `notify_call` and polls it; if the
  two sides agree it puts the call into `session_ready`.
- A call out: `ssip_connect_to` (the interface) starts `ssip_connect_loop` (a
  thread), which runs `ssip_connect` and fills the same slot. Without negotiation
  the interface fills it itself.
- `control_sessions` (a timer of the interface) empties the slot: it starts the
  audio processor if no session has, asks the user when the device is busy, and
  calls `create_session`.
- A session has three threads. `tx_loop` takes blocks from its microphone queue
  through `read_audio_buffer`, encodes and sends; `rx_loop` receives, decodes and
  writes through `write_audio_buffer` into its speaker queue; `session_io_loop`
  handles the events of RTCP, which `rtp.c` reports by callbacks on whichever
  thread it runs in. The interface stops the three to change a codec and at the
  end; they tell the interface through `rtpinfo`, which `control_sessions` reads.
- `audio_processor_loop` (a thread) reads the sound card, gives each microphone
  queue a copy, and plays a block of the speaker queues. The interface adds and
  removes queues while it runs; each list has a mutex.
- A program that uses a proxy announces its user to the proxy's process of
  notifications when it starts, and takes the announcement back when it ends; that
  process is the only one that writes the users' file. A call to the user goes to
  the proxy's manager, which forks a child; the child looks the user up in the
  file, connects to the program, and hands packets over between the two ends.
  A lock on a second file keeps the children and the writer apart.

### What is hard

Threads that hold one mutex while they wait for another; a mutex locked in one
thread and unlocked in another; the main loop turning inside a dialog; flags of a
session that three threads and the interface write without a lock; answers that
cross with time-outs and cancellations on a connection that may break; blocks of
two sizes regrouped in a buffer that never wraps; names of sessions that repeat;
a relay that reads from two ends in turns; requests that are given up and served
all the same; programs that crash with the only copy of a password; a counter of
processes that are never reaped; lists that change while another thread goes
through them by index; sources deleted from the middle of a chain; buffers shared
by threads that hold different mutexes. `PROJECT.json` lists the hazards at their
lines, with the properties that watch over each or the reason why none does.

### What makes each component correct

- negotiation: both ends are left with the same session or the calling end alone
  knows why not; the first codec of the caller that both have wins; both
  functions return; a cancelled call ends
- hand-off: one call at a time, settled once, no call left waiting without a
  question that settles it, and no waiting in a circle
- sessions: the audio processor runs while there are sessions; users, tabs and
  queues are counted once; the session chosen is the one that ends
- session threads: nothing is used after it is freed; BYEs are sent for a reason
  and not forgotten; the mute button survives; the end of a conversation is
  noticed; the interface never waits for ever
- audio buffers: no overflow, nothing lost or repeated, blocks not torn
- proxy: a call relayed is still the call of SSIP; the relay is never held by the
  end that has nothing to say; the number of children is bounded; no child reads
  the file of users half written
- presence: a user is reached at one program at most, only that program leaves the
  place, what a program was told about itself is so, and one that waits for calls
  without a proxy has started the loop that answers them
- audio processor: no consumer misses a block or gets one twice, no freed queue is
  used, and the interface gets its mutexes and its join back
- sources of RTP: the chains and the count agree, the reports follow the database,
  each sender is reported in its turn

## 2. Plan

The modules were written in this order, the calls first:

1. `SsipCall` (what a call promises), `SsipNeg` (the two functions), `MCSsipNeg`,
   `SsipNegProofs`
2. `Mcm`, `AudioRegroup` (what regrouping promises), `AudioBufferOut`,
   `AudioBufferIn`, `McmProofs`, `AudioBufferOutProofs`, `AudioBufferInProofs`
3. `CallSlot` (a slot for one call), `CallHandoff`
4. `Sessions`
5. `SessionIo`
6. `SsipProxy`, `MCSsipProxy`: the relay between two instances of `SsipNeg`, with
   `SsipCall` as the promise that must survive a relay in the middle
7. `UserDirectory` (what a directory of users promises), `ProxyDirectory`,
   `MCProxyDirectory`, `ProxyDirectoryProofs`
8. `ProxyManager`, `MCProxyManager`, and `ProxyProofs`, which proves about the relay of
   a call (6) and the processes around it
9. `AudioProcessor`, `MCAudioProcessor`, and `InterfaceProofs`, which proves about
   the three modules of the interface's side (3, 4 and 9) with one set of lemmas
   about lists
10. `RtpSources`, `MCRtpSources`, and `SessionProofs`, which proves about the threads of
    a session (5) and the sources of its RTP (10)

What would come next, had the project to grow: what `handler_rtp_event` does with
sequence numbers and timestamps, with the packet and the descriptor set that the
receiving threads of several sessions share; `rtp_base_port` and the count of
dialogs, read and written by two threads.

## 3. Modules, and how they correspond to the code

`map` in `PROJECT.json` gives the lines of every definition. In all modules a
variable has the name of the variable of the code where there is one, and an
action is what a thread does between two places where another may see or change
something: a wait, a mutex, a flag that is read without one.

**`SsipNeg`** models `ssip_connect` (`cpc`, `cret`) and `ssip_accept` (`apc`,
`aret`) packet by packet; the return codes are those of the code (4 and 2 when a
session is to be opened). `toCallee` and `toCaller` are the connection, which may
break, lose what is under way and make a send fail. `notify` is the structure the
called user's dialog writes; `exit` is the caller's cancel button, read every
half second. A codec is a record of payload type and ms, because the code
compares both in one place and only the first in another; the initial states take
every value of the ms the list of codecs leaves unassigned. A whole `SsipPkt`
is about 1.1 kB, and is taken to be received at once. `SsipCall` is the promise:
an answer, a codec, and two endings. `Call == INSTANCE SsipCall WITH ...` maps
return codes and flags to it.

**`Mcm`** is the loop of `mcm`, one pass per action. **`AudioBufferOut`** is
`write_audio_buffer` and the pop of the audio processor; **`AudioBufferIn`** is
`read_audio_buffer`, cut in two at the pop it waits in, so that the mute button
can be pressed there. Bytes are the numbers of the order they came in: that is
all the properties tell apart. **`AudioRegroup`** cuts a stream without a buffer
into blocks.

**`CallHandoff`** has a place (`pc`) per thread. (Its definitions, those of
`Sessions` and of `AudioProcessor` have the module's name in theirs where the three
would repeat one another, so that one module can extend them all.) `outer` is
`mutex_session_ready`, `inner` is `session_ready.mutex`, `gdk` the lock of GDK,
which the interface is taken to hold whenever it waits for something else. A
mutex unlocked by a thread that did not lock it is free, as it is on the
platforms the program runs on. `questions` counts the open dialogs about the audio
device, of each kind: they are not modal, one that is opened for the test of the
noise (`NoiseTest`, with no call) is connected to the same callback, and an answer
settles whatever is in the slot by then; with nothing in it, a refusal stays in
`conection_reject` and refuses the next call. **`CallSlot`** is the slot as its users
imagine it.

**`Sessions`** is sequential: the interface makes, ends and fails sessions, but
the main loop turns inside `gtk_dialog_run`, so questions (`asking`) stay open
while the timer runs. Sessions are found by number as the code finds them, by the
first match. A freed session that is named again reads as it was left, and a
second free is not taken: what the program does then has no meaning.

**`SessionIo`** has the places of the three threads (`ctl`, `tx`, `rx`) and of the
interface (`gui`). `asession->bye` starts with any value, because nobody assigns
it. `rtp.c` is its set of known sources: a source enters it with its first packet
and leaves it in `rtp_update`, and both are events in `qrtcp`. A frame is taken to
be a block here; `AudioBufferIn` has the regrouping. The events that only carry
text (SDES, reports) are left out, as is the countdown between two dialogs. `known`
and `num` are what `rtp.c` and `io.c` each believe about the same thing. The start
of a session may fail at each of its steps (`SetupFails`, `TxFails`), the latter with
the receiving thread still running and not waited for; `RestartFails` and `HangJoin`
lead to `rtp_done`, which reports each remaining remote to the queue of a thread that
has returned (`RtpDone`). `stale` says that the frame of that thread has been used after
its end, as by the receiving thread too (`RxCrash`); both may end the program. A
restart takes place when that thread, which needs 10 ms to notice, has ended.

**`SsipProxy`** composes the two ends and the relay. `Caller` and `Callee` are two
instances of `SsipNeg`, each over its own connection, with the relay in the place
of the other end; the module adds the places of `protocol_manager` (`relay`), its
`next_bye` and its way of ending. What the relay does is what the code does packet
by packet: the lookup, the connection, the HELO it answers itself, and then a
packet of the called side, one of the caller, and so on, without a limit of time,
until it has seen a BYE of each or an ERROR of either. Each of the two connections
may be reset. `Call == INSTANCE SsipCall` maps the two ends, not the relay.

**`ProxyDirectory`** has the programs and the process of notifications. `gui` is what
a program is doing or waiting for; each wait is a call of `notify_online_to` or
`notify_offline_to`, which stops the interface for five seconds at most. A request
given up stays in the queue of the listening socket (`backlog`) with its connection
closed, and is served in its turn. `dir` is the users' file; an entry holds a
program and the password that program made up. `conf`, `pass` are the configuration
in memory, `saved` the one in the file, which survives a crash. Passwords are
numbered, so that two of them never repeat (the code draws one of 130000 numbers).
`loop` is the loop that answers calls: off, running, or failed to start for want
of an address, a port, a thread or a listening socket (`StartLoop`); no
caller looks at the result.
**`UserDirectory`** says what the directory promises, without requests.

**`ProxyManager`** has the processes of the proxy: the manager (`mgr`, `childcount`),
a child per call and the process of notifications, with the lock and the file,
which is emptied (`cut`) by `fopen` and written later. Signals clear `goManage` and
`goNotify` at any point; the one that comes between the test of the loop and
`accept` is only noticed at the next connection. A wait for the lock that a signal
interrupts goes on without the lock, as in `file_block`. What the children relay is
`SsipProxy`, what is written is `ProxyDirectory`; here both are steps.

**`AudioProcessor`** has the place of the thread (`place`) between two points where it
may lose the processor with a mutex held or not, its index in the lists
(`counter`), and what the interface is doing (`ui`). The two mutexes are not
variables: the thread holds that of the microphones at `read`, `rest` and `push`,
that of the speakers at `pop`, and a step of the interface that needs one is only
possible when the thread is elsewhere. The card gives a block, a part, nothing or an
error, and may fail for good. Blocks are numbered modulo `Round`.

**`RtpSources`** is sequential, because the threads of a session hold its mutex
around every call to `rtp.c`. The chains are kept as the code links them (`db`,
`next`, `prev`), and each function (`create_source`, `delete_source`,
`process_report_blocks`, `process_rtcp_bye`, `rtp_update` ...) is an operator from one
state of the database to the next, so that a packet or a pass of housekeeping is
one action made of the calls the code makes. A source that is freed and read
again reads as it was left. The loops over a chain, over all chains and over the
packets of a compound are recursive functions (`Chain`, `CreateAll`, `UpdateAll`,
`FormatReportBlocks`, `Reports`, `DeleteFirsts`), each with its step as an operator of
its own (`CreateSource`, `UpdateSource`, `ReportOn`, `AddPacket`, `DeleteFirst`). The
compound is taken to have room for the packets of all senders. Packets may carry our
own SSRC, in any place. A session may go on after its goodbye (`GoOn`: the end is
cancelled by a change of codec, and the next loop works on the same RTP session);
`sendingBye` is the flag of that name, and `lost` remembers that `rtp_update` has
deleted our own source, which a packet with our SSRC makes anew at the head of its
chain.

In every module, the definitions that begin "Mutant of" put a plausible error in
the place of one definition; they are used by no specification and show that each
property notices one.

## 4. Runs: what is checked, within which bounds

| run | distinct states | what it shows |
|---|---|---|
| `ssip_neg` | 76785 | both ends agree (`Agreement`), a one-sided session has one cause only (`HalfOpenCall`), the caller's order of codecs wins (`CallerPriority`), `SsipCall` is implemented (`CallSpec`); both functions return (`BothReturn`), a cancelled call ends (`CancelHonoured`) |
| `audio_buffer_out` | 43504 | `NoOverflow`, `Kept`, and `AudioRegroup` implemented (`RegroupSpec`) |
| `audio_buffer_in` | 7700 | `NoOverflow`, `Kept`, and muting tears no block (`WholeBlocks`) |
| `call_handoff` | 544436 | the two mutexes are a slot for one call (`SlotSpec`); a call that waits for the user has an open dialog, whoever else opens and answers them (`WaitingCallIsAsked`); a call is settled unless the threads wait in one of two named circles (`CallIsSettled`) |
| `sessions` | 188701 | the audio processor runs exactly while there are sessions, and each is a user with a tab (`ProcessorRuns`); each live session has its two queues (`QueuesBalanced`), along every path, failures included |
| `session_io` | 298284 | nothing is used after it was freed, but in the two ways of section 7 (`Quiescent`); `ByeJustified`, `HangUpSaysBye`, `MuteKept`; the interface is free again (`GuiIsFree`), the end is noticed while no codec has changed (`EndIsNoticedAtFirst`) |
| `ssip_proxy` | 27019 | the three processes stay in step (`Lockstep`), a one-sided session has one of the named causes (`HalfOpenThroughProxy`), the two ends still implement `SsipCall` (`CallSpec`), all three return (`AllReturn`) |
| `proxy_directory` | 2775535 | what a program was told is so (`ToldIsTrue`), a program whose loop for calls is off uses the proxy (`NotLeftOff`), `UserDirectory` is implemented (`DirectorySpec`) |
| `proxy_manager` | 9602 | no child reads a file being written (`NoTornRead`), `ChildrenBounded`, and calls are served until the limit is reached once (`ServedUntilLimit`) |
| `proxy_manager_limit` | | a counterexample, see section 7 (`LimitIsLeft`) |
| `audio_processor` | 116190 | nobody misses a block (`SharedOut`), `QueueIsLive`; the interface's waits end (`InterfaceReturns`), the first speaker with data is played (`FirstIsPlayed`) |
| `rtp_sources` | 45765 | `ChainsAreSound`, `ReportsOfKnown`, and reports leave out no source that has sent since the last ones, but after a goodbye that waited (`EverySenderReported`) |

The type invariants and the inductive invariants are proved (section 6) where there
is a proof; in the other modules the type invariant is a conjunct of the first
safety property.

Bounds, and why they are enough:

- `ssip_neg`: two payload types and two values of ms give every way two codecs can
  agree and differ; lists of up to two codecs give order, absence and a change of
  head. One call: a program answers one at a time, and a call shares nothing with
  the next but the list of codecs. The preferred codec changes only in the places
  where `ssip_accept` holds a pointer into the list.
- buffers: sizes 1, 2, 3, 4, 6, 8 contain equal sizes, divisors, sizes with a
  common divisor and coprime sizes; 24 bytes (`MaxBytes`) are at least one full
  turn of every buffer but the longest. The proofs remove the bound.
- `call_handoff`: a caller, the server and the interface, three calls (one in the
  slot, one before it, one behind it), one change of the configuration
  (`MaxRestarts`), and one open dialog when the noise is tested (`MaxDialogs`: the
  test opens a dialog only when none is open; a call may still open a second one). The
  proofs remove the bounds for the safety properties.
- `sessions`: three sessions, enough for the number of a live one to come back
  and for the wrong one of two to be taken.
- `session_io`: one remote (the code asks whether it is the last), two events in
  the queue (`MaxEvents`: a source and its BYE arrive together), one change of
  codec (`MaxChanges`). The proofs remove the bounds for the safety properties;
  with two remotes the state space is out of reach for the liveness properties.
- `ssip_proxy`: one call, as in `ssip_neg`; two payload types and one ms (the relay
  does not read codecs), the user asked for or another.
- `proxy_directory`: one user and two programs that serve him, so that they compete
  for the entry; the first is started twice, the second once, so that there is a
  program that comes back after a crash and one that was there before; one request
  in the queue besides the one served (`MaxBacklog`), so that a request given up is
  overtaken by nothing but followed by its opposite; the loop for calls fails in one of
  the programs only (`MayFail`), so that a working one competes with it. The proofs
  remove the bounds.
- `proxy_manager`: three calls with a limit of two children, so that the limit is
  reached with a call left over. The proofs remove the bounds for safety.
- `audio_processor`: two users, one of which may be the test of the noise, so that
  a list has a first and a second; blocks of three parts, so that a read may be
  short twice; two blocks remembered in a queue (`MaxQueue`), numbered modulo three
  (`Round`), so that a repeated and a missing block differ.
- `rtp_sources`: our source and two others that fall into one bucket of two, so
  that a source is deleted from the start, the middle and the end of a chain, with
  ours last; packets that come from ourselves or one of the others and name any of
  them (`Speakers`), with one block in a report (`MaxReports`); reports of our own with
  room for one block, so that the second sender must wait; the goodbye is said at once
  or after a wait on both sides of `ByeLimit`, and the session may go on after each. The
  proofs remove the bounds (`MaxSenders` may be any number).

`CHECK_DEADLOCK FALSE` stands where the system stops: both functions of a call
have returned, the session is gone or its last report sent, the programs have been
started as often as they may, the administrator has stopped the proxy, the audio
processor has ended, or the threads really wait for one another.

## 5. Fairness

- `SsipNeg`: each function goes on when it can (weak); receiving is strong only
  against the half-second polls that alternate with it; nothing is asked of the
  user or of the network.
- `CallHandoff`: threads go on, negotiations end, the timer fires (weak). One
  strong condition: a user who is asked about the audio device answers, and does
  not press "retry" for ever.
- `SessionIo`: threads go on, the sound card goes on bringing blocks (it is read
  in a loop that ends only with the last session), the interface finishes what it
  began and its timer fires (weak); strong: a source that will not be heard again
  is deleted at some pass of `rtp_update`, since its clock only runs. Nothing is
  asked of the remotes: they may fall silent, say BYE or vanish.
- `SsipProxy`: the two ends as in `SsipNeg`, and the relay goes on (weak). `AllReturn`
  excludes the telephone that rings for ever.
- `ProxyManager`: the processes go on, and calls end (weak); a child gets the lock if
  it is free again and again (strong), since a lock on a file is handed to a waiter
  and the file is held for an instant. Nothing is asked of the administrator or of
  those who call.
- `AudioProcessor`: the thread and what the interface began go on (weak); a mutex
  that the thread gives back again and again is got by the interface (strong),
  because the thread sleeps a millisecond with both of them free. A card that works
  brings blocks; one that has failed is asked for nothing, and `InterfaceReturns`
  names the one place where that holds the interface up.
- `ProxyDirectory` and `RtpSources` state no liveness: whether a request is served in
  five seconds, or a source is heard, is not for the program to say.

## 6. Proofs

Each `*Proofs` module proves `Spec => []IndInv` from `Init => IndInv` and
`IndInv /\ [Next]_vars => IndInv'`, with a step per action and, below it, a step
per conjunct the action can disturb; the properties follow from `IndInv`. The
named `ASSUME`s of the modules are the only assumptions; TLC evaluates them.

- **`SsipNegProofs`**: for any payload types, ms, ports and lists. Why `Agreement`
  needs more than itself: neither end sees the other's return code, so the
  invariant says which packet can be under way at each pair of places (`Asked`,
  `Told`): while the caller runs, the two queues hold one packet together; what a
  caller that has returned leaves behind is a packet and an ERROR (`LeftBehind`).
  Results: `TypeCorrect`, `AgreementHolds`, `HalfOpenHolds`, and `Refinement`, that
  the two functions implement `SsipCall`. `PriorityHolds` rests on an invariant of
  its own (`PriorityInv`): an offer on its way is the caller's list (`Offered`), and
  the codec selected is one of that list, with none before it that the called user
  could take (`Found`). It assumes that a payload type names one codec in each
  caller's list (`PayloadAssumption`).
- **`McmProofs`**, **`AudioBufferOutProofs`**, **`AudioBufferInProofs`**: for any two
  positive sizes. `Mcm`'s invariant holds the two multiples; from it the length of
  the buffer is a multiple of both sizes. The pointers are at multiples of the two
  sizes, so that the writer's pointer, if it is not at the end, is at least a frame
  before it: `NeverOverflows`, in each direction. For the speaker, `NothingLost` adds
  that each byte is in its place and what is gone is whole blocks, and `Regrouped`
  that the buffer implements `AudioRegroup`. For the microphone the bytes have no fixed
  place, since muting takes blocks out: `ContentInv` says that what is held, the
  block that may still be thrown away included, is in the order of capture, that it
  begins where the last frame ended and ends with a block, and that it is all from
  before what is queued. From it follow `NothingLost` and `MutingTearsNothing`.
- **`InterfaceProofs`**, the hand-off: for any number of calling threads, calls and
  reconfigurations. `CallsApart` (a thread at the second mutex has the first one,
  and no two threads the same call) and `SlotIsPut` tie the flags to the slot;
  results `MutexHolds`, `AskedHolds`, and `HandoffRefinement` to `CallSlot`.
- **`InterfaceProofs`**, the sessions: for any finite set of sessions and any numbers
  they draw. `QueuesBalanced` speaks of live sessions only and is not inductive:
  sessions and queues are found by the first entry with a number, and numbers
  repeat, so that the queue freed may be that of another session. `SessionsInv` counts
  instead: each number is as often in the two lists of queues as in the list of sessions
  (`Balanced`), the users are as many as the sessions and the tabs (`Counted`), and
  the processor runs exactly while there are any (`Running`). What appending to and
  removing from a list does to a count are lemmas. Results: `ProcessorRunsForSessions`,
  `SessionsHaveQueues`.
- **`InterfaceProofs`**, the audio processor: for any users, parts of a block and lengths of
  queues. `SharedOut` needs to know where the thread is in its
  list while the interface takes entries out before and after it: `ThreadInv` says
  which entry the thread holds, `BlockInv` that the blocks of a queue follow each
  other and which is the last, by whether the thread has been there in this round;
  `ListInv` that a queue is in a list, and exists, exactly from the step that makes it
  to the one that takes it out; `CountInv` that the count of users is that of those who
  are between the two, so that the thread is joined when there is none. Results:
  `SharedOutToAll`, `QueuesAreLive`.
- **`SessionProofs`**, the threads: for any remotes, events and changes of codec.
  `Ended` says
  where the threads are when something is freed; `ByeHasReason` that `bye` is only
  set for a reason once it has been assigned; `StopsByItself` that a thread that
  stops unasked does so because of a BYE; `HangUpIsKept` follows the user's BYE
  through the end of the thread; `MuteIsSaved` the button through a change of
  codec. What `Quiescent` excepts is named in it: `rtp_done`, and a sending thread that
  could not be created; the proof shows that there is no third way. Results:
  `NothingUsedAfterFree`, `ByesHaveReasons`, `HangUpHeard`,
  `MuteStays`.
- **`SessionProofs`**, the sources of RTP: for any SSRCs, and any size of the table and of a
  packet of reports. `ChainsAreSound` speaks of the chains as they are followed; the
  invariant `RtpInv` speaks of single links instead (`Linked`): they agree in both
  directions, every chain has its own sources, and every set of sources has one whose
  predecessor is outside it, so that going back ends and there is no ring. A step of
  `create_source` or `delete_source` changes a few links, and `LinkingLinked` and
  `UnlinkLinked` show that `Linked` survives. From `Linked` follows what a walk along a
  chain finds (`ChainIs`), that a source is found exactly when it is kept
  (`KnownIsKept`), and that the list of all has each once, none before its predecessor
  (`ListedIs`). `MeIsLast` says that our source is the last of its chain unless
  `rtp_update` has deleted it (`lost`). `rtp_done` deletes the first of a chain, once for
  each of its sources that is not ours (`FirstIsBefore`, `FirstIsNotOurs`), and then
  our own: this is why none is left, or one at most when ours was lost (`DeleteFirstsSound`).
  For the reports the invariant has that, while the session is
  open and has not waited to say goodbye (`sendingBye`), `sender_count` is at least
  the number of senders, although `delete_source` never
  decreases it: so the search stops for want of senders only when there are none
  (`FormatReportBlocksSound`), and each packet has a block until then (`ReportsSound`).
  The recursive functions are reasoned about with one lemma about recursion over
  `0 .. n` (`Recursion`, `Follows`), whose induction is over a set and not an operator
  (`UpTo`). Results: `SourcesInductive`, `ChainsStaySound`, `ReportsAreOfKnown`,
  `SendersAreReported`.

- **`ProxyDirectoryProofs`**: for any users, programs and restarts. `ToldIsTrue` is not
  inductive: the answer under way and the requests in the queue decide what will be
  told. The invariant says that a program has one live request at most, the one it
  waits for, under the type and password of what it waits for (`QueueInv`); that the
  answer about to be given agrees with the file (`ServedInv`); and that an answer
  under way, or taken, agrees with it too, with no request of that program left to
  undo it (`ToldInv`).
  Results: `ProgramsKnow` and `Refinement` to `UserDirectory`; and `OffHaveProxy`, from
  an invariant that ties the loop to the configuration in use.
- **`ProxyProofs`**, the relay: for any lists of codecs and users. The relay reads the
  two ends in turn, so the invariant says whose turn it is (`CalleeLeg`, `CallerLeg`):
  while the caller waits each leg has one packet at most, and the called side's leg
  has one only when it is the turn of that side. `Asked` and `Told` are those of
  `SsipNeg`, for a packet that may be on either of two legs; `Byes` ties `next_bye`,
  which ends the loop, to the place of the caller whose BYE it was, without which
  the BYE of one end could end a call that the other still negotiates. A caller that
  gives up leaves an ERROR behind its last packet (`LeftBehind`), which the relay
  passes on: that is why a called side at its last wait cannot take what comes next
  for the caller's BYE (`Closing`). A relay that fails at the end tells the caller
  ERROR, which the caller does not look at (`CallerHolds`, `ssip_neg.c:1321`): hence the
  exception `errorToCaller` in the mapping to `SsipCall`. The queues are unfolded only
  in lemmas about one packet (`OnePacket`, `TailErrors`, `Prefix`), and the search for a
  codec only in `OfferCases`. Results: `InLockstep`, `HalfOpenThroughProxyHolds`, and
  `ProxyRefinement` to `SsipCall`. It assumes that the lists are lists of codecs and
  that `NoCodec` is none (`CodecListAssumption`, `NoCodecAssumption`).
- **`ProxyProofs`**, the processes: for any calls and any limits. The lock, the emptied file
  and the place of the writer are tied together, and the counter is the number of
  children ever forked, so that it bounds those at work. The readers are excluded
  by `writer` alone, which a signal during the wait leaves unset: that is the
  exception in `NoTornRead`. Results: `ReadsAreWhole`, `ChildrenAreBounded`.

`THEOREM`s that state a property of a run are listed in `PROJECT.json`.

## 7. Where the code and its documentation disagree

A run shows this one as a counterexample:

- `proxy_manager_limit`: the documentation says that the end of a child sends SIGCHLD
  to its father, which then waits for it and decreases its counter
  (`docs/src/implementacion.tex:1576`). The manager does not register for that
  signal (`ssip_proxy.c:486`), so that after `num_forks_manager` calls it waits for
  room for ever (`ssip_proxy.c:526`).

The others were met while modelling. The models contain the behaviour, and the
properties are stated so that they hold in spite of it:

- A thread keeps `mutex_session_ready` while it waits for the slot, and the timer that
  empties the slot needs that mutex (`gui_ssip_neg.c:549`, which says the main loop
  unlocks it). A second call that comes before the timer has taken the first stops
  the program: one of the two circles in `CallIsSettled`.
- A change of codec counts the sources from 1 again, and then the end of the
  conversation is not noticed (`io.c:474`; `docs/src/implementacion.tex:1092`). Hence
  the "at first" of `EndIsNoticedAtFirst`.
- Two sessions get one number (`gui_session.c:1331`; `docs/src/diseno.tex:184`), and
  ending the second ends the first. `QueuesBalanced` holds all the same.
- The tab on top is removed, whichever session ends (`gui_session.c:1115`;
  `docs/src/diseno.tex:59`). `ProcessorRuns` counts tabs and does not name them.
- Codecs moved before the head that `ssip_accept` holds are not found
  (`gui_configuration.c:575`; `docs/src/diseno.tex:227`).
- A CONNECT_ERROR is not read while the telephone rings (`ssip_neg.c:302`;
  `docs/src/diseno.tex:235`).
- The mixing of several speakers (`docs/src/diseno.tex:109`) takes place on paper: the
  loop over the samples moves the index of the loop over the queues
  (`audio_processor.c:347`), so that only the first queue with data is served on
  each round. Hence `FirstIsPlayed`, about the first.
- A part of a block followed by an error or the end of the device leaves the thread in
  its loop with the mutex of the microphones held (`audio_processor.c:298`). Hence
  the exception `Stuck` in `InterfaceReturns`.
- `init_ssip` with a proxy announces the user and returns before it starts the loop
  that answers calls (`gui_ssip_neg.c:332`); the toolbar's "online" does not start
  it either, only Apply does. `NotLeftOff` says that there is no other way to be left
  with the loop off. It may also fail to start (`gui_ssip_neg.c:816`), and its thread end
  at once (`gui_ssip_neg.c:371`); `set_ssip_options` does not look at the result
  (`gui_configuration.c:171`), so that a program without a proxy may be deaf and not know.
- A dialog opened by the test of the noise (`gui_main.c:1070`) has the callback of a
  call's dialog. Refused with no call in the slot it leaves `conection_reject` set, and
  the next call that finds the device busy is refused unasked (`gui_main.c:917`).
  `SlotSpec` holds: that call is settled, once. `WaitingCallIsAsked` is about calls that
  nobody has refused.
- `rtp_done` reports every remote it deletes to `handler_rtcp_event`, whose data is in
  the frame of `session_io_loop` (`io.c:471`), and that function has returned when
  `destroy_session` comes to it (`gui_session.c:1149`). The event is written through what
  is left of the frame (`io.c:139`).
- When the sending thread cannot be created (`io.c:537`), the buffers and the queue are
  freed although the receiving thread uses them, and it is not waited for: the join is
  of the thread that was not created. The second exception in `Quiescent`.
- A session whose loop has said goodbye may be restarted by a change of codec
  (`io.c:668`, `gui_session.c:390`) on the same RTP session. `rtp_send_bye` marks our own
  source, and `rtp_update` deletes it like any other (`rtp.c:2564`); a BYE that names our
  SSRC has the same effect (`rtp.c:1117`). A packet with our SSRC makes it anew, at the
  head of its chain, and `rtp_done` then leaves a source behind, because it takes for granted that
  ours was added first (`rtp.c:2693`). Hence `lost` in `ChainsAreSound`.
- `rtp_send_bye`, when it waits, resets the count of senders but not their flags
  (`rtp.c:2638`). If the session goes on, the next reports may leave a sender out. Hence
  `~sendingBye` in `EverySenderReported`.
- Apply, with a proxy already configured, leaves the place it has just taken
  (`gui_configuration.c:131`) and reports success.
- The password of an entry is kept in memory until the user saves the preferences, and
  the end of the program does not save it: a program that crashes, or is ended while
  the proxy does not answer, finds its user taken by itself and cannot free him.
  `DirectorySpec` holds: he is reached at one program, which is not there.
- The handler of SIGUSR1 waits for children with a counter that it never decreases
  (`mgr = "spin"` in `ProxyManager`).

`HangUpSaysBye` also names an exception: the user who ends a session before its
thread has executed `asession->bye = FALSE` (`io.c:548`).

## 8. Limits

Only model-checked: liveness (`BothReturn`, `CancelHonoured`, `CallIsSettled`,
`GuiIsFree`, `EndIsNoticedAtFirst`, `AllReturn`, `ServedUntilLimit`,
`InterfaceReturns`, `FirstIsPlayed`), which with ENABLED is beyond the prover. Every
invariant and every action property of the runs is a theorem. The theorems of
induction take an operator as a parameter, which the prover cannot instantiate;
where an induction is needed it is over membership in a set (`UpTo`), or looks for the
first entry of a list with a property (`LeastElement`), and follows from the theorem
about minimal elements of well-founded relations, which takes no operator. There are
no RECURSIVE operators in the modules: a loop is a recursive function, or its steps
are actions and an invariant says what it computes.

Left out of the modules:

- the 32-bit product in `mcm` and sizes of zero (the codecs and the sound card have
  none); the samples themselves; the text of packets, dialogs and SDES items;
- in the proxy: the rewriting of names, hosts and ports; what an administrator edits in
  the users' file, which `add_user` and `del_user` lose because they read the file
  before they lock it; a crash of the process of notifications between emptying
  the file and writing it, which loses all entries; a `recv` in that process, which has
  no limit of time; `init_ssip` with an incomplete configuration, and a proxy in the
  dialog that is not the one in the configuration;
- in `rtp.c`: which sequence numbers `update_seq` accepts and when the timers of RTCP
  run out, both nondeterministic; the contents of SDES; encryption;
- in `io.c`: sequence numbers, timestamps and the filling of gaps in
  `handler_rtp_event`; the array of ten SSRCs, which is indexed by a count that grows
  with the sources (`io.c:592`);
- in `net/`: SIGPIPE, which the program does not handle, and which ends it when it writes
  to a connection that its peer has closed; in the models such a write fails;
- memory that is freed and then read, where the code has it: the effects of a session
  in `session_ready.despass` (`gui_main.c:912`), a session whose dialog is answered after
  its end (`gui_main.c:685`); a connection that stays open when the configuration
  is incomplete (`gui_ssip_neg.c:447`).

Taken for granted: that the file of the lock can be opened and locked
(`ssip_proxy.c:89` does not look at the result; `NoTornRead` rests on it); that a call
a child relays ends (`ServedUntilLimit`, section 5); that the sound card brings blocks,
without which no join of a session's sending thread ends (`GuiIsFree`, section 5).

Not modelled: the address book and the widgets, which are sequential and keep nothing
that outlives a dialog; the sound card and the UDP sockets, which wrap system calls
(their results are choices of `AudioProcessor` and `SessionIo`); the conversions,
codecs and effects, which are arithmetic on samples; `crypt/`, `gsm-1.0` and
`speex-1.0`, which are third-party code and about half of the lines of the repository.
