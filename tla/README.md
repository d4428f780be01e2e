# TLA+ models of Baxters Stereo Mix

Stereo Mix records what the computer plays. A window (or a control server, or
an agent server) opens an audio device, moves the frames through bounded queues
between tasks, encodes them and writes a file. Each stage is simple; what is
hard is how the stages start, stop and fail together. These modules model that
part of the code. All paths below are relative to `src/`.

| Module | Models | Checked by | Proved in |
|---|---|---|---|
| `Recording` | what any recording promises (abstract) | `IsRecording` | `Session_proofs` |
| `Session` | one `RecordingSession`, its tasks and queues | `MCSession` | `Session_proofs` |
| `Recorder` | the window's recorder and its device | `MCRecorder`, `MCRecorderHeader` | `Recorder_proofs` |
| `Dispatcher` | the control server's recorder, one connection | `MCDispatcher`, `MCDispatcher*.cfg` | `Dispatcher_proofs` |
| `Server` | accept loop, handlers and telemetry streams | `MCServer` | `Server_proofs` |
| `AgentServer` | the agent server's sessions map | `MCAgentServer`, `MCAgentServerDead.cfg` | `AgentServer_proofs` |
| `Negotiation` | the choice of a stream format | `MCBackend` | `Backend_proofs` |
| `Backend` | the device backend and its capture threads | `MCBackend` | `Backend_proofs` |
| `Flac` | the FLAC encoder, with a reference decoder | `MCMuxer` | `Muxer_proofs` |
| `Muxer` | the WAV, MP3 and FLAC muxers | `MCMuxer` | `Muxer_proofs` |
| `Launch` | the instance locks and the settings files | `MCLaunch` | `Launch_proofs` |

`PROJECT.json` holds, for every definition, the source lines it stands for; for
every property, a mutated definition that breaks it; the hazards, each at its
line; and the findings.

## 1. Inventory

There are six crates. Every component keeps its state in memory; what survives a
process is the recorded files, `config.json` and the single-instance lock file.

**Recording session** (`bsm-encode/src/output.rs`). State: a PCM channel given by
the caller, the packet channel, a broadcast shutdown channel, three task handles,
the muxer and its counters. Operations: `start`, `stop`, and the encoder, mux and
forwarder tasks. Hard: the two tasks select on the shutdown *before* their queue,
the encoder sends outside its select, `start` can fail after it has spawned a task, a
packet that was answered `Ok` may only be held. Correct when the file is the input in
order, but for what one failed write lost, the loss is bounded, and every way of ending
comes to an end.

**Encoder task** (`encoder.rs`). Takes a frame, makes a packet, publishes
statistics. Run by the session and by the dispatcher, and modelled in both, since
the two attach different things to its ends.

**Desktop recorder** (`bsm-ui/src/window.rs`). State: the pipeline behind a mutex,
the monitor task and its flag, the recording's handles and flag, the path. The
operations are clicks (Record, Pause, Stop, device, sample rate), run on the UI
thread, and three kinds of task. Hard: monitor and captures share one mutex and one
device channel, `stop_recording` joins the mux task but not the capture, files are
named by the second, the requested and the actual format differ.

**Capture pipeline and backends** (`bsm-audio/src/pipeline.rs`, `wasapi.rs`,
`monitor.rs`, `loopback.rs`, `backend.rs`). State: requested format, the device's
channel, the capture thread. `open`, `start`, `next_frame`, `stop`, `close`. Hard: the
thread blocks on a full channel; an abandoned `next_frame` leaves its blocking task
behind; the format of the stream is negotiated; a loopback looks for a message only.
Correct when frames come in order and none is lost but to an abandoned call, replaced
threads end, and `next_frame` returns.

**Control server** (`bsm-ipc/src/server.rs`, `dispatcher.rs`, `telemetry.rs`). The
server: an accept loop, a handler per connection, telemetry streams, a shutdown flag.
Hard: the flag is looked at between blocking calls only, the pipe has to be woken, a
stream may fall behind, a reply blocks on a client that reads nothing. A dispatcher per connection: recording state, the channels and
the counter of the latest recording, frame counts, a tokio runtime of its own.
Operations: the commands, the tasks of each `StartRecording`, and the shutdown with its
time limit. Hard: a second `StartRecording` replaces the handles of tasks that still
run; the counter and the notification are two steps; the runtime is dropped on a thread
that runs async code (Unix), or waits there for a call of the device (Windows).

**Agent server** (`bsm-encode/src/ipc.rs`). A map of sessions under a tokio mutex, a
task per connection, a timer per session. Start, Stop, Status. Hard: the path, the
limit and the entry are three steps; ids have a resolution of a millisecond; Stop
keeps the lock while it awaits.

**Muxers and FLAC encoder** (`muxer.rs`, `flac_enc.rs`). The file formats: sequential,
with header fields patched at the end and 32-bit sizes. Hard: writes that fail in the
middle, arithmetic at the width of a sample, codes and sizes at their limits. Correct
when the file reads back as what was recorded, whatever failed before.

**Start and settings** (`bsm-ui/src/main.rs` and `UiConfig` in `window.rs`;
`bsm-core/src/instance.rs`, `config.rs`). A lock, as a TCP port or as a file, and a
settings file, written in place. Hard: a crash between any two steps. Correct when no
two processes are past the lock and completed saves survive as long as they can be read.

**The rest.** Encoder probe (a table), mock and null backends, the HRT bridge
(`connect_to_hrt` always fails on Linux), the instance registry, the telemetry client,
logging, theme and packaging. None has an interleaving of its own that a program of
this repository runs; section 13 says more.

How they interact: the window and the dispatcher both *call* the pipeline and own the
tasks that read it; the agent server *owns* sessions and talks to them only through
channels that it drops; the server *runs* dispatchers, which emit to its broadcast; sessions, captures and generations end each other by dropped
senders and receivers as much as by signals, and that is where most hazards are.

## 2. Session, and Recording above it

`Recording` is what a reader of the crate expects: frames are accepted and taken in
order, until one fails; what was taken reaches the file in order, sooner or later; the
file is closed once, and the summary counts what was taken and what failed. It says how
far a file may fall short: one without a failure has no hole, and all that was taken if
it is well formed (MP3: all but what LAME keeps); behind a failure a WAV file still has
no hole, a FLAC file may have one with nothing behind it but the rest of the frame that
failed, an MP3 file may have one anywhere. It has no queue, task, buffer or signal.

`Session` has the PCM queue (`pcmq`), the encoder (`enc`, `hold`), the packet queue
(`pktq`), the mux task (`mux`, `disk`, `written`, `dropped`), the file and what its muxer
keeps from it, the external signal and its forwarder, the session's signal, and the
caller. The muxer is the part of `Muxer` that a session sees: `write_packet` answers `Ok`
for a packet that it may only hold (`held`: the writer's buffer, FLAC's block, LAME's
reservoir), and a write that fails may lose held packets that were counted before, since
FLAC has drained its block by then; the rest of the packet (`behind`) is written at
`finalize` behind the hole. `container` says which of this can happen. `Muxer` has the
same at the level of samples, blocks and bytes. A frame is the number
of its arrival, since the properties only ask which frames arrive, and in which order.
A tokio channel is a bounded sequence plus "is the other end alive": a receiver is
dropped exactly when its task ends (`enc = "done"`, `mux = "done"`), a sender when its
owner is done. The broadcast shutdown is one bit, raised by a send or by the loss of
the last sender, because `recv()` returns in both cases and the code ignores which.
`start` is three steps (refused / encoder spawned / mux opened or not), as the encoder
runs while the file is being opened; `stop` is three (signal, encoder awaited, mux
awaited).

Shown by the run `session`: `LossBounded`, `IsRecording` (the refinement), and five liveness properties. The last say that `stop` returns though the
encoder may sit in a send that nobody drains (what frees it is the mux task's receiver
being dropped), that the external signal is enough, that the end of the input drains
both queues, that a failed start leaves no encoder and that a blocked feeder is freed.
`SignalEndsWork` says how soon: both tasks look at the signal before their queues
(`biased`), so that after it nothing more is written and at most eight steps of the tasks
and of `stop` are left, with full queues and a feeder of any speed; and that `stop`
returns when none is left (`StoppedMeansQuiet`).

Note what `InputDrains` does not say: when the input ends, the mux task does *not* end.
Its `else` branch can never be taken (the shutdown branch's pattern always matches), so
it waits for the shutdown. The model has no action for it.

`LossBounded` counts the places where a frame can be lost: the queues, the encoder's
hand, the failed write, and the muxer's buffers, whose size is the constant `HoldCap`
(in the code, packets that fit into 8 KiB of `BufWriter`, a FLAC block of 4096 and
LAME's delay). So it is not a promise that little is lost, but that nothing else is.

Bounds: a PCM queue of 2, a packet queue of 1, a muxer that holds 2, so that a failed
write can lose none, some or all that is held, and 8 frames, one more than all places
together (2 + 1 + 2 + the encoder's and the failed write's), so that everything can be
full while a frame waits outside.

## 3. Recorder

State: the device (`dev`, `devFmt`, `devq`), the pipeline mutex (`holder`), one record
of control per reading task (task 0 is the monitor, task r the capture of recording
r), one queue and mux task per recording, the files *by name*, and the UI thread
(`ui`). Name collisions matter, so a file is indexed by the second that names it. The
monitor and the captures run the same loop and share `Reader`; they differ in what they
do with the frame. A frame carries its number and its format.

The UI thread does one thing at a time; each place where it can block (joining the
monitor, waiting for the mux task, taking the mutex) is a value of `ui`. The mux task's
200 ms of polling followed by `abort` and an await is one wait: `abort` does nothing to
a blocking task that has begun to run.

Shown by `recorder`: one mux task at a time,
frames in order and never twice over the mutex, stop and the next recording, and the
buttons return. `RivalsLeave` bounds what others take from a recording: no monitor is there
while it is shown (`MonitorNotRacing`), and the capture of a stopped recording, which is
not joined, takes one more frame at most, since no step takes it round its loop again.

Bounds: two recordings (the old one's capture against the new one's), two seconds (the
clock may or may not tick between them), four frames, queues of one place. Formats:
one, but two in `recorder_header`. That run's module keeps two histories, whether the
device gave the format it was asked for and which files were begun with such a device,
and not opened again since: for these the header ought to describe the frames.

## 4. Dispatcher

A *generation* is one call of `spawn_background_tasks`; all state of its tasks is
indexed by it and `cur` is the one whose handles the dispatcher holds. This makes the
replaced generation visible, which the code no longer can see. `active` is the counter;
`TaskDone` is its decrement with the notification. `shutdown_with_timeout` is split
where another task can step in: load, become a waiter, be woken, time out, drop the
runtime. Queues are counts, because nothing depends on what is in them.

`os` is the transport. On Unix the shutdown is the async one, and dropping the runtime
is what tokio makes of it: its drop panics on a thread that runs async code, whether or
not the tasks have ended, hence the end `"panicked"` when a recording was ever started
and `"over"` when none was. On Windows the handler runs on a blocking thread and polls
the counter, and the drop waits (`"waiting"`) for the calls of the device that nobody
cancels: an open, and the blocking receive of a `next_frame` whose future was dropped.
`left` has the generations with such a call; it returns by `DeviceAnswers`, or never.
Both ends of a connection, its shutdown and its close, drop the runtime like this.

Shown by `dispatcher`: a generation without handles has been signalled; `true` means
that the tasks have ended with the backend stopped; the reported total covers the
recording. Shown by `dispatcher_tasks`: signalled tasks end, if the device answers the
open; metering does not stall; the wait of a shutdown ends at the drop of the runtime,
and a drop that never returns has a call of the device that never returns
(`ShutdownEnds`). So the time limit bounds the wait, and not the drop after it (section 11).

Bounds: two generations with one-place queues and one counted frame for safety (two
generations overlap; a third adds no relation that two do not have). For liveness one
generation, queues of two and two counted frames; uncounted frames keep coming without
bound, so the queues fill and drain.

## 5. Server

`acceptor` is the accept loop at its await and blocking points, `waiting` who has
connected and was not taken, `handler` each connection's task, and `emitted`, `from`,
`next`, `got` are the broadcast: events are numbered, and a receiver is its next number.
On Unix the loop awaits a socket with a backlog; on Windows it creates an instance of the
pipe, waits until a client has opened it and starts again, and two tasks open the pipe
themselves to wake it after ctrl-c. Lines are counted, and what one says (a command, the
start of a recording, nothing, a subscription) is chosen when it is read. What a command
does is `Dispatcher`; here it emits.

A handler waits in three places for others: for a line; for room for a reply, the
acknowledgement of a subscription, the answer to a shutdown or an event; and, on Windows,
in the drop of its dispatcher's runtime (`runtime`), for the device. The last is what
`Dispatcher` calls `"waiting"`, and the panic of the drop on Unix is the end `"done"`
without a reply.

Shown by `server`: what a subscriber is sent has no gap, a stream that fell behind ends;
the accept loop ends with the next connection after ctrl-c; streams end; and if the acceptor never comes to its end, it waits for ever for a client
that neither sends nor leaves, or does not take its replies or events, or for the device
of a recording, and for nothing else.

What it does *not* say is as important: on Unix ctrl-c ends nothing until somebody
connects, and the drain of the pipe's handlers waits for an idle client for ever.

Bounds: two clients (one may hold up what the other waits for), a broadcast of one event
and two events, so that a stream keeps up, lags or is at its limit; one line each, which
brings a handler to each of the places where it can wait. So a recording and a
subscription are on two connections; what a subscription leaves of a recording on its own
is in `Dispatcher` (`ConnectionEnds`).

## 6. AgentServer

A request is a connection and takes its steps at the code's lock and await points. The
map is `entries`; `holder` is non-empty only while a guard lives across an await (Stop,
Status and the refusal); a lock that is taken and released within one poll is part of
one action guarded by `holder = {}`. A session is running, ending or ended: what
happens inside it is `Session`, whose liveness (`ExternalSignalEnds`,
`StopEventuallyReturns`) is what justifies that an "ending" session ends.

Shown by `agent`: an id that a client was given can be stopped; every request that was
read is answered or closed, despite the lock kept over an await.

Bounds: three requests, two of them from one peer; limits of one per peer and two in
all, so both are reached; two names; two milliseconds, so ids may collide or not.

## 7. Backend and Negotiation

Each successful open makes a frame channel, a stop channel and a thread; all are indexed
by the open, and `rx` and `stopTx` say which one the backend holds. Re-opening drops the
old receiver and the old stop sender. A channel has a receiver while the backend holds it
or an *orphan* lives: the blocking task of a `next_frame` whose future was dropped, as
the dispatcher's select does.

There are three kinds of thread. The monitor's loops over the check of its stop channel,
the read and the send. It looks for a *message*, so the loss of the stop sender does not
end it, but the loss of the receiver does, at its next send. The Windows loopback's has
the same loop, but sends only when something plays. An input's thread builds its stream, whose callbacks send, drops it at once
(section 11) and waits to be stopped. The format comes from `Negotiation`, the selection
of `open_device`: of the configurations with the channels asked for, or of all, the first
with the least score. Whether the stream can be built is whether the device offers it. `Recorder` covers the end of such a
stream by `DeviceLost`, and `Dispatcher` by `StreamEnds`.

Shown by `backend`: frames are returned in order and none is missed but for an abandoned
call; the thread of a replaced or dropped device ends from wherever it is; `next_frame`
returns; the rate is within the bonus of the bit depth of the one asked for, when the
device has that. One case is excluded from the second: a loopback that was replaced
without a stop, on an endpoint that plays nothing. It sends nothing, so it sees neither
that its receiver is gone nor a stop that never came, and is left behind until
something plays.

Bounds: two opens of any kind, one place in a channel and two frames per thread, so
that a send blocks; one abandoned call per channel; two machines, one with a monitor and
an input where the bonus beats the exact rate, one with the loopback and an input whose
stream cannot be built.

## 8. Flac and Muxer

`Flac` is the encoder to the bit: the frame header with its codes, the number of one to
five bytes, the CRC-8 over the header and the CRC-16 over the frame, constant, Rice and
escaped subframes, and a decoder written from the format. STREAMINFO is its fields.
Checksums go byte by byte, as the code's do, and so does the division that checks them.

`Muxer` is `WavMuxer`, `Mp3Muxer` and `FlacMuxer`, one action for each packet, block and
patch. A write may leave all of a piece, nothing or a part of it, the caller may go on or
finalize, and the process may end. A WAV packet is its bytes; its size wraps at `Wrap`,
which stands for 2^32. The part that a failed WAV write leaves is in the file and in no
count of the muxer (`stray`). The output of LAME is the samples it codes, held back as
long as it likes; the flush at the end may leave some of them in the encoder, as
`FlushNoGap` gives whole frames only.

Shown by `muxer`: every piece in the file is read back as what was recorded at its place,
through header, subframes and checksums, even behind failed writes (`FramesInPlace`); the
header of a frame reads back at the numbers and sizes of real recordings, and the nearest
bitrate is chosen (`HeadersRead`, part of it); nothing is missing without an error, but
for what LAME keeps (`FileAccounts`). The same property says what a finalized header
tells: for FLAC the time that was recorded, blocks that are missing included; for WAV the
bytes of the packets that were answered `Ok`. After a failed write that is less than the
file has, by less than a packet for each error, and the bytes in between are played. Packets are at most a block
long, as they are from every backend here.

Bounds: samples of 4 bits, where two neighbours can differ by the whole width as they can
at 16; blocks of 3; the limits of the quotient and the parameter scaled with them (2 for
128 and 14), so that constant, Rice and escaped subframes all occur. Two full blocks and
a shorter one, mono and stereo, packets of 1 and of 3, rates with every kind of code;
sizes wrap at 20. Frame numbers and block sizes on both sides of every boundary of their
codes are given to `HeadersRead` as they are.

## 9. Launch

The window's program locks a TCP port and keeps `config.json`; the core library offers a
lock file and `config.toml`. `program` chooses which. A process takes the lock, loads,
saves, quits or crashes at any step; the port goes with the process, the file stays until
somebody removes it.

The window reads every error of the bind as "already running" (a foreign program on the
port, say), so a process may be refused at any time, which changes nothing. It also reads
every error of `config.json` as no file, and saves its defaults over it (`LoadUnread`, the
history `unread`); the library does so only when `exists()` answers false.

Shown by `launch`: no two processes are past the lock, also after crashes and refused
starts, and a lock is left behind only by a process that crashed, and only as a file;
settings that were saved completely stay over crashes, failed saves and starts that can
read them, until others are chosen.

Bounds: three processes and three values of the settings, both symmetric: one process
finds a lock that passed between two others.

## 10. Fairness and deadlock

Fairness is assumed of the program only, never of users, clients or failures.

- `Session`: weak fairness of every task and of `stop` once called: tokio polls a task
  that was woken.
- `Recorder`: the same for the reading tasks, the mux tasks and the UI call in
  progress, and for `Deliver`: a live monitor source sends silence when nothing plays.
  The bound on frames ends that, which `ControlsReturn` names (`produced = MaxFrames`).
  No fairness for the UI's turn at the pipeline mutex in `SelectDevice` and
  `SelectRate`: `std::sync::Mutex` promises no turn to a thread that waits while another
  unlocks and locks again, so nothing is claimed about those clicks. (When a recording
  starts, the monitor has been joined and an old capture has its stop flag set, so the
  lock does become free and stays so.)
- `Dispatcher`: weak fairness of every task and of the passing of five seconds; strong
  fairness of the pipeline's shutdown branch, because it is enabled only when the loop
  is at its select, and `tokio::select!` without `biased` takes a ready branch at
  random. None for the device: an open may not return, it may go silent for ever, and a
  call that was left behind may never come back.
- `Server`: weak fairness of the wakes, the accept loop and the handlers. A pipe instance
  that was opened is answered for, by success or failure. None for clients (not even to
  take what they are sent, replies included), for the device whose calls a dropped runtime
  waits for, for ctrl-c and for failing accepts.
- `AgentServer`: weak fairness of a request once read (the tokio mutex is a fair queue)
  and of the end of a session that was told to end. Clients are assumed to take their
  replies: a reply is written with the lock held.
- `Backend`: weak fairness of threads and blocking receives, and of the monitor's read (a
  monitor source sends silence); strong fairness of the drop of a stream, since the
  dropped stream makes no new callback after the one that runs. None for the callbacks of
  an input device, for packets of a loopback, for failures and for the caller.
- `Muxer` and `Launch` have no liveness: a muxer moves when it is called, a process when
  its user acts.

Deadlock is checked in `recorder`, where the UI can always click, and in `launch`, where
a process can always start. The other systems may really stop (a stopped session, a closed
connection, the last request answered), and their configurations say so.

## 11. Findings

Each is a run that expects a violation of one property quoting the code.

- `recorder_header`: a sample rate chosen while a device is open changes the next
  file's header, not its frames (`window.rs:178`, `pipeline.rs:25`): the device gives the
  rate it was opened for, another is selected, and the recording begins without another
  open.
- `dispatcher_wakeup`: the last notification is lost between load and wait; the
  shutdown times out over finished tasks (`dispatcher.rs:345`).
- `agent_session_dies`: a session started by the agent server is told to end by the
  end of its own request (`ipc.rs:131`).

Modelled as they are, without a run:

- Two recordings in one second have one name, and the second truncates the first
  (`window.rs:180`, `muxer.rs:67`).
- The previous capture may read one more frame (`window.rs:204`); two starts may resolve
  one path (`output.rs:40`); Pause in the window sets a flag that no task reads
  (`window.rs:471`).
- The stream of an input device is dropped right after play, not when it is stopped
  (`wasapi.rs:383`, against the comment at 387). An input device records next to nothing;
  the monitor, the default, is not affected.
- The channels of the stream are those of the first configuration with the chosen sample
  format, not of the chosen one (`wasapi.rs:295`).
- A pipeline that fails to open, or loses its device, ends its task and tells nobody: the
  dispatcher still answers that it records (`dispatcher.rs:171`).
- On Unix ctrl-c takes effect with the next client (`server.rs:224`); `ConnectNamedPipe`
  answers 0 for a client that was quicker, which is cut off (`server.rs:76`).
- On Windows a shutdown with a time limit waits in the drop of the runtime for a device
  that does not answer, and returns neither `true` nor `false`, as the comment at
  `dispatcher.rs:293` says it does (`dispatcher.rs:317`).
- An intact `config.json` that a start fails to read once is overwritten by defaults, though
  the comment at `window.rs:123` speaks of no config on disk (`window.rs:39`).
- A FLAC block that fails takes packets with it that were counted as written, and the
  summary is not corrected (`muxer.rs:248`, `output.rs:129`); what a failed WAV write left
  is played and not in the header (`muxer.rs:80`).

Met while reading, outside the models: `sample.abs()` overflows for -32768
(`window.rs:222`); the socket file is never removed, so the next bind fails
(`server.rs:220`); if ctrl-c cannot be registered the flag is set at once
(`server.rs:206`); a render mix of 24 bits is captured as silence (`loopback.rs:80`).

Not findings: `bsm-ipc` is not linked into the application, and `ROADMAP.md` declares its
stubs (the dispatcher's pause, its device selection, the discarded recording). The
model has them as they are.

## 12. What is proved

Every proof assumes of the constants only what the `ASSUME` of the module says
(`CapAssumption`, `RecorderAssumption`, `DispatcherAssumption`, `ServerAssumption`,
`AgentAssumption`, `BackendAssumption`, `LaunchAssumption`, `FlacAssumption`,
`MuxerAssumption`, `CodecAssumption`: capacities and bounds are natural numbers, queues
hold at least one, a device has configurations, a packet is no longer than a block, a
sample has at most 30 bits, and a FLAC recording has a rate and a length that the header
of a frame has room for). In each module an inductive invariant `IInv` is shown to hold
initially and to be kept by every step, action by action, and the properties follow from
it.

**Session** (`TypeCorrect`, `BoundedLoss`, `QuietAfterStop`, `ImplementsRecording`,
`SignalIsTheEnd`).
`LossBounded` is not inductive: nothing in it says where the missing frames are. `IInv`
does. `Chain` says that what the muxer took, the failed write, packet queue, encoder and
PCM queue are consecutive numbers and together account for every frame fed; each queue is
bounded by its capacity (`TypeOK`), and the rest by one each (`Control`). `Stored` goes on
from there to the file: file, held frames, what a failed write lost, and the frames held
behind it are in order up to the packet that failed; without a failure, and in a WAV file,
nothing is lost between them; and what was taken exceeds the file by `HoldCap` at most,
through a failed write and a failed `finalize` too. `Control` ties the control states
together (a failed write ends the mux loop, so there is at most one; the file is open
exactly while the mux task is). `Stored` gives the refinement its hard steps, that what a
write adds are the file's next frames, and that `finalize` adds the rest with at most one
hole, of the kind its container allows. `SignalIsTheEnd` is the
part of the liveness that needs no fairness: after the signal a variant falls with every
step that is not the feeder's. It needs `Signalled`, that there is no signal before the
mux task is there.

**Recorder** (`RecorderTypes`, `MonitorStaysAway`, `WritersExclude`, `FilesInOrder`,
`RivalsAreBounded`).
`Control` says which calls of the window exclude one another: while it joins or starts
nothing is recorded, and the one mux task at work is that of the recording shown.
`Order` puts the frames of the recording that writes in one line: file, packet queue,
capture's hand and device channel each increase, each is below the next, and none is
above what the device delivered. An earlier capture may take a frame out of the line but
puts none in. The steps along the line rest on two lemmas: what taking a head, and what
joining two sequences in line, leaves in line. `RivalsAreBounded` is a variant again, and
needs that no flag is set for a recording not begun (`Unflagged`).

**Dispatcher** (`DispatcherTypes`, `NoTaskIsOrphaned`, `CompletionIsReal`,
`TotalsCover`). Completion needs `Counter`, that the counter of a generation is the
number of its tasks that run, until a runtime is dropped; and `Verdict`, where the
shutdown stands when there is an answer. The orphans need `Replaced`, that a generation
behind the current one was signalled, the totals `Covers`, and both that generations not
begun are untouched (`Fresh`).

**Server** (`ServerTypes`, `StreamsHaveNoGap`). `Positions` says where each stream
stands: what it sent is the run of numbers from its subscription on, and its next event
is the one after it, or after the one it is writing.

**AgentServer** (`AgentTypes`, `StartedCanBeStopped`). `References` ties the map and the
stops to sessions by their own ids, `Inserted` says that an id is stoppable from the
insertion on, through the entries that others replace and remove.

**Backend** (`BackendTypes`, `NothingIsLost`, which is `FramesInOrder`, and
`NegotiationIsNear`). `InLine` says, of the open whose
receiver is held, that its channel has the last of the frames sent, and that the others
were returned or taken by abandoned calls that ended; `InOrder` keeps what was returned
when the open is replaced. Four lemmas say what sending, returning and losing a frame do
to a line. For the formats, a set of numbers has a least element by well-foundedness
(`LeastNatural`), so that there is a first configuration with the least score; if one
offers the rate asked for its score is 0, and a score of 0 is a distance of at most the
bonus.

**Muxer** (`MuxerTypes`, `NothingLostSilently`, `EveryPieceInPlace`, `FramesReadBack`). The samples of a recording are cut into parts, and a part is made
into a piece. `Held` says that the buffer is the part from the place of the next piece to
the last sample fed; `Filed`, that the pieces are made of the parts of their places, in
order, and while more can come all full (`Open`); a muxer that is finalized, or broke,
may have a short last one, or a torn one (`Shut`). `FileAccounts` alone is not inductive:
`Accounted` carries the loss through the middle of a flush, `Totals` the counts that
differ between the formats (FLAC counts blocks that failed, WAV bytes that did not),
`Headed` the two sizes of WAV that are patched apart, and `Strayed` the bytes that failed
writes left, which is kept apart from the rest (`Kept`), since nothing depends on it. The sums over the pieces are
recursive functions; that one more piece adds its size needs induction, which is done
over a set of numbers in place of a predicate (`Climb`, from `LeastNatural`). The nearest
bitrate is proved for every number, by the 16 intervals between the limits.

With the codec (below), what is read in the file follows: `FramesReadBack` is
`FramesInPlace`, for recordings of any samples, rates and lengths that FLAC can describe.
The rate matters: a rate above 65535 that is not a multiple of 10 has no code, and the
encoder would write another. The usual rates of devices (44100 to 192000) all have one.

**Flac** (`FrameBack`, `HeaderBack`, `CrcDivides`). The reference decoder undoes the
encoder on every block, for any width of samples up to 30 bits, any limit of the quotient
and the parameter, any size, rate and frame number of a header and one or two channels.
The proof follows the layers: a code stands in a sequence of bits at a position (`At`),
and what reads there gets back what was coded. From numbers (`UnsignedBack`,
`SignedBack`) and one Rice code (`RiceBack`) it goes to the residuals of a block, raw or
coded (`ResidualsBack`, which needs that a difference of two samples fits one bit more),
to the samples, which are their sums (`RestoredBack`), to the subframe, and through the
coded number (`CodedBack`, one to five bytes) and the tables of sizes and rates to the
header. What is read does not depend on which of the ways the encoder took, nor on how it
chose the parameter: `ParamIs` only says that it fits its field and is not the mark of
the escape.

That a checksum divides is proved for every polynomial: after step i of the long division
of bits and checksum what is left are the bits that follow, with the register after i
bits added to the first of them (`RemainsStep`), so that at the end the register meets
the checksum, and they cancel. That a byte takes the register, and the rest of the
division, where its eight bits take them one by one is `CrcByteIs` and `SubtractByteIs`.
Sums, powers, flattened lists, readings and registers are
recursive functions; each has a lemma that a function taking the same steps is equal to
it, by climbing.

**Launch** (`LaunchTypes`, `SingleInstance`, `SavedSettingsKept`). Who is past the lock
holds it (`Holds`), and while something is about to be written nothing counts as saved, or
a start could not read what was (`Unsaved`).

Only model-checked: all liveness (the prover has no rule for fairness and ENABLED). That
the steps bounded by `SignalIsTheEnd` and `RivalsAreBounded` are taken is part of it.

## 13. Not modelled, and the plan

Left out within the modelled parts: sample values but in `Muxer`, peaks, statistics,
timestamps, logging and layout; in `Recorder` the panic that makes `next_frame` fail; in
`Backend` opens that fail, and the conversion of samples in the callbacks and in
`mix_to_i16`; in `Server` the text of replies and the TCP server, which nothing calls; in
`Dispatcher` commands that change nothing; in `AgentServer` parsing and authentication,
which are one `Reject`. No property covers the over-count of `total_frames` when
recordings overlap, the excess over the agent server's limits, or the starvation at the
std mutex; the hazards in `PROJECT.json` say why.

Not modelled at all: the encoder probe, a constant table; the mock and null backends,
test doubles without an interleaving of their own; the HRT bridge, whose connect fails on
Linux before any of its loop runs; `InstanceManager`, a map under one mutex that no
program here uses; the telemetry client, a reconnect loop around blocking reads, opt-in
and without a server in the application; logging, theme and packaging.

What is left, in this order:

1. `Hrt`: the reconnect loop against a broker that comes and goes.
2. The telemetry client against `Server`.
3. `mix_to_i16` and the sample conversions of the callbacks as operators, against a
   reference definition.

## 14. Running

    tlc -workers 2 -config MCSession.cfg MCSession
    tlapm Session_proofs.tla

The other configurations are named after their module; `MCDispatcherTasks.cfg` and the
like run with `MCDispatcher`, and `MCRecorderHeader` is a module of its own. A run takes
from seconds to about a minute with two workers, and `server`, with the liveness of two
clients, about three minutes; a proof module takes from seconds to about six minutes
(`Muxer_proofs`, with the codec, is the longest).
