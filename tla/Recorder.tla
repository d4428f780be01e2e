------------------------------ MODULE Recorder ------------------------------
(***************************************************************************)
(* The recorder behind the window (bsm-ui/src/window.rs): the UI thread,   *)
(* the monitor task that feeds the meters, one capture task and one mux    *)
(* task per recording, the mutex around the capture pipeline, and the      *)
(* audio device behind it (bsm-audio: pipeline.rs, wasapi.rs, monitor.rs). *)
(*                                                                         *)
(* The monitor and the capture tasks read the device in the same way: lock *)
(* the pipeline, await one frame under the lock, unlock.  Task 0 is the    *)
(* monitor, task r the capture of recording r.  The UI thread never keeps  *)
(* the lock from one step to the next.                                     *)
(*                                                                         *)
(* next_frame fails only if the runtime's blocking call panics; that path  *)
(* is left out, and so are the peak values the tasks compute.              *)
(***************************************************************************)
EXTENDS Integers, Sequences, FiniteSets

CONSTANTS
  Formats,     \* stream formats (sample rate, channels)
  MaxRec,      \* bound of the model: recordings ever started
  MaxFrames,   \* bound of the model: frames the device ever delivers
  MaxSeconds,  \* bound of the model: seconds the clock shows
  DevCap,      \* capacity of the backend's frame channel (64)
  QCap         \* capacity of a recording's packet channel (128)

ASSUME RecorderAssumption ==
  /\ Formats # {}
  /\ {MaxRec, MaxFrames, MaxSeconds, DevCap, QCap} \subseteq Nat \ {0}

Recs    == 1..MaxRec
Tasks   == 0..MaxRec
Monitor == 0
Seconds == 1..MaxSeconds

VARIABLES
  requested,  \* CapturePipeline.requested_format
  dev,        \* the backend's capture thread: "none" | "live" | "gone"
  devFmt,     \* format of the frames that thread delivers
  active,     \* WasapiBackend.active
  devq,       \* the backend's frame channel
  produced,   \* frames delivered so far; they are numbered by it
  holder,     \* the task that holds the pipeline mutex: {} or {t}
  task,       \* per task: "none" | "check" | "wait" | "reading" | "sending" | "done"
  stopFlag,   \* per task: its AtomicBool
  inHand,     \* per recording: the frame its capture task is sending
  queue,      \* per recording: its packet channel
  mux,        \* per recording: "none" | "recv" | "finalize" | "done"
  path,       \* per recording: the second that names its file, 0 before
  files,      \* what the file of each second holds
  now,        \* the clock
  ui,         \* "idle" | "joining" | "starting" | "stopping" | "opening" | "activating"
  recording,  \* the recording the window shows, 0 if none
  started,    \* recordings started so far
  paused      \* recording_paused

devVars  == <<requested, dev, devFmt, active, devq, produced>>
taskVars == <<holder, task, stopFlag, inHand>>
muxVars  == <<queue, mux, path, files>>
uiVars   == <<ui, recording, started, paused>>
vars     == <<devVars, taskVars, muxVars, now, uiVars>>

Frame == [n : 1..MaxFrames, fmt : Formats]
NoFile(state, f) == [state |-> state, header |-> f, frames |-> <<>>]

Init ==
  /\ requested \in Formats
  /\ dev = "none" /\ devFmt = requested /\ active = FALSE
  /\ devq = <<>> /\ produced = 0
  /\ holder = {}
  /\ task = [t \in Tasks |-> "none"]
  /\ stopFlag = [t \in Tasks |-> FALSE]
  /\ inHand = [r \in Recs |-> <<>>]
  /\ queue = [r \in Recs |-> <<>>]
  /\ mux = [r \in Recs |-> "none"]
  /\ path = [r \in Recs |-> 0]
  /\ files = [s \in Seconds |-> NoFile("none", requested)]
  /\ now = 1
  /\ ui = "idle" /\ recording = 0 /\ started = 0 /\ paused = FALSE
-----------------------------------------------------------------------------
(* The device.                                                             *)

\* The capture thread sends the frame it read; it blocks on a full channel.
Deliver ==
  /\ dev = "live"
  /\ Len(devq) < DevCap
  /\ produced < MaxFrames
  /\ produced' = produced + 1
  /\ devq' = Append(devq, [n |-> produced + 1, fmt |-> devFmt])
  /\ UNCHANGED <<requested, dev, devFmt, active, taskVars, muxVars, now, uiVars>>

\* The sound server is gone: the thread ends and its sender is dropped.
DeviceLost ==
  /\ dev = "live"
  /\ dev' = "gone"
  /\ UNCHANGED <<requested, devFmt, active, devq, produced, taskVars, muxVars, now,
                 uiVars>>

Tick ==
  /\ now < MaxSeconds
  /\ now' = now + 1
  /\ UNCHANGED <<devVars, taskVars, muxVars, uiVars>>
-----------------------------------------------------------------------------
(* The reading tasks: the monitor and the captures.                        *)

Goto(t, to) == task' = [task EXCEPT ![t] = to]

\* Mutated form: a task that is told to stop reads the device empty first.
CheckFlagDrains(t) ==
  /\ task[t] = "check"
  /\ Goto(t, IF stopFlag[t] /\ devq = <<>> THEN "done" ELSE "wait")
  /\ UNCHANGED <<devVars, holder, stopFlag, inHand, muxVars, now, uiVars>>

CheckFlag(t) ==
  /\ task[t] = "check"
  /\ Goto(t, IF stopFlag[t] THEN "done" ELSE "wait")
  /\ UNCHANGED <<devVars, holder, stopFlag, inHand, muxVars, now, uiVars>>

\* Mutated form: the tasks share the pipeline without the mutex.
LockPipelineShared(t) ==
  /\ task[t] = "wait"
  /\ holder' = holder \cup {t}
  /\ Goto(t, "reading")
  /\ UNCHANGED <<devVars, stopFlag, inHand, muxVars, now, uiVars>>

LockPipeline(t) ==
  /\ task[t] = "wait"
  /\ holder = {}
  /\ holder' = {t}
  /\ Goto(t, "reading")
  /\ UNCHANGED <<devVars, stopFlag, inHand, muxVars, now, uiVars>>

\* next_frame returns None when the backend was not started, was never
\* opened, or lost its capture thread; the task sleeps and looks again.
NoFrame(t) ==
  /\ task[t] = "reading"
  /\ ~active \/ dev = "none" \/ (dev = "gone" /\ devq = <<>>)
  /\ holder' = {}
  /\ Goto(t, "check")
  /\ UNCHANGED <<devVars, stopFlag, inHand, muxVars, now, uiVars>>

\* Mutated form: the frame is looked at and left in the channel.
TakeFramePeeks(t) ==
  /\ task[t] = "reading"
  /\ active
  /\ devq # <<>>
  /\ UNCHANGED devq
  /\ holder' = {}

\* Otherwise it blocks, under the lock, until the device delivers.
TakeFrame(t) ==
  /\ task[t] = "reading"
  /\ active
  /\ devq # <<>>
  /\ devq' = Tail(devq)
  /\ holder' = {}

\* The monitor only computes peaks.
MonitorReads ==
  /\ TakeFrame(Monitor)
  /\ Goto(Monitor, "check")
  /\ UNCHANGED <<requested, dev, devFmt, active, produced, stopFlag, inHand, muxVars,
                 now, uiVars>>

\* A capture makes a packet of the frame.
CaptureReads(r) ==
  /\ TakeFrame(r)
  /\ inHand' = [inHand EXCEPT ![r] = <<Head(devq)>>]
  /\ Goto(r, "sending")
  /\ UNCHANGED <<requested, dev, devFmt, active, produced, stopFlag, muxVars, now,
                 uiVars>>

CaptureSends(r) ==
  /\ task[r] = "sending"
  /\ mux[r] # "done"
  /\ Len(queue[r]) < QCap
  /\ queue' = [queue EXCEPT ![r] = @ \o inHand[r]]
  /\ inHand' = [inHand EXCEPT ![r] = <<>>]
  /\ Goto(r, "check")
  /\ UNCHANGED <<devVars, holder, stopFlag, mux, path, files, now, uiVars>>

CaptureSendFails(r) ==
  /\ task[r] = "sending"
  /\ mux[r] = "done"
  /\ inHand' = [inHand EXCEPT ![r] = <<>>]
  /\ Goto(r, "done")
  /\ UNCHANGED <<devVars, holder, stopFlag, muxVars, now, uiVars>>
-----------------------------------------------------------------------------
(* The mux task of a recording.                                            *)

\* Mutated form: the window keeps its sender until stop_recording returns.
ClosedLate(r) == task[r] = "done" /\ recording # r

\* Both senders are gone: the window's, dropped by stop, and the capture's.
Closed(r) == task[r] = "done" /\ (recording # r \/ ui = "stopping")

\* A packet received after the stop flag is set ends the loop, unwritten.
MuxStops(r) ==
  /\ mux[r] = "recv"
  /\ \/ queue[r] # <<>> /\ stopFlag[r] /\ queue' = [queue EXCEPT ![r] = Tail(@)]
     \/ queue[r] = <<>> /\ Closed(r) /\ UNCHANGED queue
  /\ mux' = [mux EXCEPT ![r] = "finalize"]
  /\ UNCHANGED <<devVars, taskVars, path, files, now, uiVars>>

\* write_packet's result is ignored: a failed write leaves a hole.
MuxWrites(r) ==
  /\ mux[r] = "recv"
  /\ queue[r] # <<>>
  /\ ~stopFlag[r]
  /\ queue' = [queue EXCEPT ![r] = Tail(@)]
  /\ \/ files' = [files EXCEPT ![path[r]].frames = Append(@, Head(queue[r]))]
     \/ UNCHANGED files
  /\ UNCHANGED <<devVars, taskVars, mux, path, now, uiVars>>

\* finalize()'s result is ignored too.  Its receiver and the packets left in
\* the channel go with the task.
MuxFinalizes(r) ==
  /\ mux[r] = "finalize"
  /\ mux' = [mux EXCEPT ![r] = "done"]
  /\ queue' = [queue EXCEPT ![r] = <<>>]
  /\ \E s \in {"final", "broken"} : files' = [files EXCEPT ![path[r]].state = s]
  /\ UNCHANGED <<devVars, taskVars, path, now, uiVars>>
-----------------------------------------------------------------------------
(* The UI thread.                                                          *)

\* update() starts a monitor whenever none is known and nothing is recorded.
SpawnMonitor ==
  /\ ui = "idle" /\ recording = 0
  /\ task[Monitor] = "none"
  /\ Goto(Monitor, "check")
  /\ stopFlag' = [stopFlag EXCEPT ![Monitor] = FALSE]
  /\ UNCHANGED <<devVars, holder, inHand, muxVars, now, uiVars>>

\* "Record": start_recording signals the monitor and joins it.
Record ==
  /\ ui = "idle" /\ recording = 0 /\ started < MaxRec
  /\ stopFlag' = [stopFlag EXCEPT ![Monitor] = TRUE]
  /\ ui' = "joining"
  /\ UNCHANGED <<devVars, holder, task, inHand, muxVars, now, recording, started,
                 paused>>

\* Mutated form: the monitor is signalled and not joined.
MonitorNotJoined ==
  /\ ui = "joining"
  /\ ui' = "starting"
  /\ UNCHANGED <<devVars, taskVars, muxVars, now, recording, started, paused>>

JoinMonitor ==
  /\ ui = "joining"
  /\ task[Monitor] \in {"none", "done"}
  /\ Goto(Monitor, "none")
  /\ ui' = "starting"
  /\ UNCHANGED <<devVars, holder, stopFlag, inHand, muxVars, now, recording, started,
                 paused>>

\* The file is named after the second and created, truncating any file of
\* that name; its header is written from the requested format.
OpenFile ==
  /\ ui = "starting"
  /\ holder = {}
  /\ LET r == started + 1 IN
       /\ files' = [files EXCEPT ![now] =
            [state |-> "open", header |-> requested, frames |-> <<>>]]
       /\ path' = [path EXCEPT ![r] = now]
       /\ mux' = [mux EXCEPT ![r] = "recv"]
       /\ Goto(r, "check")
       /\ recording' = r
       /\ started' = r
  /\ ui' = "idle"
  /\ UNCHANGED <<devVars, holder, stopFlag, inHand, queue, now, paused>>

\* mux.open fails, before or after it created the file; the window goes back
\* to monitoring.
OpenFileFails ==
  /\ ui = "starting"
  /\ holder = {}
  /\ \/ UNCHANGED files
     \/ files' = [files EXCEPT ![now] = NoFile("broken", requested)]
  /\ ui' = "idle"
  /\ UNCHANGED <<devVars, taskVars, queue, mux, path, now, recording, started, paused>>

\* "Pause" toggles a flag that no task reads.
Pause ==
  /\ ui = "idle" /\ recording # 0
  /\ paused' = ~paused
  /\ UNCHANGED <<devVars, taskVars, muxVars, now, ui, recording, started>>

\* "Stop": stop_recording sets the flag and drops the window's sender.
Stop ==
  /\ ui = "idle" /\ recording # 0
  /\ stopFlag' = [stopFlag EXCEPT ![recording] = TRUE]
  /\ ui' = "stopping"
  /\ UNCHANGED <<devVars, holder, task, inHand, muxVars, now, recording, started,
                 paused>>

\* Mutated form: after 200 ms the mux task is taken for aborted.
StopGivesUp ==
  /\ ui = "stopping"
  /\ recording' = 0
  /\ paused' = FALSE
  /\ ui' = "idle"
  /\ UNCHANGED <<devVars, taskVars, muxVars, now, started>>

\* It polls the mux task for 200 ms, then aborts it and awaits it; the abort
\* does not stop a blocking task that runs, so both ways wait for its end.
\* The capture task is not joined.
StopReturns ==
  /\ ui = "stopping"
  /\ mux[recording] = "done"
  /\ recording' = 0
  /\ paused' = FALSE
  /\ ui' = "idle"
  /\ UNCHANGED <<devVars, taskVars, muxVars, now, started>>

\* A click on a sample rate; it takes effect when the lock is free.
SelectRate ==
  /\ ui = "idle"
  /\ holder = {}
  /\ requested' \in Formats
  /\ UNCHANGED <<dev, devFmt, active, devq, produced, taskVars, muxVars, now, uiVars>>

\* A click on a device: open it with the requested format, then start it.
SelectDevice ==
  /\ ui = "idle"
  /\ ui' = "opening"
  /\ UNCHANGED <<devVars, taskVars, muxVars, now, recording, started, paused>>

\* The negotiated format may differ from the requested one.  The new channel
\* replaces the old, whose thread ends at its next send.
OpenDevice ==
  /\ ui = "opening"
  /\ holder = {}
  /\ dev' = "live"
  /\ devFmt' \in Formats
  /\ devq' = <<>>
  /\ ui' = "activating"
  /\ UNCHANGED <<requested, active, produced, taskVars, muxVars, now, recording,
                 started, paused>>

\* The backend goes on with the device it had.
OpenDeviceFails ==
  /\ ui = "opening"
  /\ holder = {}
  /\ ui' = "idle"
  /\ UNCHANGED <<devVars, taskVars, muxVars, now, recording, started, paused>>

StartDevice ==
  /\ ui = "activating"
  /\ holder = {}
  /\ active' = TRUE
  /\ ui' = "idle"
  /\ UNCHANGED <<requested, dev, devFmt, devq, produced, taskVars, muxVars, now,
                 recording, started, paused>>
-----------------------------------------------------------------------------
Device   == Deliver \/ DeviceLost
Reader(t) == CheckFlag(t) \/ LockPipeline(t) \/ NoFrame(t)
Capture(r) == Reader(r) \/ CaptureReads(r) \/ CaptureSends(r) \/ CaptureSendFails(r)
MonitorTask == Reader(Monitor) \/ MonitorReads
Mux(r)   == MuxStops(r) \/ MuxWrites(r) \/ MuxFinalizes(r)
Click    == Record \/ Pause \/ Stop \/ SelectRate \/ SelectDevice
Opening  == OpenFile \/ OpenFileFails
Update   == SpawnMonitor \/ JoinMonitor \/ Opening \/ StopReturns
            \/ OpenDevice \/ OpenDeviceFails \/ StartDevice

Next ==
  \/ Device \/ Tick \/ MonitorTask \/ Click \/ Update
  \/ \E r \in Recs : Capture(r) \/ Mux(r)

\* A live device keeps delivering (a monitor source emits silence when nothing
\* plays), the tasks have threads of their own, and the UI thread goes on with
\* the call it is in.  No fairness for clicks, and none for the UI's use of the
\* lock while a reading task goes round: the mutex promises no turn.
Fairness ==
  /\ WF_vars(Deliver)
  /\ WF_vars(MonitorTask)
  /\ \A r \in Recs : WF_vars(Capture(r)) /\ WF_vars(Mux(r))
  /\ WF_vars(SpawnMonitor)
  /\ WF_vars(JoinMonitor)
  /\ WF_vars(Opening)
  /\ WF_vars(StopReturns)

Spec == Init /\ [][Next]_vars /\ Fairness
-----------------------------------------------------------------------------
(* What the recorder promises.                                             *)

\* Every variable stays in its range; in particular the pipeline mutex has at
\* most one holder, the task that is reading.
TypeOK ==
  /\ requested \in Formats /\ devFmt \in Formats
  /\ dev \in {"none", "live", "gone"} /\ active \in BOOLEAN
  /\ devq \in Seq(Frame) /\ Len(devq) <= DevCap /\ produced \in 0..MaxFrames
  /\ task \in [Tasks -> {"none", "check", "wait", "reading", "sending", "done"}]
  /\ holder = {t \in Tasks : task[t] = "reading"} /\ Cardinality(holder) <= 1
  /\ stopFlag \in [Tasks -> BOOLEAN]
  /\ queue \in [Recs -> Seq(Frame)] /\ inHand \in [Recs -> Seq(Frame)]
  /\ \A r \in Recs : Len(queue[r]) <= QCap /\ Len(inHand[r]) <= 1
  /\ mux \in [Recs -> {"none", "recv", "finalize", "done"}]
  /\ path \in [Recs -> 0..MaxSeconds] /\ now \in Seconds
  /\ files \in [Seconds -> [state : {"none", "open", "final", "broken"},
                            header : Formats, frames : Seq(Frame)]]
  /\ ui \in {"idle", "joining", "starting", "stopping", "opening", "activating"}
  /\ recording \in Tasks /\ started \in Tasks /\ paused \in BOOLEAN

\* While a recording is shown no monitor task exists, so none can take a frame
\* from the capture.
MonitorNotRacing == recording # 0 => task[Monitor] = "none"

\* Two mux tasks never write at the same time, even when the next recording
\* is started the moment stop_recording returns.
OneWriter == Cardinality({r \in Recs : mux[r] \in {"recv", "finalize"}}) <= 1

\* Frames reach a file in the order the device delivered them, none twice,
\* across mutex hand-over, stop and the following recording.
FileOrdered ==
  \A s \in Seconds : LET f == files[s].frames IN
    \A i \in 1..(Len(f) - 1) : f[i].n < f[i + 1].n

\* Record and Stop return to the user: a device that delivers lets the
\* monitor, an earlier capture and the mux reach their stop flags.
ControlsReturn ==
  (ui \in {"joining", "starting", "stopping"}) ~> (ui = "idle" \/ produced = MaxFrames)

\* The most steps a task makes from where it is once its flag is set.
StepsLeft(t) ==
  [none |-> 0, done |-> 1, check |-> 2, sending |-> 3, reading |-> 4, wait |-> 5][task[t]]

\* What others take from a recording is bounded: the monitor is away, and once
\* its flag is set every step of a reading task brings it nearer to its end, so
\* that the capture of a stopped recording, which nobody joins, takes one more
\* frame at most, however fast the device delivers.
RivalsLeave ==
  [][/\ MonitorNotRacing'
     /\ \A t \in Tasks : stopFlag[t] /\ stopFlag'[t] =>
          StepsLeft(t)' < StepsLeft(t) \/ task'[t] = task[t]]_vars
=============================================================================
