----------------------------- MODULE Dispatcher -----------------------------
(***************************************************************************)
(* The control server's recorder: the Dispatcher of one connection         *)
(* (bsm-ipc/src/dispatcher.rs), the background tasks of every              *)
(* StartRecording it handled, and the connection loop that shuts it down   *)
(* (server.rs).                                                            *)
(*                                                                         *)
(*   pipeline --pcm--> encoder --pkt--> reader          stats (a timer)    *)
(*                                                                         *)
(* A generation is one call of spawn_background_tasks.  It owns a queue    *)
(* pair, a broadcast channel for the shutdown signal and a counter of the  *)
(* tasks that have not finished: pipeline, reader and stats (the encoder   *)
(* that start_encoder spawns is not counted).  Dropping the last sender of *)
(* the broadcast channel raises the signal like sending does.  The         *)
(* dispatcher holds only the latest generation.                            *)
(*                                                                         *)
(* Commands run one at a time (&mut self); the tasks run on a              *)
(* multi-threaded runtime of the dispatcher's own.  Commands that only     *)
(* read (GetStatus, Health, Stats) or that are acknowledged and ignored    *)
(* (SetDevice, UpdateConfig) change no state and are left out.             *)
(***************************************************************************)
EXTENDS Naturals

CONSTANTS
  PcmCap,     \* capacity of the PCM channel (256)
  PktCap,     \* capacity of the encoder's packet channel (256)
  MaxStarts,  \* bound of the model: StartRecording commands
  MaxFrames   \* bound of the model: frames counted over all generations

ASSUME DispatcherAssumption ==
  /\ PcmCap \in Nat \ {0}
  /\ PktCap \in Nat \ {0}
  /\ MaxStarts \in Nat \ {0}
  /\ MaxFrames \in Nat

Generations == 1 .. MaxStarts

VARIABLES
  state,      \* RecordingState: "idle" | "recording" | "paused"
  cur,        \* generation whose channels the dispatcher holds, 0 for none
  framesAtStart, \* Dispatcher.frames_at_start
  captured,   \* AudioQualityState.samples_captured, in buffers
  pipe,       \* pipeline task: "none" | "opening" | "reading" | "sending"
              \* | "stopping" | "done"
  encoder,    \* encoder task: "none" | "recv" | "send" | "done"
  reader,     \* task around start_encoder: "none" | "reading" | "done"
  stats,      \* audio-stats task: "none" | "ticking" | "done"
  pcm,        \* frames queued for the encoder
  pkt,        \* packets queued for the reader
  signal,     \* "raised" once the shutdown receivers have something to return
  active,     \* AtomicUsize: tasks that have not finished
  counted,    \* buffers this generation added to captured
  os,         \* "unix" | "windows": which transport the connection uses
  left,       \* generations whose task left a call of the device behind: an
              \* open, or the receive of a frame, on a thread that nothing cancels
  shut,       \* the connection: "serving" | "check" | "arming" | "parked"
              \* | "dropping" | "waiting" | "over" | "panicked"
  notified,   \* "yes" once notify_waiters reached the parked caller
  verdict     \* what the shutdown found: "none" | "true" | "false"

taskVars    == <<captured, pipe, encoder, reader, stats, pcm, pkt, active, counted>>
commandVars == <<state, cur, framesAtStart>>
shutVars    == <<os, left, shut, notified, verdict>>
vars == <<state, cur, framesAtStart, captured, pipe, encoder, reader, stats, pcm,
          pkt, signal, active, counted, os, left, shut, notified, verdict>>

Init ==
  /\ state = "idle"
  /\ cur = 0
  /\ framesAtStart = 0
  /\ captured = 0
  /\ pipe = [g \in Generations |-> "none"]
  /\ encoder = [g \in Generations |-> "none"]
  /\ reader = [g \in Generations |-> "none"]
  /\ stats = [g \in Generations |-> "none"]
  /\ pcm = [g \in Generations |-> 0]
  /\ pkt = [g \in Generations |-> 0]
  /\ signal = [g \in Generations |-> "quiet"]
  /\ active = [g \in Generations |-> 0]
  /\ counted = [g \in Generations |-> 0]
  /\ os \in {"unix", "windows"}
  /\ left = {}
  /\ shut = "serving"
  /\ notified = "no"
  /\ verdict = "none"

\* shutdown_tx.send(()), when the dispatcher holds one.
RaiseSignal ==
  signal' = [g \in Generations |-> IF g = cur THEN "raised" ELSE signal[g]]
-----------------------------------------------------------------------------
(* handle_command: one command of the connection, start to reply.          *)

\* Mutated form: the previous generation's shutdown sender stays alive.
StartRecordingLeaky ==
  /\ shut = "serving"
  /\ cur < MaxStarts
  /\ framesAtStart' = captured
  /\ cur' = cur + 1
  /\ pipe' = [pipe EXCEPT ![cur + 1] = "opening"]
  /\ reader' = [reader EXCEPT ![cur + 1] = "reading"]
  /\ encoder' = [encoder EXCEPT ![cur + 1] = "recv"]
  /\ stats' = [stats EXCEPT ![cur + 1] = "ticking"]
  /\ active' = [active EXCEPT ![cur + 1] = 3]
  /\ state' = "recording"
  /\ UNCHANGED <<signal, captured, pcm, pkt, counted, shutVars>>

\* StartRecording, whatever the state: the frame count is noted, the tasks are
\* spawned, and the new channels replace the old ones.  The old shutdown sender
\* is dropped, which is what tells an earlier generation to end.  The reader
\* begins by spawning its encoder (start_encoder, which always succeeds).
StartRecording ==
  /\ shut = "serving"
  /\ cur < MaxStarts
  /\ framesAtStart' = captured
  /\ cur' = cur + 1
  /\ pipe' = [pipe EXCEPT ![cur + 1] = "opening"]
  /\ reader' = [reader EXCEPT ![cur + 1] = "reading"]
  /\ encoder' = [encoder EXCEPT ![cur + 1] = "recv"]
  /\ stats' = [stats EXCEPT ![cur + 1] = "ticking"]
  /\ active' = [active EXCEPT ![cur + 1] = 3]
  /\ RaiseSignal
  /\ state' = "recording"
  /\ UNCHANGED <<captured, pcm, pkt, counted, shutVars>>

\* The total_frames that StopRecording puts in audio_stopped, when not idle.
TotalFrames == captured - framesAtStart

\* StopRecording: signal, report TotalFrames, go idle.  The tasks are left to
\* end by themselves and the channels are kept.
StopRecording ==
  /\ shut = "serving"
  /\ RaiseSignal
  /\ state' = "idle"
  /\ UNCHANGED <<cur, framesAtStart, taskVars, shutVars>>

\* PauseRecording changes only the state that is reported.
PauseRecording ==
  /\ shut = "serving"
  /\ state = "recording"
  /\ state' = "paused"
  /\ UNCHANGED <<cur, framesAtStart, signal, taskVars, shutVars>>

\* Mutated form: resuming notes the frame count again.
ResumeRestartsCount ==
  /\ shut = "serving"
  /\ state = "paused"
  /\ state' = "recording"
  /\ framesAtStart' = captured
  /\ UNCHANGED <<cur, signal, taskVars, shutVars>>

ResumeRecording ==
  /\ shut = "serving"
  /\ state = "paused"
  /\ state' = "recording"
  /\ UNCHANGED <<cur, framesAtStart, signal, taskVars, shutVars>>

\* The Shutdown command signals the tasks and leaves the state as it was.
ShutdownCommand ==
  /\ shut = "serving"
  /\ RaiseSignal
  /\ UNCHANGED <<commandVars, taskVars, shutVars>>
-----------------------------------------------------------------------------
(* The background tasks of generation g.                                   *)

\* fetch_sub, and notify_waiters by the task that finishes last: it reaches
\* a caller that is parked and nobody else.
TaskDone(g) ==
  /\ active' = [active EXCEPT ![g] = @ - 1]
  /\ notified' = IF active[g] = 1 /\ g = cur /\ shut = "parked" THEN "yes" ELSE notified

\* open_with_config and start, whose results are ignored: the device answered.
PipelineOpens(g) ==
  /\ pipe[g] = "opening"
  /\ pipe' = [pipe EXCEPT ![g] = "reading"]
  /\ UNCHANGED <<commandVars, captured, encoder, reader, stats, pcm, pkt, signal,
                 active, counted, shutVars>>

\* next_frame returns a frame.  A 16-bit frame with data is metered and
\* counted, any other is only passed on.
NextFrame(g) ==
  /\ pipe[g] = "reading"
  /\ pipe' = [pipe EXCEPT ![g] = "sending"]
  /\ \/ /\ captured < MaxFrames
        /\ captured' = captured + 1
        /\ counted' = [counted EXCEPT ![g] = @ + 1]
     \/ UNCHANGED <<captured, counted>>
  /\ UNCHANGED <<commandVars, encoder, reader, stats, pcm, pkt, signal, active,
                 shutVars>>

\* next_frame returns Ok(None) or an error (the device failed to open, or is
\* gone): the task ends, and the dispatcher is not told.
StreamEnds(g) ==
  /\ pipe[g] = "reading"
  /\ pipe' = [pipe EXCEPT ![g] = "done"]
  /\ TaskDone(g)
  /\ UNCHANGED <<os, left, commandVars, captured, encoder, reader, stats, pcm, pkt,
                 signal, counted, shut, verdict>>

\* Mutated form: the task is marked done before the backend is stopped.
PipelineShutdownEarly(g) ==
  /\ pipe[g] = "reading"
  /\ signal[g] = "raised"
  /\ pipe' = [pipe EXCEPT ![g] = "stopping"]
  /\ left' = left \cup {g}
  /\ TaskDone(g)
  /\ UNCHANGED <<os, commandVars, captured, encoder, reader, stats, pcm, pkt, signal,
                 counted, shut, verdict>>

\* The shutdown branch of the pipeline's select; pipeline.stop() comes next.  The
\* receive that next_frame waited for is left on its thread.
PipelineShutdown(g) ==
  /\ pipe[g] = "reading"
  /\ signal[g] = "raised"
  /\ pipe' = [pipe EXCEPT ![g] = "stopping"]
  /\ left' = left \cup {g}
  /\ UNCHANGED <<commandVars, captured, encoder, reader, stats, pcm, pkt, signal,
                 active, counted, os, shut, notified, verdict>>

PipelineStops(g) ==
  /\ pipe[g] = "stopping"
  /\ pipe' = [pipe EXCEPT ![g] = "done"]
  /\ TaskDone(g)
  /\ UNCHANGED <<os, left, commandVars, captured, encoder, reader, stats, pcm, pkt,
                 signal, counted, shut, verdict>>

\* pcm_tx.send(f): waits for room, outside the select.
PipelineSends(g) ==
  /\ pipe[g] = "sending"
  /\ encoder[g] # "done"
  /\ pcm[g] < PcmCap
  /\ pcm' = [pcm EXCEPT ![g] = @ + 1]
  /\ pipe' = [pipe EXCEPT ![g] = "reading"]
  /\ UNCHANGED <<commandVars, captured, encoder, reader, stats, pkt, signal, active,
                 counted, shutVars>>

\* The receiver is gone: the send fails and the result is ignored.
PipelineSendFails(g) ==
  /\ pipe[g] = "sending"
  /\ encoder[g] = "done"
  /\ pipe' = [pipe EXCEPT ![g] = "reading"]
  /\ UNCHANGED <<commandVars, captured, encoder, reader, stats, pcm, pkt, signal,
                 active, counted, shutVars>>

\* Mutated form: nothing reads the packets.
ReaderIgnoresPackets(g) ==
  /\ reader[g] = "reading"
  /\ pkt[g] > PktCap
  /\ pkt' = [pkt EXCEPT ![g] = @ - 1]
  /\ UNCHANGED <<commandVars, captured, pipe, encoder, reader, stats, pcm, signal,
                 active, counted, shutVars>>

\* Packets are read and discarded.
ReaderReads(g) ==
  /\ reader[g] = "reading"
  /\ pkt[g] > 0
  /\ pkt' = [pkt EXCEPT ![g] = @ - 1]
  /\ UNCHANGED <<commandVars, captured, pipe, encoder, reader, stats, pcm, signal,
                 active, counted, shutVars>>

\* The reader ends and drops the packet receiver.
ReaderShutdown(g) ==
  /\ reader[g] = "reading"
  /\ signal[g] = "raised"
  /\ reader' = [reader EXCEPT ![g] = "done"]
  /\ pkt' = [pkt EXCEPT ![g] = 0]
  /\ TaskDone(g)
  /\ UNCHANGED <<os, left, commandVars, captured, pipe, encoder, stats, pcm, signal,
                 counted, shut, verdict>>

StatsShutdown(g) ==
  /\ stats[g] = "ticking"
  /\ signal[g] = "raised"
  /\ stats' = [stats EXCEPT ![g] = "done"]
  /\ TaskDone(g)
  /\ UNCHANGED <<os, left, commandVars, captured, pipe, encoder, reader, pcm, pkt,
                 signal, counted, shut, verdict>>
-----------------------------------------------------------------------------
(* The encoder task of generation g (encoder.rs): its select is biased to  *)
(* the shutdown signal.                                                    *)

EncoderTakes(g) ==
  /\ encoder[g] = "recv"
  /\ signal[g] = "quiet"
  /\ pcm[g] > 0
  /\ pcm' = [pcm EXCEPT ![g] = @ - 1]
  /\ encoder' = [encoder EXCEPT ![g] = "send"]
  /\ UNCHANGED <<commandVars, captured, pipe, reader, stats, pkt, signal, active,
                 counted, shutVars>>

\* The encoder ends and drops the PCM receiver with what is queued.
EncoderShutdown(g) ==
  /\ encoder[g] = "recv"
  /\ signal[g] = "raised"
  /\ encoder' = [encoder EXCEPT ![g] = "done"]
  /\ pcm' = [pcm EXCEPT ![g] = 0]
  /\ UNCHANGED <<commandVars, captured, pipe, reader, stats, pkt, signal, active,
                 counted, shutVars>>

\* Mutated form: room for one packet too many.
EncoderOverfills(g) ==
  /\ encoder[g] = "send"
  /\ reader[g] # "done"
  /\ pkt[g] <= PktCap
  /\ pkt' = [pkt EXCEPT ![g] = @ + 1]
  /\ encoder' = [encoder EXCEPT ![g] = "recv"]
  /\ UNCHANGED <<commandVars, captured, pipe, reader, stats, pcm, signal, active,
                 counted, shutVars>>

EncoderSends(g) ==
  /\ encoder[g] = "send"
  /\ reader[g] # "done"
  /\ pkt[g] < PktCap
  /\ pkt' = [pkt EXCEPT ![g] = @ + 1]
  /\ encoder' = [encoder EXCEPT ![g] = "recv"]
  /\ UNCHANGED <<commandVars, captured, pipe, reader, stats, pcm, signal, active,
                 counted, shutVars>>

\* Mutated form: a failed send is logged and the encoder goes on.
EncoderIgnoresFailure(g) ==
  /\ encoder[g] = "send"
  /\ reader[g] = "done"
  /\ UNCHANGED vars

EncoderSendFails(g) ==
  /\ encoder[g] = "send"
  /\ reader[g] = "done"
  /\ encoder' = [encoder EXCEPT ![g] = "done"]
  /\ pcm' = [pcm EXCEPT ![g] = 0]
  /\ UNCHANGED <<commandVars, captured, pipe, reader, stats, pkt, signal, active,
                 counted, shutVars>>
-----------------------------------------------------------------------------
(* The connection loop ends the dispatcher and waits for its tasks for     *)
(* five seconds: with shutdown_with_timeout on Unix, and on Windows with   *)
(* shutdown_blocking_with_timeout, which polls the counter.                *)

\* The Shutdown command, then the wait, if there is anything to wait for.
BeginShutdown ==
  /\ shut = "serving"
  /\ RaiseSignal
  /\ IF cur = 0
       THEN shut' = "dropping" /\ verdict' = "true"
       ELSE shut' = "check" /\ UNCHANGED verdict
  /\ UNCHANGED <<os, left, commandVars, taskVars, notified>>

\* active.load() found zero.
AllTasksDone ==
  /\ shut = "check"
  /\ active[cur] = 0
  /\ verdict' = "true"
  /\ shut' = "dropping"
  /\ UNCHANGED <<os, left, commandVars, taskVars, signal, notified>>

\* active.load() found a task: the wait goes on to notify.notified().
\* Between this load and Park the caller is not yet a waiter.  (The blocking
\* form sleeps 20 ms and looks again.)
FindsTasks ==
  /\ shut = "check" /\ os = "unix"
  /\ active[cur] > 0
  /\ shut' = "arming"
  /\ UNCHANGED <<os, left, commandVars, taskVars, signal, notified, verdict>>

Park ==
  /\ shut = "arming"
  /\ shut' = "parked"
  /\ notified' = "no"
  /\ UNCHANGED <<os, left, commandVars, taskVars, signal, verdict>>

Wake ==
  /\ shut = "parked"
  /\ notified = "yes"
  /\ shut' = "check"
  /\ UNCHANGED <<os, left, commandVars, taskVars, signal, notified, verdict>>

\* Mutated form: the deadline is looked at only between two waits.
ExpireBetweenWaits ==
  /\ shut = "check"
  /\ active[cur] > 0
  /\ verdict' = "false"
  /\ shut' = "dropping"
  /\ UNCHANGED <<os, left, commandVars, taskVars, signal, notified>>

\* The deadline passes: seen by the loop after a load that found a task, or by
\* the timeout around notified(), which polls the notification first.
Expire ==
  /\ \/ shut = "check" /\ active[cur] > 0
     \/ shut = "parked" /\ notified = "no"
  /\ verdict' = "false"
  /\ shut' = "dropping"
  /\ UNCHANGED <<os, left, commandVars, taskVars, signal, notified>>

\* Every task still running is cancelled with the runtime, but not a call of the
\* device that it is in.
CancelTasks ==
  LET ended(task) == [g \in Generations |-> IF task[g] = "none" THEN "none" ELSE "done"]
  IN /\ pipe' = ended(pipe)
     /\ encoder' = ended(encoder)
     /\ reader' = ended(reader)
     /\ stats' = ended(stats)
     /\ pcm' = [g \in Generations |-> 0]
     /\ pkt' = [g \in Generations |-> 0]
     /\ signal' = [g \in Generations |-> "raised"]
     /\ left' = left \cup {g \in Generations : pipe[g] \in {"opening", "reading"}}

\* Where the drop of the dispatcher's runtime, if a recording ever made one, leads.
\* A tokio runtime may not be dropped on a thread that runs async code: there its
\* drop cancels the tasks and panics.  The handler of a pipe runs on a thread for
\* blocking code, where the drop waits for the calls that were left behind.
AfterDrop ==
  IF cur = 0 THEN "over" ELSE IF os = "unix" THEN "panicked" ELSE "waiting"

\* The end of the shutdown; after a panic no reply is written.
DropRuntime ==
  /\ shut = "dropping"
  /\ CancelTasks
  /\ shut' = AfterDrop
  /\ UNCHANGED <<os, commandVars, captured, active, counted, notified, verdict>>

\* The client closes the connection, or subscribes to telemetry (on Windows the
\* stream comes first): the loop ends and the dispatcher is dropped as it stands.
ConnectionEnds ==
  /\ shut = "serving"
  /\ CancelTasks
  /\ shut' = AfterDrop
  /\ UNCHANGED <<os, commandVars, captured, active, counted, notified, verdict>>

\* A call that was left behind returns: the device opens or fails to, delivers a
\* frame, or its capture thread ends the stream.  It may never.
DeviceAnswers(g) ==
  /\ g \in left
  /\ left' = left \ {g}
  /\ UNCHANGED <<os, commandVars, taskVars, signal, shut, notified, verdict>>

\* The last thread of the runtime has ended, and its drop returns.
RuntimeDropped ==
  /\ shut = "waiting"
  /\ left = {}
  /\ shut' = "over"
  /\ UNCHANGED <<os, left, commandVars, taskVars, signal, notified, verdict>>
-----------------------------------------------------------------------------
Command ==
  \/ StartRecording \/ StopRecording \/ PauseRecording \/ ResumeRecording
  \/ ShutdownCommand \/ BeginShutdown \/ ConnectionEnds

Wait ==
  AllTasksDone \/ FindsTasks \/ Park \/ Wake \/ DropRuntime \/ RuntimeDropped

Encoder(g) ==
  EncoderTakes(g) \/ EncoderShutdown(g) \/ EncoderSends(g) \/ EncoderSendFails(g)

Send(g) == PipelineSends(g) \/ PipelineSendFails(g)

Next ==
  \/ Command \/ Wait \/ Expire
  \/ \E g \in Generations :
       \/ PipelineOpens(g) \/ NextFrame(g) \/ StreamEnds(g)
       \/ PipelineShutdown(g) \/ PipelineStops(g) \/ Send(g) \/ DeviceAnswers(g)
       \/ ReaderReads(g) \/ ReaderShutdown(g)
       \/ StatsShutdown(g) \/ Encoder(g)

\* Every task that can run runs, and the five seconds pass.  A pipeline that
\* is signalled passes its select again and again and takes the shutdown
\* branch in the end (tokio picks a ready branch at random).  Nothing makes the
\* client send a command, or the device open, deliver a frame or let go of a call.
Fairness ==
  /\ WF_vars(Wait)
  /\ WF_vars(Expire)
  /\ \A g \in Generations :
       /\ SF_vars(PipelineShutdown(g))
       /\ WF_vars(PipelineStops(g))
       /\ WF_vars(Send(g))
       /\ WF_vars(ReaderReads(g))
       /\ WF_vars(ReaderShutdown(g))
       /\ WF_vars(StatsShutdown(g))
       /\ WF_vars(Encoder(g))

Spec == Init /\ [][Next]_vars /\ Fairness
-----------------------------------------------------------------------------
(* Properties.                                                             *)

Tasks(g) == {t \in {1, 2, 3} : \/ t = 1 /\ pipe[g] \notin {"none", "done"}
                               \/ t = 2 /\ reader[g] = "reading"
                               \/ t = 3 /\ stats[g] = "ticking"}
Running(g) == Tasks(g) # {} \/ encoder[g] \in {"recv", "send"}

\* Every variable has its type and the queues their capacity.
TypeOK ==
  /\ state \in {"idle", "recording", "paused"}
  /\ cur \in 0 .. MaxStarts
  /\ framesAtStart \in 0 .. captured
  /\ captured \in 0 .. MaxFrames
  /\ pipe \in [Generations ->
       {"none", "opening", "reading", "sending", "stopping", "done"}]
  /\ encoder \in [Generations -> {"none", "recv", "send", "done"}]
  /\ reader \in [Generations -> {"none", "reading", "done"}]
  /\ stats \in [Generations -> {"none", "ticking", "done"}]
  /\ pcm \in [Generations -> 0 .. PcmCap]
  /\ pkt \in [Generations -> 0 .. PktCap]
  /\ signal \in [Generations -> {"quiet", "raised"}]
  /\ active \in [Generations -> 0 .. 3]
  /\ counted \in [Generations -> Nat]
  /\ os \in {"unix", "windows"}
  /\ left \subseteq Generations
  /\ shut \in {"serving", "check", "arming", "parked", "dropping", "waiting", "over",
               "panicked"}
  /\ notified \in {"yes", "no"}
  /\ verdict \in {"none", "true", "false"}

\* No background task runs without the dispatcher being able to end it: a
\* generation the dispatcher no longer holds (a second StartRecording replaced
\* its channels) has been told to end.
NoOrphan == \A g \in Generations : Running(g) /\ g # cur => signal[g] = "raised"

\* shutdown_* answers true only when the pipeline, the reader and the stats
\* task of the generation it waited for have all ended, the backend stopped.
CompletedMeansDone == verdict = "true" /\ cur # 0 => Tasks(cur) = {}

\* Whenever StopRecording comes, audio_stopped reports no fewer frames than the
\* recording it ends has captured, pauses included.
TotalCoversRecording ==
  state # "idle" /\ cur # 0 => TotalFrames >= counted[cur]

\* A signalled generation whose device answers the open ends, whatever its queues
\* hold: the encoder leaves a send when its reader is gone, the pipeline when its
\* encoder is.
TasksEnd ==
  \A g \in Generations :
    []<>(pipe[g] # "opening") =>
      ((Running(g) /\ signal[g] = "raised") ~> ~Running(g))

\* Metering never stalls: a pipeline that sends a frame comes back for the
\* next one, however long the recording (the packets nobody needs are read).
MeteringNeverStalls ==
  \A g \in Generations : (pipe[g] = "sending") ~> (pipe[g] # "sending")

\* The wait of a shutdown ends: it comes to the drop of the runtime.  And the drop
\* of a runtime, at the end of a shutdown or of a connection, waits for nothing but
\* the device: one that never returns has a call that never returns.
ShutdownEnds ==
  /\ (shut = "check") ~> (shut \in {"waiting", "over", "panicked"})
  /\ <>[](shut = "waiting") => \E g \in Generations : <>[](g \in left)

\* What the comment on shutdown_with_timeout says (true if all background tasks
\* completed within the timeout): the wait expires only over a running task.
ExpiresOverRunningTask ==
  [][verdict = "none" /\ verdict' = "false" => active[cur] > 0]_vars
=============================================================================
