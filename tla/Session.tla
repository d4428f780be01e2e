------------------------------ MODULE Session ------------------------------
(***************************************************************************)
(* One RecordingSession (bsm-encode/src/output.rs) with its encoder task   *)
(* (encoder.rs) and the file behind its muxer (muxer.rs).                  *)
(*                                                                         *)
(*   feeder --pcmq--> encoder task --pktq--> mux task --> held --> file    *)
(*                                                                         *)
(* Both queues are tokio mpsc channels: a send waits for room and fails    *)
(* once the receiver is dropped; a receive returns what is queued even     *)
(* after the sender is gone.  A broadcast channel carries the shutdown     *)
(* signal, raised by stop(), by the forwarder task, or by the loss of its  *)
(* last sender; both tasks look at it before their queue (biased select).  *)
(* A frame is the number of its arrival at the session.  The muxer answers *)
(* Ok for a packet that it only holds: each writes through a buffer, FLAC  *)
(* gathers blocks, and LAME gives its output when it likes.  A frame is in *)
(* the file once its last sample is.                                       *)
(***************************************************************************)
EXTENDS Naturals, Sequences

CONSTANTS
  PcmCap,     \* capacity of the caller's PCM channel
  PktCap,     \* capacity of the encoder's packet channel (256)
  HoldCap,    \* packets the buffers of a muxer hold at most
  MaxFrames   \* bound of the model: frames the caller ever feeds

ASSUME CapAssumption ==
  /\ PcmCap \in Nat \ {0}
  /\ PktCap \in Nat \ {0}
  /\ HoldCap \in Nat
  /\ MaxFrames \in Nat

VARIABLES
  fed,        \* frames the PCM channel has accepted so far
  pcmq,       \* frames in the PCM channel, oldest first
  pcmTx,      \* "open" while the feeder holds its sender, then "closed"
  enc,        \* encoder task: "idle" | "recv" | "send" | "done"
  hold,       \* the frame the encoder is sending, 0 when none
  pktq,       \* packets in the packet channel, oldest first
  mux,        \* mux task: "idle" | "recv" | "finalize" | "done"
  container,  \* "wav" | "mp3" | "flac"; never changes
  file,       \* frames in the output file
  held,       \* frames of packets answered Ok that are not in the file yet
  behind,     \* frames the muxer still holds behind what a failed write lost
  disk,       \* "none" | "open" | "final" | "broken"
  written,    \* MuxResult.frames_written
  dropped,    \* MuxResult.frames_dropped
  external,   \* external shutdown: "quiet", "raised" once sent or its sender dropped
  forwarder,  \* forwarder task: "idle" | "waiting" | "done"
  shutdown,   \* session shutdown: "raised" once the receivers have something to return
  caller,     \* "new" | "opening" | "running" | "awaitEncoder" | "awaitMux"
              \* | "stopped" | "failed"
  summary     \* {SessionInfo} once stop() returned one, else {}

encVars    == <<enc, hold>>
bufVars    == <<held, behind>>
muxVars    == <<mux, container, file, bufVars, disk, written, dropped>>
signalVars == <<external, forwarder, shutdown>>
callerVars == <<caller, summary>>
feedVars   == <<fed, pcmTx>>
vars == <<fed, pcmq, pcmTx, enc, hold, pktq, mux, container, file, held, behind,
          disk, written, dropped, external, forwarder, shutdown, caller, summary>>

Init ==
  /\ fed = 0
  /\ pcmq = <<>>
  /\ pcmTx = "open"
  /\ enc = "idle"
  /\ hold = 0
  /\ pktq = <<>>
  /\ mux = "idle"
  /\ container \in {"wav", "mp3", "flac"}
  /\ file = <<>>
  /\ held = <<>>
  /\ behind = <<>>
  /\ disk = "none"
  /\ written = 0
  /\ dropped = 0
  /\ external = "quiet"
  /\ forwarder = "idle"
  /\ shutdown = "quiet"
  /\ caller = "new"
  /\ summary = {}
-----------------------------------------------------------------------------
(* The feeder: whoever holds the PCM sender and the external shutdown.     *)

\* pcm_tx.send(frame): needs a live receiver and room.
Feed ==
  /\ pcmTx = "open"
  /\ enc # "done"
  /\ Len(pcmq) < PcmCap
  /\ fed < MaxFrames
  /\ fed' = fed + 1
  /\ pcmq' = Append(pcmq, fed + 1)
  /\ UNCHANGED <<pcmTx, encVars, pktq, muxVars, signalVars, callerVars>>

\* drop(pcm_tx): the end of the input.
EndInput ==
  /\ pcmTx = "open"
  /\ pcmTx' = "closed"
  /\ UNCHANGED <<fed, pcmq, encVars, pktq, muxVars, signalVars, callerVars>>

\* The external shutdown sender sends, or is dropped: recv() returns on both.
ExternalShutdown ==
  /\ external = "quiet"
  /\ external' = "raised"
  /\ UNCHANGED <<feedVars, pcmq, encVars, pktq, muxVars, forwarder, shutdown,
                 callerVars>>
-----------------------------------------------------------------------------
(* RecordingSession::start and SessionHandle::stop, run by the caller.     *)

\* The disk check or the encoder lookup fails: nothing was started.  The
\* receiver of the PCM channel goes with the session value.
StartRefused ==
  /\ caller = "new"
  /\ caller' = "failed"
  /\ enc' = "done"
  /\ UNCHANGED <<feedVars, pcmq, hold, pktq, muxVars, signalVars, summary>>

StartEncoder ==
  /\ caller = "new"
  /\ caller' = "opening"
  /\ enc' = "recv"
  /\ UNCHANGED <<feedVars, pcmq, hold, pktq, muxVars, signalVars, summary>>

\* mux.open succeeds; the forwarder and the mux task are spawned.
OpenMux ==
  /\ caller = "opening"
  /\ caller' = "running"
  /\ disk' = "open"
  /\ mux' = "recv"
  /\ forwarder' = "waiting"
  /\ UNCHANGED <<feedVars, pcmq, encVars, pktq, container, file, bufVars, written,
                 dropped, external, shutdown, summary>>

\* Mutated form: the caller keeps a shutdown sender of the failed session.
OpenMuxFailsLeaky ==
  /\ caller = "opening"
  /\ caller' = "failed"
  /\ mux' = "done"
  /\ disk' \in {"none", "broken"}
  /\ UNCHANGED <<feedVars, pcmq, encVars, pktq, container, file, bufVars, written,
                 dropped, signalVars, summary>>

\* mux.open fails after the encoder was spawned, perhaps with the file created:
\* start returns the error, and the drop of the only shutdown sender and of
\* the packet receiver is what ends the orphaned encoder.
OpenMuxFails ==
  /\ caller = "opening"
  /\ caller' = "failed"
  /\ mux' = "done"
  /\ disk' \in {"none", "broken"}
  /\ shutdown' = "raised"
  /\ UNCHANGED <<feedVars, pcmq, encVars, pktq, container, file, bufVars, written,
                 dropped, external, forwarder, summary>>

\* Mutated form: stop() awaits the tasks before it signals them.
StopAwaitsFirst ==
  /\ caller = "running"
  /\ caller' = "awaitEncoder"
  /\ UNCHANGED <<feedVars, pcmq, encVars, pktq, muxVars, signalVars, summary>>

Stop ==
  /\ caller = "running"
  /\ caller' = "awaitEncoder"
  /\ shutdown' = "raised"
  /\ UNCHANGED <<feedVars, pcmq, encVars, pktq, muxVars, external, forwarder,
                 summary>>

StopAwaitEncoder ==
  /\ caller = "awaitEncoder"
  /\ enc = "done"
  /\ caller' = "awaitMux"
  /\ UNCHANGED <<feedVars, pcmq, encVars, pktq, muxVars, signalVars, summary>>

\* SessionInfo, as far as it counts: frames_captured is the mux task's
\* frames_written.
Summary == [captured |-> written, dropped |-> dropped]

\* Mutated form: stop() reads the counters without awaiting the mux task.
StopReturnsEarly ==
  /\ caller = "awaitMux"
  /\ caller' = "stopped"
  /\ summary' = IF disk = "final" THEN {Summary} ELSE {}
  /\ UNCHANGED <<feedVars, pcmq, encVars, pktq, muxVars, signalVars>>

\* The summary repeats the mux task's counters; an error of finalize() is
\* returned instead of a summary.
StopReturns ==
  /\ caller = "awaitMux"
  /\ mux = "done"
  /\ caller' = "stopped"
  /\ summary' = IF disk = "final" THEN {Summary} ELSE {}
  /\ UNCHANGED <<feedVars, pcmq, encVars, pktq, muxVars, signalVars>>

\* Mutated form: the forwarder takes a closed channel for "no signal".
ForwardLost ==
  /\ forwarder = "waiting"
  /\ external = "raised"
  /\ forwarder' = "done"
  /\ UNCHANGED <<feedVars, pcmq, encVars, pktq, muxVars, external, shutdown,
                 callerVars>>

Forward ==
  /\ forwarder = "waiting"
  /\ external = "raised"
  /\ forwarder' = "done"
  /\ shutdown' = "raised"
  /\ UNCHANGED <<feedVars, pcmq, encVars, pktq, muxVars, external, callerVars>>
-----------------------------------------------------------------------------
(* The encoder task.                                                       *)

EncoderShutdown ==
  /\ enc = "recv"
  /\ shutdown = "raised"
  /\ enc' = "done"
  /\ UNCHANGED <<feedVars, pcmq, hold, pktq, muxVars, signalVars, callerVars>>

\* Mutated form: the select is not biased, a frame may go before the signal.
EncoderTakesAnyway ==
  /\ enc = "recv"
  /\ pcmq # <<>>
  /\ hold' = Head(pcmq)
  /\ pcmq' = Tail(pcmq)
  /\ enc' = "send"
  /\ UNCHANGED <<feedVars, pktq, muxVars, signalVars, callerVars>>

EncoderTakes ==
  /\ enc = "recv"
  /\ shutdown = "quiet"
  /\ pcmq # <<>>
  /\ hold' = Head(pcmq)
  /\ pcmq' = Tail(pcmq)
  /\ enc' = "send"
  /\ UNCHANGED <<feedVars, pktq, muxVars, signalVars, callerVars>>

\* Mutated form: the encoder ends as soon as the sender is gone.
EncoderEndsUndrained ==
  /\ enc = "recv"
  /\ pcmTx = "closed"
  /\ enc' = "done"
  /\ UNCHANGED <<feedVars, pcmq, hold, pktq, muxVars, signalVars, callerVars>>

EncoderInputEnds ==
  /\ enc = "recv"
  /\ shutdown = "quiet"
  /\ pcmq = <<>>
  /\ pcmTx = "closed"
  /\ enc' = "done"
  /\ UNCHANGED <<feedVars, pcmq, hold, pktq, muxVars, signalVars, callerVars>>

\* Mutated form: the packet channel is unbounded.
EncoderSendsUnbounded ==
  /\ enc = "send"
  /\ mux # "done"
  /\ pktq' = Append(pktq, hold)
  /\ hold' = 0
  /\ enc' = "recv"
  /\ UNCHANGED <<feedVars, pcmq, muxVars, signalVars, callerVars>>

\* packet_tx.send(pkt).await does not look at the shutdown signal.
EncoderSends ==
  /\ enc = "send"
  /\ mux # "done"
  /\ Len(pktq) < PktCap
  /\ pktq' = Append(pktq, hold)
  /\ hold' = 0
  /\ enc' = "recv"
  /\ UNCHANGED <<feedVars, pcmq, muxVars, signalVars, callerVars>>

\* Mutated form: the encoder tries the send again when it fails.
EncoderRetriesSend ==
  /\ enc = "send"
  /\ mux = "done"
  /\ UNCHANGED vars

EncoderSendFails ==
  /\ enc = "send"
  /\ mux = "done"
  /\ enc' = "done"
  /\ UNCHANGED <<feedVars, pcmq, hold, pktq, muxVars, signalVars, callerVars>>
-----------------------------------------------------------------------------
(* The mux task.  When the encoder is gone and the queue is empty the      *)
(* select disables the packet branch and goes on waiting for the shutdown: *)
(* that branch's pattern always matches, so `else` is never taken.         *)

MuxShutdown ==
  /\ mux = "recv"
  /\ shutdown = "raised"
  /\ mux' = "finalize"
  /\ UNCHANGED <<feedVars, pcmq, encVars, pktq, container, file, bufVars, disk,
                 written, dropped, signalVars, callerVars>>

\* The packets of the muxer from the file on, the next one the last.
There == Append(held, Head(pktq))

\* write_packet answers Ok: the muxer has the packet, and whatever its buffers
\* gave up is in the file.
MuxWrites ==
  /\ mux = "recv"
  /\ shutdown = "quiet"
  /\ pktq # <<>>
  /\ \E k \in 0 .. Len(There) :
       /\ Len(There) - k <= HoldCap
       /\ file' = file \o SubSeq(There, 1, k)
       /\ held' = SubSeq(There, k + 1, Len(There))
  /\ written' = written + 1
  /\ pktq' = Tail(pktq)
  /\ UNCHANGED <<feedVars, pcmq, encVars, mux, container, behind, disk, dropped,
                 signalVars, callerVars>>

\* What a failed write_packet may lose, from behind the first i of There up to
\* the j-th.  WAV loses the packet.  FLAC has drained the block: what pcm_buffer
\* held and the packet, but for the end of it that was not in the block.  LAME
\* has given the code of some of what it held, and keeps the rest.
MayLose(i, j) ==
  /\ container = "wav"  => i = Len(held) /\ j = Len(There)
  /\ container = "flac" => j >= Len(held)

\* write_packet fails: the packet is counted as dropped and the loop ends.  What
\* the writer held before may be in the file or be held still.
WriteFails ==
  /\ mux = "recv"
  /\ shutdown = "quiet"
  /\ pktq # <<>>
  /\ \E i \in 0 .. Len(held) : \E j \in i .. Len(There), k \in 0 .. i :
       /\ MayLose(i, j)
       /\ file' = file \o SubSeq(There, 1, k)
       /\ held' = SubSeq(There, k + 1, i)
       /\ behind' = SubSeq(There, j + 1, Len(There))
  /\ pktq' = Tail(pktq)
  /\ dropped' = dropped + 1
  /\ UNCHANGED <<feedVars, pcmq, encVars, container, disk, written, signalVars,
                 callerVars>>

\* Mutated form: the mux goes on with the next packet after a failed write.
MuxSkipsFailedWrite == WriteFails /\ UNCHANGED mux

MuxWriteFails == WriteFails /\ mux' = "finalize"

\* Mutated form: finalize() patches the header and leaves the buffers.
MuxFinalizesUnflushed ==
  /\ mux = "finalize"
  /\ disk' \in {"final", "broken"}
  /\ mux' = "done"
  /\ UNCHANGED <<feedVars, pcmq, encVars, pktq, container, file, bufVars, written,
                 dropped, signalVars, callerVars>>

\* finalize() writes what the muxer holds, behind the hole too, and patches the
\* header, or fails on the way; the rest is gone with the muxer.  LAME's flush
\* may leave samples in the encoder.  The packet receiver is dropped when the
\* task ends.
MuxFinalizes ==
  /\ mux = "finalize"
  /\ disk' \in {"final", "broken"}
  /\ LET rest == held \o behind
     IN \E k \in 0 .. Len(rest) :
          /\ disk' = "final" /\ container # "mp3" => k = Len(rest)
          /\ file' = file \o SubSeq(rest, 1, k)
  /\ held' = <<>>
  /\ behind' = <<>>
  /\ mux' = "done"
  /\ UNCHANGED <<feedVars, pcmq, encVars, pktq, container, written, dropped,
                 signalVars, callerVars>>
-----------------------------------------------------------------------------
Feeder  == Feed \/ EndInput \/ ExternalShutdown
Start   == StartRefused \/ StartEncoder \/ OpenMux \/ OpenMuxFails
Stopping == StopAwaitEncoder \/ StopReturns
Encoder == EncoderShutdown \/ EncoderTakes \/ EncoderInputEnds
           \/ EncoderSends \/ EncoderSendFails
Mux     == MuxShutdown \/ MuxWrites \/ MuxWriteFails \/ MuxFinalizes

Next == Feeder \/ Start \/ Stop \/ Stopping \/ Forward \/ Encoder \/ Mux

\* The runtime polls every spawned task and every awaited future again when
\* it can make progress; nothing obliges the caller to feed, stop or signal.
Fairness ==
  /\ WF_vars(Stopping)
  /\ WF_vars(Forward)
  /\ WF_vars(Encoder)
  /\ WF_vars(Mux)

Spec == Init /\ [][Next]_vars /\ Fairness
-----------------------------------------------------------------------------
(* What the session promises.                                              *)

\* Every variable stays in the range the code gives it; the queues never
\* exceed the capacity of their channels.
TypeOK ==
  /\ fed \in 0..MaxFrames
  /\ pcmq \in Seq(Nat) /\ Len(pcmq) <= PcmCap
  /\ pcmTx \in {"open", "closed"}
  /\ enc \in {"idle", "recv", "send", "done"}
  /\ hold \in Nat
  /\ pktq \in Seq(Nat) /\ Len(pktq) <= PktCap
  /\ mux \in {"idle", "recv", "finalize", "done"}
  /\ container \in {"wav", "mp3", "flac"}
  /\ file \in Seq(Nat)
  /\ held \in Seq(Nat) /\ Len(held) <= HoldCap
  /\ behind \in Seq(Nat)
  /\ disk \in {"none", "open", "final", "broken"}
  /\ written \in Nat
  /\ dropped \in Nat
  /\ external \in {"quiet", "raised"}
  /\ forwarder \in {"idle", "waiting", "done"}
  /\ shutdown \in {"quiet", "raised"}
  /\ caller \in {"new", "opening", "running", "awaitEncoder", "awaitMux",
                 "stopped", "failed"}
  /\ summary \subseteq [captured : Nat, dropped : Nat]

\* Frames held by the encoder between its two queues.
Held == IF hold = 0 THEN 0 ELSE 1

\* Where every accepted frame is: in order, with the muxer, the one failed
\* write, the packet queue, the encoder, the PCM queue.  The frames left in a
\* queue whose receiver is gone are the lost tail.
Chain ==
  /\ \A i \in 1..Len(pktq) : pktq[i] = written + dropped + i
  /\ hold # 0 => hold = written + dropped + Len(pktq) + 1
  /\ \A i \in 1..Len(pcmq) : pcmq[i] = written + dropped + Len(pktq) + Held + i
  /\ fed = written + dropped + Len(pktq) + Held + Len(pcmq)

\* Where the frames are that the muxer was given: in order, the file, what it
\* holds, what a failed write lost, and what it holds behind that, up to the
\* packet that failed.
Stored ==
  /\ written - Len(file) <= HoldCap
  /\ mux # "done" =>
       /\ \A i \in 1..Len(file) : file[i] = i
       /\ \A i \in 1..Len(held) : held[i] = Len(file) + i
       /\ \A i \in 1..Len(behind) : behind[i] = written + 1 - Len(behind) + i
       /\ Len(file) + Len(held) <= written
       /\ Len(file) + Len(held) + Len(behind) <= written + dropped
       /\ dropped = 0 \/ container = "wav" =>
            behind = <<>> /\ Len(file) + Len(held) = written
       /\ container = "flac" => Len(behind) <= 1

\* How the tasks, the caller and the file move together.
Control ==
  /\ enc = "send" <=> (hold # 0 /\ enc # "done")
  /\ dropped \in {0, 1}
  /\ mux \in {"idle", "recv"} => dropped = 0
  /\ disk = "open" <=> mux \in {"recv", "finalize"}
  /\ caller = "new" => enc = "idle"
  /\ caller \in {"new", "opening"} => mux = "idle" /\ disk = "none"
  /\ caller \in {"running", "awaitEncoder", "awaitMux", "stopped"} => mux # "idle"
  /\ mux = "done" /\ caller # "failed" => disk \in {"final", "broken"}
  /\ caller \in {"awaitMux", "stopped"} => enc = "done"
  /\ caller = "stopped" => mux = "done"
  /\ caller # "stopped" => summary = {}

\* Whatever stops the session (stop, the external signal, a write error, the
\* end of the input) and whatever fails, what a caller fed and the file lacks is
\* at most what the two queues, the encoder, the muxer's buffers and one failed
\* write can hold.
LossBounded == fed - Len(file) <= PcmCap + PktCap + HoldCap + 2

\* When stop() has returned, with a summary or with an error, no task is left
\* that could still touch the file, and the file has been closed.
StoppedMeansQuiet ==
  caller = "stopped" => /\ enc = "done"
                        /\ mux = "done"
                        /\ disk \in {"final", "broken"}

\* The most steps that the tasks, and a stop() that awaits them, have left
\* after the signal.
StepsLeft ==
  LET encSteps    == [idle |-> 0, recv |-> 1, send |-> 2, done |-> 0]
      muxSteps    == [idle |-> 0, recv |-> 2, finalize |-> 1, done |-> 0]
      callerSteps == [new |-> 0, opening |-> 0, running |-> 3, awaitEncoder |-> 2,
                      awaitMux |-> 1, stopped |-> 0, failed |-> 0]
  IN encSteps[enc] + muxSteps[mux] + callerSteps[caller]
       + IF forwarder = "waiting" THEN 1 ELSE 0

\* The tasks look at the signal before their queues: from the signal on every
\* step of theirs brings the session nearer to its end, however full the
\* queues are and however fast the feeder is, no packet is given to the muxer any
\* more, and stop() does not return before the end.
SignalEndsWork ==
  [][shutdown = "raised" =>
       /\ UNCHANGED <<written, dropped>>
       /\ StepsLeft' < StepsLeft \/ UNCHANGED <<enc, mux, caller, forwarder>>
       /\ StoppedMeansQuiet']_vars

\* A session is a recording: the file is the accepted frames in order, without
\* gap or repetition but for what one failed write lost; a session without a
\* failure ends with a file of every packet that was taken (but for what LAME
\* keeps); the file is closed once and frozen from then on, and the summary of
\* stop() counts exactly the packets that were taken and the one that failed.
R == INSTANCE Recording WITH
       accepted <- fed,
       taken <- written,
       failed <- dropped,
       status <- IF disk = "open" THEN "writing" ELSE disk
IsRecording == R!Spec

\* stop() returns, although it awaits the encoder first and the encoder may
\* sit in a send on a full packet queue that nobody drains any more.
StopEventuallyReturns == (caller = "awaitEncoder") ~> (caller = "stopped")

\* The external signal (or the loss of its sender) ends both tasks of a
\* running session without any call of stop().
ExternalSignalEnds ==
  (external = "raised" /\ caller = "running") ~> (enc = "done" /\ mux = "done")

\* If the caller closes its channel and nothing asks the session to stop or
\* fails, every frame it fed reaches the muxer.
InputDrains ==
  (pcmTx = "closed" /\ caller = "running") ~> (shutdown = "raised" \/ mux # "recv" \/ written = fed)

\* A start that fails because the file cannot be opened leaves no encoder
\* task behind.
FailedStartLeavesNoTask == (caller = "failed") ~> (enc = "done")

\* A feeder blocked on a full channel of a started session is released:
\* either room is made or the channel is closed and its send fails.
FeederReleased ==
  (Len(pcmq) = PcmCap /\ caller \notin {"new", "opening"})
    ~> (Len(pcmq) < PcmCap \/ enc = "done")
=============================================================================
