------------------------------- MODULE Backend -------------------------------
(***************************************************************************)
(* The device backend (bsm-audio/src/wasapi.rs) under its pipeline         *)
(* (pipeline.rs), with the capture threads it spawns: one per open, which  *)
(* reads the system's audio (monitor.rs on Linux, loopback.rs on Windows)  *)
(* or builds the stream of an input device and waits to be stopped.        *)
(* Thread g belongs to the g-th successful open, and so do its frame       *)
(* channel and its stop channel.                                           *)
(*                                                                         *)
(*   capture thread --frames (64)--> rx     stop_tx --stop (1)--> thread   *)
(*                                                                         *)
(* Both are crossbeam channels: a send on a full channel blocks until a    *)
(* frame is taken or the last receiver is dropped.  next_frame receives in *)
(* a blocking task, on a clone of the receiver.  If its future is dropped  *)
(* (the dispatcher's select does so) that task stays, an orphan that takes *)
(* the next frame and throws it away.                                      *)
(*                                                                         *)
(* The pipeline's methods take &mut self, so no two calls overlap.         *)
(***************************************************************************)
EXTENDS Negotiation, FiniteSets

CONSTANTS
  Requests,   \* formats the caller asks for
  Machines,   \* pairs of an input device that is plugged in and the source of
              \* the system's audio
  MixRate,    \* rate of the Windows render mix
  Cap,        \* capacity of a frame channel (64)
  MaxOpens,   \* bound of the model: successful opens
  MaxFrames,  \* bound of the model: frames a thread captures
  MaxCancels  \* bound of the model: receives abandoned on one channel

ASSUME BackendAssumption ==
  /\ Requests # {} /\ Requests \subseteq Formats /\ MixRate \in Nat /\ Machines # {}
  /\ \A machine \in Machines :
       /\ machine = <<machine[1], machine[2]>>
       /\ machine[1] \in Seq(Configs) \ {<<>>} /\ machine[2] \in {"monitor", "loopback"}
  /\ {Cap, MaxOpens, MaxFrames, MaxCancels} \subseteq Nat \ {0}

Opens   == 1 .. MaxOpens
System  == {"monitor", "loopback"}
Sources == System \cup {"input"}

VARIABLES
  plugged,   \* the input device
  system,    \* the source of the system's audio on this platform
  asked,     \* per open: the format asked for
  kind,      \* per open: "none" or one of Sources
  thread,    \* per open: "none" | "check" | "capture" | "send" | "wait" | "done";
             \* "wait" is an input's thread without a stream
  captured,  \* per open: frames captured; they are numbered by it
  frames,    \* per open: the frame channel
  stopMsg,   \* per open: a stop was sent and not yet taken
  orphans,   \* per open: abandoned receives
  cancelled, \* per open: receives ever abandoned
  seen,      \* per open: frames that next_frame returned
  rx,        \* WasapiBackend.rx: the open whose receiver it holds, 0 for none
  stopTx,    \* WasapiBackend.stop_tx: the open whose sender it holds, 0 for none
  active,    \* WasapiBackend.active
  actual,    \* WasapiBackend.actual_format: a set of at most one format
  opens,     \* successful opens so far
  caller     \* "idle" | "receiving" | "dropped"

threadVars == <<thread, captured, frames, stopMsg>>
readVars   == <<orphans, cancelled, seen>>
openVars   == <<plugged, system, asked, kind, rx, actual, opens>>
vars == <<threadVars, readVars, openVars, stopTx, active, caller>>

Init ==
  /\ \E machine \in Machines : plugged = machine[1] /\ system = machine[2]
  /\ asked = [g \in Opens |-> CHOOSE f \in Requests : TRUE]
  /\ kind = [g \in Opens |-> "none"]
  /\ thread = [g \in Opens |-> "none"]
  /\ captured = [g \in Opens |-> 0]
  /\ frames = [g \in Opens |-> <<>>]
  /\ stopMsg = [g \in Opens |-> FALSE]
  /\ orphans = [g \in Opens |-> 0]
  /\ cancelled = [g \in Opens |-> 0]
  /\ seen = [g \in Opens |-> <<>>]
  /\ rx = 0 /\ stopTx = 0 /\ active = FALSE /\ actual = {} /\ opens = 0
  /\ caller = "idle"

\* Someone can still take a frame from channel g.
HasReceiver(g) == rx = g \/ orphans[g] > 0

\* Nobody will send on channel g again: its sender was dropped, by the monitor
\* thread or with the stream.
SenderGone(g) == thread[g] \in {"wait", "done"}
-----------------------------------------------------------------------------
(* open_device.  An open that fails keeps the device, the channels and the *)
(* format there were, and is left out; so is device_name, which nobody     *)
(* reads.                                                                  *)

\* The thread of open g begins.
Spawn(g, source, first) ==
  /\ kind' = [kind EXCEPT ![g] = source]
  /\ thread' = [thread EXCEPT ![g] = first]
  /\ opens' = g
  /\ rx' = g
  /\ stopTx' = g
  /\ frames' = [h \in Opens |-> IF h = rx /\ orphans[h] = 0 THEN <<>> ELSE frames[h]]

\* The monitor source gives exactly the format asked for.
OpenMonitor(f) ==
  /\ caller = "idle" /\ opens < MaxOpens /\ system = "monitor"
  /\ Spawn(opens + 1, "monitor", "check")
  /\ asked' = [asked EXCEPT ![opens + 1] = f]
  /\ actual' = {[rate |-> f.rate, channels |-> f.channels, bits |-> 16]}
  /\ UNCHANGED <<plugged, system, captured, stopMsg, readVars, active, caller>>

\* open_device waits for the thread to set up the render endpoint, and answers
\* with the rate of its mix.
OpenLoopback(f) ==
  /\ caller = "idle" /\ opens < MaxOpens /\ system = "loopback"
  /\ Spawn(opens + 1, "loopback", "check")
  /\ asked' = [asked EXCEPT ![opens + 1] = f]
  /\ actual' = {[rate |-> MixRate, channels |-> f.channels, bits |-> 16]}
  /\ UNCHANGED <<plugged, system, captured, stopMsg, readVars, active, caller>>

\* Mutated form: the new receiver is kept next to the old one.
OpenInputLeaky(f) ==
  /\ caller = "idle" /\ opens < MaxOpens
  /\ \E first \in {"capture", "wait"} :
       /\ first = "capture" => Offers(plugged, Stream(plugged, f))
       /\ kind' = [kind EXCEPT ![opens + 1] = "input"]
       /\ thread' = [thread EXCEPT ![opens + 1] = first]
       /\ opens' = opens + 1
       /\ rx' = opens + 1
       /\ stopTx' = IF stopTx = 0 THEN opens + 1 ELSE stopTx
       /\ UNCHANGED frames
  /\ asked' = [asked EXCEPT ![opens + 1] = f]
  /\ actual' = {Actual(plugged, f)}
  /\ UNCHANGED <<plugged, system, captured, stopMsg, readVars, active, caller>>

\* The stream is built in the thread, after open_device has answered Ok; if
\* that fails, the callback and its sender of frames are dropped.
OpenInput(f) ==
  /\ caller = "idle" /\ opens < MaxOpens
  /\ \E first \in {"capture", "wait"} :
       /\ first = "capture" => Offers(plugged, Stream(plugged, f))
       /\ Spawn(opens + 1, "input", first)
  /\ asked' = [asked EXCEPT ![opens + 1] = f]
  /\ actual' = {Actual(plugged, f)}
  /\ UNCHANGED <<plugged, system, captured, stopMsg, readVars, active, caller>>
-----------------------------------------------------------------------------
(* The other calls.                                                        *)

Start ==
  /\ caller = "idle" /\ ~active
  /\ active' = TRUE
  /\ UNCHANGED <<threadVars, readVars, openVars, stopTx, caller>>

\* stop and close: the stop sender is used once and dropped.
Stop ==
  /\ caller = "idle" /\ (active \/ stopTx # 0)
  /\ active' = FALSE
  /\ stopMsg' = [g \in Opens |-> stopMsg[g] \/ g = stopTx]
  /\ stopTx' = 0
  /\ UNCHANGED <<thread, captured, frames, readVars, openVars, caller>>

\* next_frame; without an open device or a start it answers None at once.
NextFrame ==
  /\ caller = "idle" /\ active /\ rx # 0
  /\ caller' = "receiving"
  /\ UNCHANGED <<threadVars, readVars, openVars, stopTx, active>>

ReturnFrame ==
  /\ caller = "receiving"
  /\ frames[rx] # <<>>
  /\ frames' = [frames EXCEPT ![rx] = Tail(@)]
  /\ seen' = [seen EXCEPT ![rx] = Append(@, Head(frames[rx]))]
  /\ caller' = "idle"
  /\ UNCHANGED <<thread, captured, stopMsg, orphans, cancelled, openVars, stopTx,
                 active>>

\* Mutated form: the backend keeps a sender until it is stopped.
ReturnNoneLate ==
  /\ caller = "receiving" /\ ~active
  /\ SenderGone(rx) /\ frames[rx] = <<>>
  /\ caller' = "idle"
  /\ UNCHANGED <<threadVars, readVars, openVars, stopTx, active>>

\* The sender is gone and the channel empty: None.
ReturnNone ==
  /\ caller = "receiving"
  /\ SenderGone(rx) /\ frames[rx] = <<>>
  /\ caller' = "idle"
  /\ UNCHANGED <<threadVars, readVars, openVars, stopTx, active>>

\* The future of next_frame is dropped; its blocking task goes on.
Cancel ==
  /\ caller = "receiving" /\ cancelled[rx] < MaxCancels
  /\ caller' = "idle"
  /\ orphans' = [orphans EXCEPT ![rx] = @ + 1]
  /\ cancelled' = [cancelled EXCEPT ![rx] = @ + 1]
  /\ UNCHANGED <<threadVars, seen, openVars, stopTx, active>>

OrphanReturns(g) ==
  /\ orphans[g] > 0
  /\ frames[g] # <<>> \/ SenderGone(g)
  /\ orphans' = [orphans EXCEPT ![g] = @ - 1]
  /\ frames' = [frames EXCEPT ![g] =
       IF @ = <<>> \/ (orphans[g] = 1 /\ rx # g) THEN <<>> ELSE Tail(@)]
  /\ UNCHANGED <<thread, captured, stopMsg, cancelled, seen, openVars, stopTx, active,
                 caller>>

\* The owner of the pipeline drops it.
Drop ==
  /\ caller = "idle"
  /\ caller' = "dropped"
  /\ rx' = 0 /\ stopTx' = 0
  /\ frames' = [g \in Opens |-> IF g = rx /\ orphans[g] = 0 THEN <<>> ELSE frames[g]]
  /\ UNCHANGED <<thread, captured, stopMsg, readVars, plugged, system, asked, kind,
                 actual, opens, active>>
-----------------------------------------------------------------------------
(* The capture threads.                                                    *)

\* try_recv on the stop channel: only a message counts, not a dropped sender.
Checks(g) ==
  /\ thread[g] = "check"
  /\ thread' = [thread EXCEPT ![g] = IF stopMsg[g] THEN "done" ELSE "capture"]
  /\ stopMsg' = [stopMsg EXCEPT ![g] = FALSE]
  /\ UNCHANGED <<captured, frames, readVars, openVars, stopTx, active, caller>>

\* play was called and the stream dropped at the end of its `if let`, which
\* waits for a callback that is running.  Callbacks run from the build on.
DropStream(g) ==
  /\ kind[g] = "input" /\ thread[g] = "capture"
  /\ thread' = [thread EXCEPT ![g] = "wait"]
  /\ UNCHANGED <<captured, frames, stopMsg, readVars, openVars, stopTx, active, caller>>

\* recv on the stop channel returns on a message and on a dropped sender.
InputStops(g) ==
  /\ kind[g] = "input" /\ thread[g] = "wait"
  /\ stopMsg[g] \/ stopTx # g
  /\ thread' = [thread EXCEPT ![g] = "done"]
  /\ UNCHANGED <<captured, frames, stopMsg, readVars, openVars, stopTx, active, caller>>

\* A chunk or packet is read, or the callback of the stream is called.  Once the open was
\* replaced no call returns its chunks, and they need no number of their own.
CaptureChunk(g) ==
  /\ thread[g] = "capture"
  /\ IF captured[g] < MaxFrames
       THEN captured' = [captured EXCEPT ![g] = @ + 1]
       ELSE rx # g /\ UNCHANGED captured
  /\ thread' = [thread EXCEPT ![g] = "send"]
  /\ UNCHANGED <<frames, stopMsg, readVars, openVars, stopTx, active, caller>>

\* The sound server is gone.
ReadFails(g) ==
  /\ kind[g] = "monitor" /\ thread[g] = "capture"
  /\ thread' = [thread EXCEPT ![g] = "done"]
  /\ UNCHANGED <<captured, frames, stopMsg, readVars, openVars, stopTx, active, caller>>

\* Nothing is playing, the endpoint is lost or refuses its buffer: each ends the
\* loopback's inner loop, which then sleeps and looks for a stop.
NoPacket(g) ==
  /\ kind[g] = "loopback" /\ thread[g] = "capture"
  /\ thread' = [thread EXCEPT ![g] = "check"]
  /\ UNCHANGED <<captured, frames, stopMsg, readVars, openVars, stopTx, active, caller>>

\* Where a thread goes when its frame was sent; the loopback reads on until
\* there is no packet.
Again(g) == IF kind[g] = "monitor" THEN "check" ELSE "capture"

\* Mutated form: a full channel drops its oldest frame (a ring buffer).
SendFrameRing(g) ==
  /\ thread[g] = "send" /\ HasReceiver(g)
  /\ frames' = [frames EXCEPT ![g] =
       Append(IF Len(@) = Cap THEN Tail(@) ELSE @, captured[g])]
  /\ thread' = [thread EXCEPT ![g] = Again(g)]
  /\ UNCHANGED <<captured, stopMsg, readVars, openVars, stopTx, active, caller>>

SendFrame(g) ==
  /\ thread[g] = "send" /\ HasReceiver(g)
  /\ Len(frames[g]) < Cap
  /\ frames' = [frames EXCEPT ![g] = Append(@, captured[g])]
  /\ thread' = [thread EXCEPT ![g] = Again(g)]
  /\ UNCHANGED <<captured, stopMsg, readVars, openVars, stopTx, active, caller>>

\* Mutated form: the reading threads go on when their consumer is gone.
SendIgnored(g) ==
  /\ thread[g] = "send" /\ ~HasReceiver(g)
  /\ thread' = [thread EXCEPT ![g] = Again(g)]
  /\ UNCHANGED <<captured, frames, stopMsg, readVars, openVars, stopTx, active, caller>>

\* No receiver is left: a reading thread ends, the callback of an input ignores
\* the error.
SendFails(g) ==
  /\ thread[g] = "send" /\ ~HasReceiver(g)
  /\ thread' = [thread EXCEPT ![g] = IF kind[g] \in System THEN "done" ELSE "capture"]
  /\ UNCHANGED <<captured, frames, stopMsg, readVars, openVars, stopTx, active, caller>>
-----------------------------------------------------------------------------
Call ==
  \/ \E f \in Requests : OpenMonitor(f) \/ OpenLoopback(f) \/ OpenInput(f)
  \/ Start \/ Stop \/ NextFrame \/ Cancel \/ Drop

Return == ReturnFrame \/ ReturnNone

Send(g) == SendFrame(g) \/ SendFails(g)

Next ==
  \/ Call \/ Return
  \/ \E g \in Opens :
       \/ OrphanReturns(g) \/ Checks(g) \/ DropStream(g) \/ InputStops(g)
       \/ CaptureChunk(g) \/ ReadFails(g) \/ NoPacket(g) \/ Send(g)

\* Threads run, blocking receives return, and a monitor source always has
\* something to read (silence when nothing plays), which a loopback has not.  A
\* stream that is dropped makes no new callback.  Nothing is assumed of the callbacks of an input
\* device, of failures, and of the caller.
Fairness ==
  /\ WF_vars(Return)
  /\ \A g \in Opens :
       /\ WF_vars(OrphanReturns(g))
       /\ WF_vars(Checks(g))
       /\ SF_vars(DropStream(g))
       /\ WF_vars(InputStops(g))
       /\ WF_vars(kind[g] = "monitor" /\ CaptureChunk(g))
       /\ WF_vars(kind[g] = "loopback" /\ (CaptureChunk(g) \/ NoPacket(g)))
       /\ WF_vars(Send(g))

Spec == Init /\ [][Next]_vars /\ Fairness
-----------------------------------------------------------------------------
(* Properties.                                                             *)

\* Every variable has its type; the stop sender is of the thread whose frames
\* are received.
TypeOK ==
  /\ <<plugged, system>> \in Machines
  /\ asked \in [Opens -> Requests]
  /\ kind \in [Opens -> {"none"} \cup Sources]
  /\ thread \in [Opens -> {"none", "check", "capture", "send", "wait", "done"}]
  /\ captured \in [Opens -> 0 .. MaxFrames]
  /\ \A g \in Opens : frames[g] \in Seq(1 .. MaxFrames) /\ Len(frames[g]) <= Cap
  /\ stopMsg \in [Opens -> BOOLEAN]
  /\ orphans \in [Opens -> Nat] /\ cancelled \in [Opens -> Nat]
  /\ \A g \in Opens : seen[g] \in Seq(1 .. MaxFrames)
  /\ rx \in 0 .. MaxOpens /\ stopTx \in {0, rx} /\ opens \in 0 .. MaxOpens
  /\ active \in BOOLEAN
  /\ actual \subseteq Formats /\ Cardinality(actual) <= 1
  /\ caller \in {"idle", "receiving", "dropped"}

\* next_frame returns the frames of a thread in the order of their capture,
\* none twice, and misses no more of them than there were abandoned calls: a
\* slow reader holds the capture up, it does not lose frames.
FramesInOrder ==
  \A g \in Opens :
    /\ \A i \in 1 .. Len(seen[g]) - 1 : seen[g][i] < seen[g][i + 1]
    /\ seen[g] # <<>> => seen[g][Len(seen[g])] - Len(seen[g]) <= cancelled[g]

\* If a configuration with the channels asked for contains the rate asked for,
\* the stream's rate is off by no more than the bonus of the bit depth.
NegotiatedNear ==
  \A g \in Opens : kind[g] = "input" =>
    LET f == asked[g]
        r == Stream(plugged, f).rate
    IN (\E i \in DOMAIN plugged : /\ plugged[i].channels = f.channels
                                  /\ f.rate \in plugged[i].low .. plugged[i].high)
         => r - f.rate \in -1000 .. 1000

\* A capture thread whose device was replaced, or whose backend was dropped,
\* ends: from a blocked send, a read or a wait, with abandoned receives, stopped
\* or not.  A loopback that was not stopped ends with its next packet only, which
\* nothing promises.
ReplacedThreadEnds ==
  \A g \in Opens :
    (/\ kind[g] # "none" /\ rx # g
     /\ kind[g] = "loopback" => stopMsg[g] \/ (thread[g] = "send" /\ ~HasReceiver(g)))
      ~> (thread[g] = "done")

\* next_frame returns: on a monitor source with the next chunk, on a source
\* that has ended, or a stream that was never built, with None.  An abandoned
\* call may take the chunk it waits for.  On a silent loopback it waits.
NextFrameReturns ==
  (/\ caller = "receiving" /\ orphans[rx] = 0
   /\ SenderGone(rx) \/ (kind[rx] = "monitor" /\ captured[rx] < MaxFrames))
    ~> (caller # "receiving")
=============================================================================
