------------------------------- MODULE Server -------------------------------
(***************************************************************************)
(* The control server (bsm-ipc/src/server.rs): the loop that accepts       *)
(* clients, the handler of every connection, the telemetry streams, and    *)
(* the end of it all on ctrl-c.  On Unix the loop awaits a socket; on      *)
(* Windows a thread of its own creates one instance of a named pipe after  *)
(* the other and blocks until a client has opened it.                      *)
(*                                                                         *)
(*   client --lines--> handler --> its Dispatcher --emit--> broadcast (32) *)
(*   client <--events-- stream <------------------------------+            *)
(*                                                                         *)
(* Telemetry is one broadcast channel: every receiver has a position of    *)
(* its own, and one that is more than the capacity behind is told that it  *)
(* lags.  What a dispatcher does is in Dispatcher; here it only emits.     *)
(* A reply is only written or not, and the connection that wakes the pipe  *)
(* is not served further: its handler finds the flag.                      *)
(***************************************************************************)
EXTENDS Integers, Sequences, FiniteSets

CONSTANTS
  Clients,
  EventCap,   \* capacity of the telemetry channel (32)
  MaxLines,   \* bound of the model: lines a client sends
  MaxEvents   \* bound of the model: events emitted

ASSUME ServerAssumption ==
  /\ "wake" \notin Clients
  /\ EventCap \in Nat \ {0}
  /\ MaxLines \in Nat /\ MaxEvents \in Nat

\* What a line may say, which nobody knows before it is read.  A command is any
\* line with a reply but StartRecording, a malformed one included.
Lines == {"command", "start", "blank", "subscribe"}

VARIABLES
  os,        \* "unix" | "windows"
  shutdown,  \* the flag that ctrl-c sets
  wakes,     \* tasks that will still open the pipe to wake the acceptor
  acceptor,  \* "check" | "create" | "created" | "listen" | "drain" | "ended"
  waiting,   \* who has connected and was not accepted
  conn,      \* per client: "new" | "open" | "cut" | "closed"
  lines,     \* per client: how many lines it has sent that were not read
  sent,      \* per client: how many lines it has sent
  handler,   \* per client: "none" | "check" | "read" | "reply" | "ack"
             \* | "subscribe" | "stream" | "write" | "stop" | "last" | "drop"
             \* | "done"
  runtime,   \* per client: its dispatcher has a runtime, which StartRecording makes
  emitted,   \* events emitted; they are numbered by it
  from,      \* per client: the last event before its subscription
  next,      \* per client: the next event of its receiver
  got        \* per client: events written to it

clientVars == <<conn, lines, sent>>
streamVars == <<from, next, got>>
acceptVars == <<os, shutdown, wakes, acceptor, waiting>>
vars == <<acceptVars, clientVars, handler, runtime, emitted, streamVars>>

Init ==
  /\ os \in {"unix", "windows"}
  /\ shutdown = FALSE
  /\ wakes = 0
  /\ acceptor = "check"
  /\ waiting = {}
  /\ conn = [c \in Clients |-> "new"]
  /\ lines = [c \in Clients |-> 0]
  /\ sent = [c \in Clients |-> 0]
  /\ handler = [c \in Clients |-> "none"]
  /\ runtime = [c \in Clients |-> FALSE]
  /\ emitted = 0
  /\ from = [c \in Clients |-> 0]
  /\ next = [c \in Clients |-> 1]
  /\ got = [c \in Clients |-> <<>>]

Go(c, to) == handler' = [handler EXCEPT ![c] = to]
-----------------------------------------------------------------------------
(* The clients, and ctrl-c.                                                *)

\* A socket has a backlog; an instance of a pipe is opened by one client.
Listening ==
  IF os = "unix" THEN acceptor \in {"check", "listen"}
                 ELSE acceptor \in {"created", "listen"} /\ waiting = {}

\* Mutated form: an instance of a pipe that is open is opened again.
ConnectShares(c) ==
  /\ conn[c] = "new" /\ acceptor \in {"check", "created", "listen"}
  /\ conn' = [conn EXCEPT ![c] = "open"]
  /\ waiting' = waiting \cup {c}
  /\ UNCHANGED <<os, shutdown, wakes, acceptor, lines, sent, handler, runtime,
                 emitted, streamVars>>

Connect(c) ==
  /\ conn[c] = "new" /\ Listening
  /\ conn' = [conn EXCEPT ![c] = "open"]
  /\ waiting' = waiting \cup {c}
  /\ UNCHANGED <<os, shutdown, wakes, acceptor, lines, sent, handler, runtime,
                 emitted, streamVars>>

SendLine(c) ==
  /\ conn[c] = "open" /\ sent[c] < MaxLines
  /\ lines' = [lines EXCEPT ![c] = @ + 1]
  /\ sent' = [sent EXCEPT ![c] = @ + 1]
  /\ UNCHANGED <<acceptVars, conn, handler, runtime, emitted, streamVars>>

CloseClient(c) ==
  /\ conn[c] = "open"
  /\ conn' = [conn EXCEPT ![c] = "closed"]
  /\ UNCHANGED <<acceptVars, lines, sent, handler, runtime, emitted, streamVars>>

\* Two tasks wake the acceptor: the one that set the flag, at once, and the one
\* that will join the acceptor, when it sees the flag.
CtrlC ==
  /\ ~shutdown /\ acceptor # "ended"
  /\ shutdown' = TRUE
  /\ wakes' = IF os = "windows" THEN 2 ELSE 0
  /\ UNCHANGED <<os, acceptor, waiting, clientVars, handler, runtime, emitted,
                 streamVars>>

\* wake_acceptor: without an instance to open nothing happens.
Wake ==
  /\ wakes > 0
  /\ wakes' = wakes - 1
  /\ waiting' = IF Listening THEN {"wake"} ELSE waiting
  /\ UNCHANGED <<os, shutdown, acceptor, clientVars, handler, runtime, emitted,
                 streamVars>>
-----------------------------------------------------------------------------
(* The acceptor.                                                           *)

\* Who was waiting finds the connection closed.
CutWaiting ==
  /\ conn' = [c \in Clients |-> IF c \in waiting /\ conn[c] = "open" THEN "cut" ELSE conn[c]]
  /\ waiting' = {}

\* Mutated form: the flag is not looked at.
CheckNever ==
  /\ acceptor = "check"
  /\ acceptor' = IF os = "unix" THEN "listen" ELSE "create"
  /\ UNCHANGED <<os, shutdown, wakes, waiting, clientVars, handler, runtime,
                 emitted, streamVars>>

\* The top of the loop.
CheckShutdown ==
  /\ acceptor = "check"
  /\ IF shutdown
       THEN acceptor' = (IF os = "unix" THEN "ended" ELSE "drain") /\ CutWaiting
       ELSE acceptor' = (IF os = "unix" THEN "listen" ELSE "create")
            /\ UNCHANGED <<conn, waiting>>
  /\ UNCHANGED <<os, shutdown, wakes, lines, sent, handler, runtime, emitted,
                 streamVars>>

\* CreateNamedPipeW; without a handle the loop starts again after 200 ms.
CreatePipe ==
  /\ acceptor = "create"
  /\ acceptor' \in {"created", "check"}
  /\ UNCHANGED <<os, shutdown, wakes, waiting, clientVars, handler, runtime,
                 emitted, streamVars>>

\* ConnectNamedPipe begins to wait.
AwaitClient ==
  /\ acceptor = "created" /\ waiting = {}
  /\ acceptor' = "listen"
  /\ UNCHANGED <<os, shutdown, wakes, waiting, clientVars, handler, runtime,
                 emitted, streamVars>>

\* ConnectNamedPipe answers 0, which it also does for a client that opened the
\* instance before the call (ERROR_PIPE_CONNECTED): the instance is closed.
ConnectFails ==
  /\ os = "windows" /\ acceptor \in {"created", "listen"}
  /\ acceptor = "created" => waiting # {}
  /\ acceptor' = "check"
  /\ CutWaiting
  /\ UNCHANGED <<os, shutdown, wakes, lines, sent, handler, runtime, emitted,
                 streamVars>>

\* A connection is taken and its handler spawned.
Accept(w) ==
  /\ acceptor = "listen" /\ w \in waiting
  /\ waiting' = waiting \ {w}
  /\ acceptor' = "check"
  /\ handler' = [c \in Clients |-> IF c # w THEN handler[c]
                                   ELSE IF os = "unix" THEN "read" ELSE "check"]
  /\ UNCHANGED <<os, shutdown, wakes, clientVars, runtime, emitted, streamVars>>

\* accept answers an error, which ends the server.
AcceptFails ==
  /\ os = "unix" /\ acceptor = "listen"
  /\ acceptor' = "ended"
  /\ CutWaiting
  /\ UNCHANGED <<os, shutdown, wakes, lines, sent, handler, runtime, emitted,
                 streamVars>>

\* The acceptor's runtime is dropped, which waits for every handler.
Drained ==
  /\ acceptor = "drain"
  /\ \A c \in Clients : handler[c] \in {"none", "done"}
  /\ acceptor' = "ended"
  /\ UNCHANGED <<os, shutdown, wakes, waiting, clientVars, handler, runtime,
                 emitted, streamVars>>
-----------------------------------------------------------------------------
(* A handler.  Its dispatcher lives as long as it does on Windows, and on  *)
(* Unix until the stream begins, which is a task of its own.               *)

HasDispatcher(c) ==
  handler[c] \in {"check", "read", "reply", "ack", "subscribe", "stop", "last", "drop"}
    \cup (IF os = "windows" THEN {"stream", "write"} ELSE {})

\* After a line a pipe's handler looks at the flag before it reads the next.
Again == IF os = "unix" THEN "read" ELSE "check"

\* The top of a pipe's loop.
CheckBeforeRead(c) ==
  /\ handler[c] = "check"
  /\ Go(c, IF shutdown THEN "stop" ELSE "read")
  /\ UNCHANGED <<acceptVars, clientVars, runtime, emitted, streamVars>>

\* A line is read, and handled up to its reply unless it is blank.  The flag comes
\* first on Unix, the blank line on Windows.
ReadLine(c, line) ==
  /\ handler[c] = "read" /\ lines[c] > 0
  /\ lines' = [lines EXCEPT ![c] = @ - 1]
  /\ LET stops == shutdown /\ (os = "unix" \/ line # "blank")
     IN /\ Go(c, IF stops THEN "stop"
                 ELSE IF line = "blank" THEN Again
                 ELSE IF line = "subscribe" THEN "ack" ELSE "reply")
        /\ runtime' = [runtime EXCEPT ![c] = @ \/ (line = "start" /\ ~stops)]
  /\ UNCHANGED <<acceptVars, conn, sent, emitted, streamVars>>

\* What follows the reply in the making.
AfterReply(c) ==
  CASE handler[c] = "reply" -> Again
    [] handler[c] = "ack"   -> "subscribe"
    [] handler[c] = "last"  -> "drop"

\* The reply is written, when the client has room for it.
ReplyTaken(c) ==
  /\ handler[c] \in {"reply", "ack", "last"} /\ conn[c] = "open"
  /\ Go(c, AfterReply(c))
  /\ UNCHANGED <<acceptVars, clientVars, runtime, emitted, streamVars>>

\* Mutated form: a reply to a client that is gone is tried again.
ReplyRetried(c) ==
  /\ handler[c] \in {"reply", "ack", "last"} /\ conn[c] = "closed"
  /\ UNCHANGED vars

\* The client is gone: on Unix the write fails, which ends the handler, on Windows
\* its error is ignored.
ReplyFails(c) ==
  /\ handler[c] \in {"reply", "ack", "last"} /\ conn[c] = "closed"
  /\ Go(c, IF os = "unix" THEN "drop" ELSE AfterReply(c))
  /\ UNCHANGED <<acceptVars, clientVars, runtime, emitted, streamVars>>

\* The end of the input.
EndOfInput(c) ==
  /\ handler[c] = "read" /\ lines[c] = 0 /\ conn[c] = "closed"
  /\ Go(c, "drop")
  /\ UNCHANGED <<acceptVars, clientVars, runtime, emitted, streamVars>>

\* The drop of a dispatcher's runtime (see Dispatcher) panics on Unix, and on
\* Windows returns when the device has let go of the calls left behind: at the end
\* of a shutdown, or of the handler.
DeviceAnswers(c) ==
  /\ os = "windows" /\ handler[c] \in {"stop", "drop"} /\ runtime[c]
  /\ runtime' = [runtime EXCEPT ![c] = FALSE]
  /\ UNCHANGED <<acceptVars, clientVars, handler, emitted, streamVars>>

\* The dispatcher was told to shut down, given five seconds, and has dropped its
\* runtime; the reply follows, but not after a panic.
Stopped(c) ==
  /\ handler[c] = "stop" /\ (os = "windows" => ~runtime[c])
  /\ Go(c, IF runtime[c] THEN "done" ELSE "last")
  /\ UNCHANGED <<acceptVars, clientVars, runtime, emitted, streamVars>>

\* The handler returns and its dispatcher is gone, by a panic or not.
Dropped(c) ==
  /\ handler[c] = "drop" /\ (os = "windows" => ~runtime[c])
  /\ Go(c, "done")
  /\ UNCHANGED <<acceptVars, clientVars, runtime, emitted, streamVars>>

\* telemetry.subscribe(), after the acknowledgement was written.
Subscribe(c) ==
  /\ handler[c] = "subscribe"
  /\ Go(c, "stream")
  /\ from' = [from EXCEPT ![c] = emitted]
  /\ next' = [next EXCEPT ![c] = emitted + 1]
  /\ UNCHANGED <<acceptVars, clientVars, runtime, emitted, got>>
-----------------------------------------------------------------------------
(* Telemetry.                                                              *)

\* A dispatcher of some connection emits: at its commands, and all the time
\* from the tasks of a recording.
Emit ==
  /\ emitted < MaxEvents
  /\ \E c \in Clients : HasDispatcher(c)
  /\ emitted' = emitted + 1
  /\ UNCHANGED <<acceptVars, clientVars, handler, runtime, streamVars>>

Unread(c) == emitted + 1 - next[c]

\* After the stream a pipe's handler comes to its end, and a socket's task is over.
Closed == IF os = "unix" THEN "done" ELSE "drop"

\* Mutated form: every stream keeps the emitter it was made from.
TelemetryHeld ==
  acceptor = "ended" /\ \A c \in Clients : handler[c] \in {"none", "done"}

\* Nobody has an emitter any more: neither the accept loop nor a handler.
TelemetryGone ==
  acceptor = "ended" /\ \A c \in Clients : ~HasDispatcher(c)

\* Mutated form: a stream that lags goes on with the oldest event there is.
TakeSkips(c) ==
  /\ handler[c] = "stream" /\ Unread(c) > 0
  /\ Go(c, "write")
  /\ next' = [next EXCEPT ![c] = IF Unread(c) > EventCap THEN emitted - EventCap + 2
                                                          ELSE @ + 1]
  /\ UNCHANGED <<acceptVars, clientVars, runtime, emitted, from, got>>

\* The next event, if it is still there.
TakeEvent(c) ==
  /\ handler[c] = "stream" /\ Unread(c) \in 1 .. EventCap
  /\ Go(c, "write")
  /\ next' = [next EXCEPT ![c] = @ + 1]
  /\ UNCHANGED <<acceptVars, clientVars, runtime, emitted, from, got>>

\* Mutated form: a pipe's stream does not look at the flag.
StreamEndsUnflagged(c) ==
  /\ handler[c] = "stream"
  /\ Unread(c) > EventCap \/ (Unread(c) = 0 /\ os = "unix" /\ TelemetryGone)
  /\ Go(c, Closed)
  /\ UNCHANGED <<acceptVars, clientVars, runtime, emitted, streamVars>>

\* The receiver lags or its channel is closed; or a pipe's stream, which polls,
\* finds nothing and then the flag.
StreamEnds(c) ==
  /\ handler[c] = "stream"
  /\ \/ Unread(c) > EventCap
     \/ Unread(c) = 0 /\ (IF os = "unix" THEN TelemetryGone ELSE shutdown)
  /\ Go(c, Closed)
  /\ UNCHANGED <<acceptVars, clientVars, runtime, emitted, streamVars>>

\* The event is written, when the client has room for it.
WriteEvent(c) ==
  /\ handler[c] = "write" /\ conn[c] = "open"
  /\ got' = [got EXCEPT ![c] = Append(@, next[c] - 1)]
  /\ Go(c, IF os = "windows" /\ shutdown THEN Closed ELSE "stream")
  /\ UNCHANGED <<acceptVars, clientVars, runtime, emitted, from, next>>

\* The client is gone: a socket's stream ends at its next event, a pipe's goes
\* on.
WriteToNobody(c) ==
  /\ handler[c] = "write" /\ conn[c] = "closed"
  /\ Go(c, IF os = "unix" \/ shutdown THEN Closed ELSE "stream")
  /\ UNCHANGED <<acceptVars, clientVars, runtime, emitted, streamVars>>
-----------------------------------------------------------------------------
Environment ==
  \/ CtrlC \/ Emit
  \/ \E c \in Clients :
       \/ Connect(c) \/ SendLine(c) \/ CloseClient(c)
       \/ ReplyTaken(c) \/ WriteEvent(c) \/ DeviceAnswers(c)

AcceptLoop ==
  \/ CheckShutdown \/ CreatePipe \/ AwaitClient \/ Drained
  \/ \E w \in Clients \cup {"wake"} : Accept(w)

Handle(c) ==
  \/ CheckBeforeRead(c) \/ (\E line \in Lines : ReadLine(c, line))
  \/ ReplyFails(c) \/ EndOfInput(c)
  \/ Stopped(c) \/ Dropped(c)
  \/ Subscribe(c) \/ TakeEvent(c) \/ StreamEnds(c) \/ WriteToNobody(c)

Next ==
  \/ Environment \/ Wake \/ AcceptLoop \/ ConnectFails \/ AcceptFails
  \/ \E c \in Clients : Handle(c)

\* The threads and tasks run.  ConnectNamedPipe answers once the instance has
\* been opened, but a CreateNamedPipeW that keeps failing keeps the loop busy.
\* Nothing makes a client send, read or leave, a device answer, or ctrl-c come.
Fairness ==
  /\ WF_vars(Wake)
  /\ WF_vars(AcceptLoop)
  /\ WF_vars(waiting # {} /\ ConnectFails)
  /\ \A c \in Clients : WF_vars(Handle(c))

Spec == Init /\ [][Next]_vars /\ Fairness
-----------------------------------------------------------------------------
(* Properties.                                                             *)

\* Every variable has its type; an instance of a pipe has one client.
TypeOK ==
  /\ os \in {"unix", "windows"} /\ shutdown \in BOOLEAN /\ wakes \in 0 .. 2
  /\ acceptor \in {"check", "create", "created", "listen", "drain", "ended"}
  /\ waiting \subseteq Clients \cup {"wake"}
  /\ os = "windows" => Cardinality(waiting) <= 1
  /\ conn \in [Clients -> {"new", "open", "cut", "closed"}]
  /\ sent \in [Clients -> 0 .. MaxLines]
  /\ lines \in [Clients -> Nat] /\ \A c \in Clients : lines[c] <= sent[c]
  /\ handler \in [Clients ->
       {"none", "check", "read", "reply", "ack", "subscribe", "stream", "write", "stop",
        "last", "drop", "done"}]
  /\ runtime \in [Clients -> BOOLEAN]
  /\ emitted \in 0 .. MaxEvents
  /\ from \in [Clients -> 0 .. MaxEvents]
  /\ next \in [Clients -> 1 .. MaxEvents + 1]
  /\ got \in [Clients -> Seq(1 .. MaxEvents)]

\* What a subscriber is sent are the events since its subscription, in order,
\* without a gap: a stream that fell behind ends, it never skips.  (Events
\* between the acknowledgement and the subscription are not among them.)
StreamContiguous ==
  \A c \in Clients :
    /\ got[c] = [i \in 1 .. Len(got[c]) |-> from[c] + i]
    /\ handler[c] = "stream" /\ conn[c] = "open" =>
         next[c] = from[c] + Len(got[c]) + 1

\* After ctrl-c the accept loop ends at the latest with the next connection: of
\* a client, or of the wake that finds an instance of the pipe.  (A wake that
\* comes between the check and CreateNamedPipeW finds none, and on Unix nobody
\* wakes the loop.)
AcceptLoopEnds ==
  (shutdown /\ waiting # {}) ~> (acceptor \in {"drain", "ended"})

\* Nothing but streams is left of the server.
OnlyStreams ==
  /\ acceptor = "ended"
  /\ \A c \in Clients : handler[c] \in {"none", "stream", "write", "done"}

\* A stream whose client takes what it is sent ends: on Windows after ctrl-c, on
\* Unix when the accept loop and the last handler have ended, ctrl-c or not.
StreamsEnd ==
  \A c \in Clients :
    []<>(handler[c] # "write") =>
      ((handler[c] = "stream" /\ IF os = "windows" THEN shutdown ELSE OnlyStreams)
         ~> (handler[c] \in {"drop", "done"}))

\* The handler waits for its client: for a line, or for room for a reply or event.
WaitsForClient(c) ==
  /\ conn[c] = "open"
  /\ \/ handler[c] \in {"reply", "ack", "last", "write"}
     \/ handler[c] = "read" /\ lines[c] = 0

\* The handler of a pipe waits in the drop of the runtime of its dispatcher.
WaitsForDevice(c) ==
  os = "windows" /\ runtime[c] /\ handler[c] \in {"stop", "drop"}

\* An acceptor that does not come to its end after ctrl-c waits for a client
\* that neither sends a line nor leaves, or does not take its replies or events, or
\* for the device of a recording, and for nothing else.  (It may wait for ever: the
\* handler of an idle client blocks in read_line, and does not see the flag.)
DrainWaitsForClients ==
  <>[](acceptor = "drain") =>
    \E c \in Clients : <>[]WaitsForClient(c) \/ <>[]WaitsForDevice(c)
=============================================================================
