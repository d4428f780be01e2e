---------------------------- MODULE Server_proofs ----------------------------
(***************************************************************************)
(* Proofs about Server for any set of clients, any capacity of the         *)
(* telemetry channel and any number of lines and events: the types, and    *)
(* that what a subscriber is sent has no gap.                              *)
(***************************************************************************)
EXTENDS Server, FiniteSetTheorems, TLAPS

\* The numbers f + 1, f + 2, ... f + k.
Run(f, k) == [i \in 1 .. k |-> f + i]

\* An instance of a pipe is opened by one client.
OneWaits == os = "windows" => waiting = {} \/ \E w \in waiting : waiting = {w}

\* Where a handler may be that was never a stream, and where it may go.
Before == {"none", "check", "read", "reply", "ack", "subscribe", "stop", "last"}
Places == Before \cup {"stream", "write", "drop", "done"}

\* A client without a handler has been sent nothing, and one that has not been
\* accepted has no handler.
Unserved ==
  \A c \in Clients :
    /\ conn[c] = "new" => handler[c] = "none" /\ c \notin waiting
    /\ c \in waiting => handler[c] = "none"
    /\ handler[c] \in Before => got[c] = <<>>

\* Where a stream stands: what it has sent is a run from its subscription on, and
\* while its client is there, it sends the next event that it takes.
Position(c) ==
  /\ from[c] <= emitted /\ next[c] <= emitted + 1
  /\ got[c] = Run(from[c], Len(got[c]))
  /\ handler[c] = "stream" /\ conn[c] = "open" => next[c] = from[c] + Len(got[c]) + 1
  /\ handler[c] = "write" => next[c] > 1
  /\ handler[c] = "write" /\ conn[c] = "open" => next[c] = from[c] + Len(got[c]) + 2

Positions == \A c \in Clients : Position(c)

IInv == TypeOK /\ OneWaits /\ Unserved /\ Positions

\* A run goes on with its next number.
LEMMA RunGrows ==
  ASSUME NEW f \in Nat, NEW s \in Seq(Nat), s = Run(f, Len(s))
  PROVE  /\ Append(s, f + Len(s) + 1) = Run(f, Len(s) + 1)
         /\ Len(Append(s, f + Len(s) + 1)) = Len(s) + 1
<1> DEFINE t == Append(s, f + Len(s) + 1)
<1>1. Len(s) \in Nat /\ Len(t) = Len(s) + 1 /\ t \in Seq(Nat)
  OBVIOUS
<1>2. \A i \in 1 .. Len(s) : t[i] = f + i
  <2>1. \A i \in 1 .. Len(s) : t[i] = s[i] /\ s[i] = Run(f, Len(s))[i]
    OBVIOUS
  <2> QED BY <2>1 DEF Run
<1>3. t[Len(s) + 1] = f + (Len(s) + 1)
  BY <1>1
<1>4. \A i \in 1 .. Len(s) + 1 : t[i] = f + i
  BY <1>1, <1>2, <1>3
<1>5. t = [i \in 1 .. Len(s) + 1 |-> t[i]]
  BY <1>1
<1> QED BY <1>1, <1>4, <1>5 DEF Run

\* A reply ends in one of two ways, and moves the handler on.
Replies(c) == ReplyTaken(c) \/ ReplyFails(c)

LEMMA Answers ==
  ASSUME NEW c \in Clients, Replies(c)
  PROVE  /\ handler[c] \in {"reply", "ack", "last"}
         /\ \E to \in {"read", "check", "subscribe", "drop"} :
              handler' = [handler EXCEPT ![c] = to]
         /\ UNCHANGED <<acceptVars, clientVars, runtime, emitted, streamVars>>
BY DEF Replies, ReplyTaken, ReplyFails, AfterReply, Again, Go

\* Every initial state satisfies the invariant.
LEMMA Start == Init => IInv
<1> SUFFICES ASSUME Init PROVE IInv
  OBVIOUS
<1>1. Cardinality(waiting) = 0
  BY FS_EmptySet DEF Init
<1>2. <<>> = Run(0, 0) /\ Len(<<>>) = 0
  BY DEF Run
<1>3. TypeOK
  <2>1. lines \in [Clients -> Nat] /\ got \in [Clients -> Seq(1 .. MaxEvents)]
    BY DEF Init
  <2>2. \A c \in Clients : lines[c] <= sent[c]
    BY DEF Init
  <2>3. /\ conn \in [Clients -> {"new", "open", "cut", "closed"}]
        /\ handler \in [Clients -> Places] /\ runtime \in [Clients -> BOOLEAN]
        /\ os \in {"unix", "windows"} /\ shutdown \in BOOLEAN /\ acceptor = "check"
    BY DEF Init, Before, Places
  <2>4. /\ sent \in [Clients -> 0 .. MaxLines] /\ wakes \in 0 .. 2
        /\ emitted \in 0 .. MaxEvents /\ from \in [Clients -> 0 .. MaxEvents]
        /\ next \in [Clients -> 1 .. MaxEvents + 1]
    BY ServerAssumption DEF ServerAssumption, Init
  <2> QED BY <1>1, <2>1, <2>2, <2>3, <2>4 DEF Init, TypeOK, Before, Places
<1>4. OneWaits /\ Unserved
  BY DEF Init, OneWaits, Unserved, Before
<1>5. Positions
  BY <1>2 DEF Init, Positions, Position
<1> QED BY <1>3, <1>4, <1>5 DEF IInv

\* Connections and who waits: a client connects once, and to a pipe when nobody
\* else has; only Accept gives a client that waits a handler.
LEMMA KeepsUnserved == IInv /\ [Next]_vars => OneWaits' /\ Unserved'
<1> SUFFICES ASSUME IInv, [Next]_vars PROVE OneWaits' /\ Unserved'
  OBVIOUS
<1>0. TypeOK /\ OneWaits /\ Unserved
  BY DEF IInv
<1> USE <1>0 DEF OneWaits, Unserved, Before, Go, acceptVars, clientVars, streamVars
<1>f. /\ conn = [c \in Clients |-> conn[c]] /\ handler = [c \in Clients |-> handler[c]]
      /\ got = [c \in Clients |-> got[c]]
      /\ \A c \in Clients : conn[c] \in {"new", "open", "cut", "closed"}
      /\ os \in {"unix", "windows"}
  BY DEF TypeOK
<1> USE <1>f
<1>1. CASE UNCHANGED vars \/ CtrlC \/ Emit
  BY <1>1 DEF vars, CtrlC, Emit
<1>2. ASSUME NEW c \in Clients, Connect(c)
      PROVE OneWaits' /\ Unserved'
  BY <1>2 DEF Connect, Listening
<1>3. ASSUME NEW c \in Clients, CloseClient(c) \/ SendLine(c)
      PROVE OneWaits' /\ Unserved'
  BY <1>3 DEF CloseClient, SendLine
<1>4. CASE Wake
  BY <1>4, ServerAssumption DEF Wake, Listening, ServerAssumption
<1>5. CASE CheckShutdown \/ ConnectFails \/ AcceptFails
  <2>1. /\ UNCHANGED <<os, handler, got>>
        /\ UNCHANGED <<conn, waiting>> \/ CutWaiting
    BY <1>5 DEF CheckShutdown, ConnectFails, AcceptFails
  <2> QED BY <2>1 DEF CutWaiting
<1>6. CASE CreatePipe \/ AwaitClient \/ Drained
  BY <1>6 DEF CreatePipe, AwaitClient, Drained
<1>7. ASSUME NEW w \in Clients \cup {"wake"}, Accept(w)
      PROVE OneWaits' /\ Unserved'
  <2>1. OneWaits'
    BY <1>7 DEF Accept
  <2>2. Unserved'
    BY <1>7 DEF Accept
  <2> QED BY <2>1, <2>2
<1>8. ASSUME NEW c \in Clients,
             \/ CheckBeforeRead(c) \/ EndOfInput(c) \/ Stopped(c) \/ Dropped(c)
             \/ DeviceAnswers(c)
      PROVE OneWaits' /\ Unserved'
  BY <1>8 DEF CheckBeforeRead, EndOfInput, Stopped, Dropped, DeviceAnswers
<1>9. ASSUME NEW c \in Clients,
             Replies(c) \/ \E line \in Lines : ReadLine(c, line)
      PROVE OneWaits' /\ Unserved'
  <2>1. /\ UNCHANGED <<os, waiting, conn, got>>
        /\ handler[c] \in {"read", "reply", "ack", "last"}
        /\ \E to \in {"stop", "read", "check", "reply", "ack", "subscribe", "drop"} :
             handler' = [handler EXCEPT ![c] = to]
    BY <1>9, Answers DEF ReadLine, Again
  <2> QED BY <2>1
<1>10. ASSUME NEW c \in Clients, Subscribe(c) \/ TakeEvent(c) \/ StreamEnds(c)
       PROVE OneWaits' /\ Unserved'
  BY <1>10 DEF Subscribe, TakeEvent, StreamEnds, Closed
<1>11. ASSUME NEW c \in Clients, WriteEvent(c) \/ WriteToNobody(c)
       PROVE OneWaits' /\ Unserved'
  BY <1>11 DEF WriteEvent, WriteToNobody, Closed
<1> QED BY <1>1, <1>2, <1>3, <1>4, <1>5, <1>6, <1>7, <1>8, <1>9, <1>10, <1>11
        DEF Next, Environment, AcceptLoop, Handle, Replies

\* The streams.  A step that neither moves a stream nor begins one leaves its
\* position; Emit adds behind it.
LEMMA KeepsPositions == IInv /\ [Next]_vars => Positions'
<1> SUFFICES ASSUME IInv, [Next]_vars, NEW h \in Clients PROVE Position(h)'
  BY DEF Positions
<1>0. /\ Position(h) /\ emitted \in Nat /\ from[h] \in Nat /\ next[h] \in Nat
      /\ got[h] \in Seq(Nat) /\ Len(got[h]) \in Nat
      /\ conn[h] = "new" => handler[h] = "none"
      /\ handler[h] \in Before => got[h] = <<>>
  <2>1. TypeOK /\ Unserved /\ Positions
    BY DEF IInv
  <2>2. MaxEvents \in Nat /\ got[h] \in Seq(Nat)
    BY <2>1, ServerAssumption DEF ServerAssumption, TypeOK
  <2> QED BY <2>1, <2>2 DEF TypeOK, Unserved, Positions
<1>f. /\ conn = [c \in Clients |-> conn[c]] /\ handler = [c \in Clients |-> handler[c]]
      /\ from = [c \in Clients |-> from[c]] /\ next = [c \in Clients |-> next[c]]
      /\ got = [c \in Clients |-> got[c]]
  BY DEF IInv, TypeOK
<1> DEFINE Quiet ==
      /\ from'[h] = from[h] /\ next'[h] = next[h] /\ got'[h] = got[h]
      /\ emitted' \in {emitted, emitted + 1}
      /\ handler'[h] \in {"stream", "write"} =>
           handler'[h] = handler[h] /\ (conn'[h] = "open" => conn[h] = "open")
<1>1. Quiet => Position(h)'
  BY <1>0 DEF Position
<1> USE DEF Go, acceptVars, clientVars, streamVars
<1>2. CASE UNCHANGED vars \/ CtrlC \/ Emit \/ Wake
  BY <1>1, <1>2 DEF vars, CtrlC, Emit, Wake
<1>3. ASSUME NEW c \in Clients,
             Connect(c) \/ CloseClient(c) \/ SendLine(c)
      PROVE Position(h)'
  BY <1>0, <1>f, <1>1, <1>3 DEF Connect, CloseClient, SendLine
<1>4. CASE CheckShutdown \/ ConnectFails \/ AcceptFails
  <2>1. /\ UNCHANGED <<emitted, from, next, got, handler>>
        /\ UNCHANGED <<conn, waiting>> \/ CutWaiting
    BY <1>4 DEF CheckShutdown, ConnectFails, AcceptFails
  <2> QED BY <1>1, <2>1 DEF CutWaiting
<1>5. CASE CreatePipe \/ AwaitClient \/ Drained
  BY <1>1, <1>5 DEF CreatePipe, AwaitClient, Drained
<1>6. ASSUME NEW w \in Clients \cup {"wake"}, Accept(w)
      PROVE Position(h)'
  BY <1>1, <1>6 DEF Accept
<1>7. ASSUME NEW c \in Clients,
             \/ CheckBeforeRead(c) \/ EndOfInput(c) \/ Stopped(c) \/ StreamEnds(c)
             \/ Dropped(c) \/ DeviceAnswers(c)
      PROVE Position(h)'
  BY <1>f, <1>1, <1>7 DEF CheckBeforeRead, EndOfInput, Stopped, StreamEnds, Closed,
                          Dropped, DeviceAnswers
<1>8. ASSUME NEW c \in Clients,
             Replies(c) \/ \E line \in Lines : ReadLine(c, line)
      PROVE Position(h)'
  <2>1. /\ UNCHANGED <<conn, emitted, from, next, got>>
        /\ \E to \in {"stop", "read", "check", "reply", "ack", "subscribe", "drop"} :
             handler' = [handler EXCEPT ![c] = to]
    BY <1>8, Answers DEF ReadLine, Again
  <2> QED BY <1>f, <1>1, <2>1
<1>9. ASSUME NEW c \in Clients, c # h,
             Subscribe(c) \/ TakeEvent(c) \/ WriteEvent(c) \/ WriteToNobody(c)
      PROVE Position(h)'
  BY <1>f, <1>1, <1>9 DEF Subscribe, TakeEvent, WriteEvent, WriteToNobody, Closed
<1>10. CASE Subscribe(h)
  <2>1. /\ handler'[h] = "stream" /\ from'[h] = emitted /\ next'[h] = emitted + 1
        /\ emitted' = emitted /\ got'[h] = <<>>
    BY <1>0, <1>f, <1>10 DEF Subscribe, Before
  <2>2. <<>> = Run(emitted, 0) /\ Len(<<>>) = 0
    BY DEF Run
  <2> QED BY <1>0, <2>1, <2>2 DEF Position
<1>11. CASE TakeEvent(h)
  <2>1. /\ handler[h] = "stream" /\ handler'[h] = "write" /\ next'[h] = next[h] + 1
        /\ next[h] <= emitted
        /\ UNCHANGED <<conn, emitted, from, got>>
    BY <1>0, <1>f, <1>11, ServerAssumption DEF TakeEvent, Unread, ServerAssumption
  <2>2. next[h] >= 1
    BY ServerAssumption DEF IInv, TypeOK, ServerAssumption
  <2> QED BY <1>0, <2>1, <2>2 DEF Position
<1>12. CASE WriteEvent(h)
  <2>1. /\ handler[h] = "write" /\ conn[h] = "open"
        /\ handler'[h] \in {"drop", "done", "stream"}
        /\ got'[h] = Append(got[h], next[h] - 1)
        /\ UNCHANGED <<conn, emitted, from, next>>
    BY <1>f, <1>12 DEF WriteEvent, Closed
  <2>2. next[h] - 1 = from[h] + Len(got[h]) + 1
    BY <1>0, <2>1 DEF Position
  <2>3. got[h] \in Seq(Nat) /\ got[h] = Run(from[h], Len(got[h]))
    BY <1>0 DEF Position
  <2>4. got'[h] = Append(got[h], from[h] + Len(got[h]) + 1)
    BY <2>1, <2>2
  <2>5. /\ Append(got[h], from[h] + Len(got[h]) + 1) = Run(from[h], Len(got[h]) + 1)
        /\ Len(Append(got[h], from[h] + Len(got[h]) + 1)) = Len(got[h]) + 1
    BY <1>0, <2>3, RunGrows, Zenon
  <2>6. Len(got'[h]) = Len(got[h]) + 1 /\ got'[h] = Run(from[h], Len(got'[h]))
    BY <2>4, <2>5
  <2>7. /\ from'[h] <= emitted' /\ next'[h] <= emitted' + 1
        /\ got'[h] = Run(from'[h], Len(got'[h]))
    BY <1>0, <2>1, <2>6 DEF Position
  <2>8. next'[h] = from'[h] + Len(got'[h]) + 1
    <3>1. next'[h] = next[h] /\ from'[h] = from[h]
      BY <2>1
    <3>2. Len(got[h]) \in Nat /\ next[h] = from[h] + Len(got[h]) + 2
      BY <1>0, <2>1 DEF Position
    <3>3. from[h] \in Nat /\ Len(got'[h]) = Len(got[h]) + 1
      BY <1>0, <2>6
    <3> QED BY <3>1, <3>2, <3>3
  <2>9. handler'[h] # "write"
    BY <2>1
  <2> QED BY <2>7, <2>8, <2>9 DEF Position
<1>13. CASE WriteToNobody(h)
  <2>1. /\ conn'[h] = "closed" /\ handler'[h] \in {"drop", "done", "stream"}
        /\ UNCHANGED <<emitted, from, next, got>>
    BY <1>f, <1>13 DEF WriteToNobody, Closed
  <2>2. handler'[h] # "write" /\ conn'[h] # "open"
    BY <2>1
  <2>3. /\ from'[h] <= emitted' /\ next'[h] <= emitted' + 1
        /\ got'[h] = Run(from'[h], Len(got'[h]))
    BY <1>0, <2>1 DEF Position
  <2> QED BY <2>2, <2>3 DEF Position
<1> QED BY <1>2, <1>3, <1>4, <1>5, <1>6, <1>7, <1>8, <1>9, <1>10, <1>11, <1>12, <1>13
        DEF Next, Environment, AcceptLoop, Handle, Replies

\* The types: a stream takes an event only when there is one.
LEMMA KeepsTypes == IInv /\ [Next]_vars => TypeOK'
<1> SUFFICES ASSUME IInv, [Next]_vars PROVE TypeOK'
  OBVIOUS
<1>0. TypeOK
  BY DEF IInv
<1>1. os' = "windows" => Cardinality(waiting') <= 1
  <2>1. Cardinality({}) = 0 /\ \A w \in waiting' : Cardinality({w}) = 1
    BY FS_EmptySet, FS_Singleton
  <2> QED BY <2>1, KeepsUnserved DEF OneWaits
<1> USE <1>0, <1>1, ServerAssumption
    DEF ServerAssumption, TypeOK, Go, acceptVars, clientVars, streamVars
<1>2. CASE UNCHANGED vars
  BY <1>2 DEF vars
<1>3. CASE CtrlC \/ Emit \/ Wake
  <2>1. CASE CtrlC
    BY <2>1 DEF CtrlC
  <2>2. CASE Emit
    BY <2>2 DEF Emit
  <2>3. CASE Wake
    BY <2>3 DEF Wake
  <2> QED BY <1>3, <2>1, <2>2, <2>3
<1>4. ASSUME NEW c \in Clients, Connect(c) \/ CloseClient(c)
      PROVE TypeOK'
  <2>1. conn' \in [Clients -> {"new", "open", "cut", "closed"}]
    BY <1>4 DEF Connect, CloseClient
  <2>2. CASE Connect(c)
    BY <2>1, <2>2 DEF Connect
  <2>3. CASE CloseClient(c)
    BY <2>1, <2>3 DEF CloseClient
  <2> QED BY <1>4, <2>2, <2>3
<1>5. ASSUME NEW c \in Clients, SendLine(c)
      PROVE TypeOK'
  <2>1. lines' \in [Clients -> Nat] /\ sent' \in [Clients -> 0 .. MaxLines]
    BY <1>5 DEF SendLine
  <2>2. \A x \in Clients : lines'[x] <= sent'[x]
    BY <1>5 DEF SendLine
  <2> QED BY <1>5, <2>1, <2>2 DEF SendLine
<1>6. CASE CheckShutdown \/ ConnectFails \/ AcceptFails
  <2>1. /\ UNCHANGED <<os, shutdown, wakes, lines, sent, handler, runtime, emitted>>
        /\ UNCHANGED streamVars
        /\ acceptor' \in {"check", "create", "listen", "drain", "ended"}
        /\ UNCHANGED <<conn, waiting>> \/ CutWaiting
    BY <1>6 DEF CheckShutdown, ConnectFails, AcceptFails
  <2> QED BY <2>1 DEF CutWaiting
<1>7. CASE CreatePipe \/ AwaitClient \/ Drained
  BY <1>7 DEF CreatePipe, AwaitClient, Drained
<1>8. ASSUME NEW w \in Clients \cup {"wake"}, Accept(w)
      PROVE TypeOK'
  <2>1. handler' \in [Clients ->
          {"none", "check", "read", "reply", "ack", "subscribe", "stream", "write",
           "stop", "last", "drop", "done"}]
    BY <1>8 DEF Accept
  <2> QED BY <1>8, <2>1 DEF Accept
<1>9. ASSUME NEW c \in Clients,
             \/ CheckBeforeRead(c) \/ EndOfInput(c) \/ Stopped(c) \/ Dropped(c)
             \/ Replies(c)
      PROVE TypeOK'
  <2>1. /\ UNCHANGED <<acceptVars, clientVars, runtime, emitted, streamVars>>
        /\ \E to \in Places : handler' = [handler EXCEPT ![c] = to]
    BY <1>9, Answers DEF CheckBeforeRead, EndOfInput, Stopped, Dropped, Before, Places
  <2>2. handler' \in [Clients -> Places]
    BY <2>1 DEF Before, Places
  <2> QED BY <2>1, <2>2 DEF Before, Places
<1>10. ASSUME NEW c \in Clients, NEW line \in Lines, ReadLine(c, line)
       PROVE TypeOK'
  <2>1. /\ UNCHANGED <<acceptVars, conn, sent, emitted, streamVars>>
        /\ \E to \in Places : handler' = [handler EXCEPT ![c] = to]
    BY <1>10 DEF ReadLine, Again, Before, Places
  <2>2. lines' \in [Clients -> Nat] /\ \A x \in Clients : lines'[x] <= sent[x]
    BY <1>10 DEF ReadLine
  <2>3. handler' \in [Clients -> Places]
    BY <2>1 DEF Before, Places
  <2>4. runtime' \in [Clients -> BOOLEAN]
    BY <1>10 DEF ReadLine
  <2> QED BY <2>1, <2>2, <2>3, <2>4 DEF Before, Places
<1>15. ASSUME NEW c \in Clients, DeviceAnswers(c)
       PROVE TypeOK'
  BY <1>15 DEF DeviceAnswers
<1>11. ASSUME NEW c \in Clients, Subscribe(c)
       PROVE TypeOK'
  BY <1>11 DEF Subscribe
<1>12. ASSUME NEW c \in Clients, TakeEvent(c)
       PROVE TypeOK'
  <2>1. next[c] \in 1 .. MaxEvents
    BY <1>12 DEF TakeEvent, Unread
  <2> QED BY SMTT(30), <1>12, <2>1 DEF TakeEvent
<1>13. ASSUME NEW c \in Clients, StreamEnds(c) \/ WriteToNobody(c)
       PROVE TypeOK'
  BY <1>13 DEF StreamEnds, WriteToNobody, Closed
<1>14. ASSUME NEW c \in Clients, WriteEvent(c)
       PROVE TypeOK'
  <2>1. next[c] - 1 \in 1 .. MaxEvents
    BY <1>14 DEF WriteEvent, IInv, Positions, Position
  <2>2. got' \in [Clients -> Seq(1 .. MaxEvents)]
    BY <1>14, <2>1 DEF WriteEvent
  <2> QED BY <1>14, <2>2 DEF WriteEvent, Closed
<1> QED BY <1>2, <1>3, <1>4, <1>5, <1>6, <1>7, <1>8, <1>9, <1>10, <1>11, <1>12, <1>13,
           <1>14, <1>15 DEF Next, Environment, AcceptLoop, Handle, Replies

\* The invariant holds in every reachable state.
THEOREM ServerInvariance == Spec => []IInv
<1>1. IInv /\ [Next]_vars => IInv'
  BY KeepsTypes, KeepsUnserved, KeepsPositions DEF IInv
<1> QED BY Start, <1>1, PTL DEF Spec

\* The types; an instance of a pipe never has two clients.
THEOREM ServerTypes == Spec => []TypeOK
<1>1. IInv => TypeOK
  BY DEF IInv
<1> QED BY ServerInvariance, <1>1, PTL

\* For any number of clients, any capacity and any number of events, what a
\* subscriber is sent has no gap (server.rs: a receiver that lags ends the stream).
THEOREM StreamsHaveNoGap == Spec => []StreamContiguous
<1>1. IInv => StreamContiguous
  BY DEF IInv, Positions, Position, Run, StreamContiguous
<1> QED BY ServerInvariance, <1>1, PTL
=============================================================================
