--------------------------- MODULE Session_proofs ---------------------------
(***************************************************************************)
(* Proofs about Session for every queue capacity and every number of       *)
(* frames.  IInv, the type invariant with the chain of frames, what the    *)
(* muxer has of them and the control part, is inductive; the bound on the  *)
(* loss, the quiet after stop() and the implementation of Recording follow *)
(* from it.                                                                *)
(***************************************************************************)
EXTENDS Session, TLAPS

IInv == TypeOK /\ Chain /\ Stored /\ Control

\* What the frames and the counters are kept in before the muxer.
data == <<fed, pcmq, hold, pktq, written, dropped>>

\* What the muxer has, and whether it is done.
store == <<container, file, held, behind, written, dropped>>

\* What taking the head of a queue leaves.
LEMMA TailOfQueue ==
  ASSUME NEW s \in Seq(Nat), s # <<>>
  PROVE  /\ Head(s) = s[1] /\ Head(s) \in Nat
         /\ Tail(s) \in Seq(Nat) /\ Len(Tail(s)) = Len(s) - 1 /\ Len(s) > 0
         /\ \A i \in 1..Len(Tail(s)) : Tail(s)[i] = s[i + 1]
OBVIOUS

\* What putting a frame at the end of a queue or of the file gives.
LEMMA AppendToQueue ==
  ASSUME NEW s \in Seq(Nat), NEW x \in Nat
  PROVE  /\ Append(s, x) \in Seq(Nat)
         /\ Len(Append(s, x)) = Len(s) + 1
         /\ \A i \in 1..Len(s) : Append(s, x)[i] = s[i]
         /\ Append(s, x)[Len(s) + 1] = x
OBVIOUS

\* A part of a sequence.
LEMMA PartOfQueue ==
  ASSUME NEW s \in Seq(Nat), NEW k \in Nat, NEW i \in Nat, k <= i, i <= Len(s)
  PROVE  /\ SubSeq(s, k + 1, i) \in Seq(Nat)
         /\ Len(SubSeq(s, k + 1, i)) = i - k
         /\ \A n \in 1 .. i - k : SubSeq(s, k + 1, i)[n] = s[n + k]
OBVIOUS

LEMMA JoinQueues ==
  ASSUME NEW s \in Seq(Nat), NEW t \in Seq(Nat)
  PROVE  /\ s \o t \in Seq(Nat)
         /\ Len(s \o t) = Len(s) + Len(t)
         /\ \A n \in 1 .. Len(s) : (s \o t)[n] = s[n]
         /\ \A n \in 1 .. Len(t) : (s \o t)[Len(s) + n] = t[n]
OBVIOUS

\* A sequence, and the first k of another behind it.
LEMMA WriteOutQueue ==
  ASSUME NEW s \in Seq(Nat), NEW t \in Seq(Nat), NEW k \in Nat, k <= Len(t)
  PROVE  /\ s \o SubSeq(t, 1, k) \in Seq(Nat)
         /\ Len(s \o SubSeq(t, 1, k)) = Len(s) + k
         /\ \A n \in 1 .. Len(s) : (s \o SubSeq(t, 1, k))[n] = s[n]
         /\ \A n \in 1 .. k : (s \o SubSeq(t, 1, k))[Len(s) + n] = t[n]
<1>1. /\ SubSeq(t, 1, k) \in Seq(Nat) /\ Len(SubSeq(t, 1, k)) = k
      /\ \A n \in 1 .. k : SubSeq(t, 1, k)[n] = t[n]
  BY PartOfQueue, 0 + 1 = 1
<1> QED
  BY <1>1, JoinQueues

\* What the muxer holds, and the next packet behind it.
LEMMA ThereIs ==
  ASSUME TypeOK, pktq # <<>>
  PROVE  /\ There \in Seq(Nat) /\ Len(There) = Len(held) + 1
         /\ \A n \in 1 .. Len(held) : There[n] = held[n]
         /\ There[Len(held) + 1] = pktq[1]
BY TailOfQueue, AppendToQueue DEF TypeOK, There

\* The steps of the muxer that move frames between its buffers and the file.
MuxMoves(i, j, k) ==
  /\ i \in Nat /\ j \in Nat /\ k \in Nat
  /\ k <= i /\ i <= j /\ j <= Len(There)
  /\ file' = file \o SubSeq(There, 1, k)
  /\ held' = SubSeq(There, k + 1, i)

LEMMA MuxWritesMoves ==
  ASSUME TypeOK, MuxWrites
  PROVE  \E k \in Nat : MuxMoves(Len(There), Len(There), k) /\ Len(There) - k <= HoldCap
<1>1. Len(There) \in Nat
  <2>1. pktq # <<>>
    BY DEF MuxWrites
  <2>2. There \in Seq(Nat)
    BY <2>1, ThereIs
  <2> QED
    BY <2>2
<1>2. PICK k \in 0 .. Len(There) :
        /\ Len(There) - k <= HoldCap
        /\ file' = file \o SubSeq(There, 1, k)
        /\ held' = SubSeq(There, k + 1, Len(There))
  BY DEF MuxWrites
<1>3. k \in Nat /\ k <= Len(There) /\ Len(There) <= Len(There)
  BY <1>1
<1>4. MuxMoves(Len(There), Len(There), k)
  BY <1>1, <1>2, <1>3 DEF MuxMoves
<1> QED
  BY <1>2, <1>3, <1>4

LEMMA MuxWriteFailsMoves ==
  ASSUME TypeOK, MuxWriteFails
  PROVE  \E i \in Nat, j \in Nat, k \in Nat :
           /\ MuxMoves(i, j, k) /\ i <= Len(held) /\ MayLose(i, j)
           /\ behind' = SubSeq(There, j + 1, Len(There))
<1>1. Len(There) \in Nat /\ Len(held) \in Nat /\ Len(There) = Len(held) + 1
  <2>1. pktq # <<>>
    BY DEF MuxWriteFails, WriteFails
  <2>2. There \in Seq(Nat) /\ Len(There) = Len(held) + 1
    BY <2>1, ThereIs
  <2>3. held \in Seq(Nat)
    BY DEF TypeOK
  <2> QED
    BY <2>2, <2>3
<1>2. PICK i \in 0 .. Len(held) : \E j \in i .. Len(There), k \in 0 .. i :
        /\ MayLose(i, j)
        /\ file' = file \o SubSeq(There, 1, k)
        /\ held' = SubSeq(There, k + 1, i)
        /\ behind' = SubSeq(There, j + 1, Len(There))
  BY DEF MuxWriteFails, WriteFails
<1>3. PICK j \in i .. Len(There), k \in 0 .. i :
        /\ MayLose(i, j)
        /\ file' = file \o SubSeq(There, 1, k)
        /\ held' = SubSeq(There, k + 1, i)
        /\ behind' = SubSeq(There, j + 1, Len(There))
  BY <1>2
<1>4. /\ i \in Nat /\ j \in Nat /\ k \in Nat
      /\ k <= i /\ i <= j /\ j <= Len(There) /\ i <= Len(held)
  BY <1>1
<1>5. MuxMoves(i, j, k)
  BY <1>3, <1>4 DEF MuxMoves
<1> QED
  BY <1>3, <1>4, <1>5

\* What such a step leaves.
LEMMA Moved ==
  ASSUME TypeOK, There \in Seq(Nat), NEW i, NEW j, NEW k, MuxMoves(i, j, k)
  PROVE  /\ file' \in Seq(Nat) /\ Len(file') = Len(file) + k
         /\ \A n \in 1 .. Len(file) : file'[n] = file[n]
         /\ \A n \in 1 .. k : file'[Len(file) + n] = There[n]
         /\ held' \in Seq(Nat) /\ Len(held') = i - k
         /\ \A n \in 1 .. i - k : held'[n] = There[n + k]
<1>1. /\ i \in Nat /\ j \in Nat /\ k \in Nat /\ k <= i /\ i <= Len(There)
      /\ file' = file \o SubSeq(There, 1, k)
      /\ held' = SubSeq(There, k + 1, i)
  BY DEF MuxMoves
<1>2. file \in Seq(Nat) /\ k <= Len(There)
  BY <1>1 DEF TypeOK
<1>3. /\ file' \in Seq(Nat) /\ Len(file') = Len(file) + k
      /\ \A n \in 1 .. Len(file) : file'[n] = file[n]
      /\ \A n \in 1 .. k : file'[Len(file) + n] = There[n]
  BY SMTT(30), <1>1, <1>2, WriteOutQueue
<1>4. /\ held' \in Seq(Nat) /\ Len(held') = i - k
      /\ \A n \in 1 .. i - k : held'[n] = There[n + k]
  BY <1>1, PartOfQueue
<1> QED
  BY <1>3, <1>4

\* The only steps that move a frame on its way to the muxer; every other step
\* leaves data alone.
LEMMA NextCases ==
  ASSUME [Next]_vars
  PROVE  \/ Feed \/ EncoderTakes \/ EncoderSends \/ MuxWrites \/ MuxWriteFails
         \/ UNCHANGED data
BY DEF Next, vars, data, feedVars, encVars, muxVars, signalVars, callerVars,
       Feeder, EndInput, ExternalShutdown, Start, StartRefused, StartEncoder,
       OpenMux, OpenMuxFails, Stop, Stopping, StopAwaitEncoder, StopReturns,
       Forward, Encoder, EncoderShutdown, EncoderInputEnds, EncoderSendFails,
       Mux, MuxShutdown, MuxFinalizes

\* The only steps that change what the muxer has; no step revives a task that
\* is done.
LEMMA StoreCases ==
  ASSUME Control, [Next]_vars
  PROVE  \/ MuxWrites \/ MuxWriteFails \/ MuxFinalizes
         \/ UNCHANGED store /\ (mux = "done" => mux' = "done")
BY DEF Control, Next, vars, store, feedVars, encVars, muxVars, bufVars, signalVars,
       callerVars, Feeder, Feed, EndInput, ExternalShutdown, Start, StartRefused,
       StartEncoder, OpenMux, OpenMuxFails, Stop, Stopping, StopAwaitEncoder,
       StopReturns, Forward, Encoder, EncoderShutdown, EncoderTakes,
       EncoderInputEnds, EncoderSends, EncoderSendFails, Mux, MuxShutdown

\* The steps of the muxer keep its sequences well typed.
LEMMA MuxTypes ==
  ASSUME TypeOK
  PROVE  /\ MuxWrites \/ MuxWriteFails \/ MuxFinalizes => file' \in Seq(Nat)
         /\ MuxWrites \/ MuxWriteFails => held' \in Seq(Nat) /\ Len(held') <= HoldCap
         /\ MuxWriteFails => behind' \in Seq(Nat)
<1>1. ASSUME MuxWrites
      PROVE  file' \in Seq(Nat) /\ held' \in Seq(Nat) /\ Len(held') <= HoldCap
  <2>1. There \in Seq(Nat)
    BY <1>1, ThereIs DEF MuxWrites
  <2>2. PICK k \in Nat : MuxMoves(Len(There), Len(There), k) /\ Len(There) - k <= HoldCap
    BY <1>1, MuxWritesMoves
  <2> QED
    BY <2>1, <2>2, Moved
<1>2. ASSUME MuxWriteFails
      PROVE  /\ file' \in Seq(Nat) /\ held' \in Seq(Nat) /\ Len(held') <= HoldCap
             /\ behind' \in Seq(Nat)
  <2>1. There \in Seq(Nat) /\ Len(There) \in Nat
    BY <1>2, ThereIs DEF MuxWriteFails, WriteFails
  <2>2. PICK i \in Nat, j \in Nat, k \in Nat :
          /\ MuxMoves(i, j, k) /\ i <= Len(held)
          /\ behind' = SubSeq(There, j + 1, Len(There))
    BY <1>2, MuxWriteFailsMoves
  <2>3. file' \in Seq(Nat) /\ held' \in Seq(Nat) /\ Len(held') = i - k
    BY <2>1, <2>2, Moved
  <2>4. Len(held') <= HoldCap
    <3>1. Len(held) \in Nat /\ Len(held) <= HoldCap /\ HoldCap \in Nat
      BY CapAssumption DEF TypeOK
    <3> QED
      BY <2>2, <2>3, <3>1
  <2>5. behind' \in Seq(Nat)
    BY SMTT(30), <2>1, <2>2, PartOfQueue DEF MuxMoves
  <2> QED
    BY <2>3, <2>4, <2>5
<1>3. ASSUME MuxFinalizes PROVE file' \in Seq(Nat)
  <2>1. held \o behind \in Seq(Nat) /\ file \in Seq(Nat)
    BY JoinQueues DEF TypeOK
  <2>2. PICK k \in 0 .. Len(held \o behind) :
          file' = file \o SubSeq(held \o behind, 1, k)
    BY <1>3 DEF MuxFinalizes
  <2>3. k \in Nat /\ k <= Len(held \o behind)
    BY <2>1, <2>2
  <2> QED
    BY <2>1, <2>2, <2>3, WriteOutQueue
<1> QED
  BY <1>1, <1>2, <1>3

\* Every reachable state is well typed, and no queue outgrows its channel.
THEOREM TypeCorrect == Spec => []TypeOK
<1>1. Init => TypeOK
  BY CapAssumption DEF Init, TypeOK
<1>2. TypeOK /\ [Next]_vars => TypeOK'
  <2> SUFFICES ASSUME TypeOK, [Next]_vars PROVE TypeOK'
    OBVIOUS
  <2> USE CapAssumption DEF TypeOK, feedVars, encVars, muxVars, bufVars, signalVars,
                            callerVars
  <2>1. CASE Feeder
    <3>1. CASE Feed
      <4>1. fed' \in 0..MaxFrames
        BY <3>1 DEF Feed
      <4>2. pcmq' \in Seq(Nat) /\ Len(pcmq') <= PcmCap
        BY <3>1 DEF Feed
      <4> QED
        BY <3>1, <4>1, <4>2 DEF Feed
    <3>2. CASE EndInput
      BY <3>2 DEF EndInput
    <3>3. CASE ExternalShutdown
      BY <3>3 DEF ExternalShutdown
    <3> QED
      BY <2>1, <3>1, <3>2, <3>3 DEF Feeder
  <2>2. CASE Start
    <3>1. CASE StartRefused
      BY <3>1 DEF StartRefused
    <3>2. CASE StartEncoder
      BY <3>2 DEF StartEncoder
    <3>3. CASE OpenMux
      BY <3>3 DEF OpenMux
    <3>4. CASE OpenMuxFails
      BY <3>4 DEF OpenMuxFails
    <3> QED
      BY <2>2, <3>1, <3>2, <3>3, <3>4 DEF Start
  <2>3. CASE Stop
    BY <2>3 DEF Stop
  <2>4. CASE StopAwaitEncoder
    BY <2>4 DEF StopAwaitEncoder
  <2>5. CASE Forward
    BY <2>5 DEF Forward
  <2>6. CASE StopReturns
    <3>1. summary' \subseteq [captured : Nat, dropped : Nat]
      BY <2>6 DEF StopReturns, Summary
    <3> QED
      BY <2>6, <3>1 DEF StopReturns
  <2>7. CASE Encoder
    <3>1. CASE EncoderShutdown
      BY <3>1 DEF EncoderShutdown
    <3>2. CASE EncoderInputEnds
      BY <3>2 DEF EncoderInputEnds
    <3>3. CASE EncoderSendFails
      BY <3>3 DEF EncoderSendFails
    <3>4. CASE EncoderTakes
      <4>1. hold' \in Nat /\ pcmq' \in Seq(Nat) /\ Len(pcmq') <= PcmCap
        BY <3>4 DEF EncoderTakes
      <4> QED
        BY <3>4, <4>1 DEF EncoderTakes
    <3>5. CASE EncoderSends
      <4>1. pktq' \in Seq(Nat) /\ Len(pktq') <= PktCap
        BY <3>5 DEF EncoderSends
      <4> QED
        BY <3>5, <4>1 DEF EncoderSends
    <3> QED
      BY <2>7, <3>1, <3>2, <3>3, <3>4, <3>5 DEF Encoder
  <2>8. CASE Mux
    <3>1. CASE MuxShutdown
      BY <3>1 DEF MuxShutdown
    <3>2. CASE MuxWrites
      <4>1. pktq' \in Seq(Nat) /\ Len(pktq') <= PktCap
        BY <3>2 DEF MuxWrites
      <4>2. /\ file' \in Seq(Nat)
            /\ held' \in Seq(Nat) /\ Len(held') <= HoldCap
        BY <3>2, MuxTypes
      <4> QED
        BY SMTT(30), <3>2, <4>1, <4>2 DEF MuxWrites
    <3>3. CASE MuxWriteFails
      <4>1. pktq' \in Seq(Nat) /\ Len(pktq') <= PktCap /\ dropped' \in Nat
        BY <3>3 DEF MuxWriteFails, WriteFails
      <4>2. /\ file' \in Seq(Nat) /\ behind' \in Seq(Nat)
            /\ held' \in Seq(Nat) /\ Len(held') <= HoldCap
        BY <3>3, MuxTypes
      <4>3. /\ mux' = "finalize"
            /\ UNCHANGED <<fed, pcmq, pcmTx, enc, hold, container, disk, written,
                           external, forwarder, shutdown, caller, summary>>
        BY <3>3 DEF MuxWriteFails, WriteFails
      <4> QED
        BY <4>1, <4>2, <4>3
    <3>4. CASE MuxFinalizes
      <4>1. file' \in Seq(Nat)
        BY <3>4, MuxTypes
      <4> QED
        BY <3>4, <4>1 DEF MuxFinalizes
    <3> QED
      BY <2>8, <3>1, <3>2, <3>3, <3>4 DEF Mux
  <2>9. CASE UNCHANGED vars
    BY <2>9 DEF vars
  <2> QED
    BY <2>1, <2>2, <2>3, <2>4, <2>5, <2>6, <2>7, <2>8, <2>9
       DEF Next, Stopping
<1> QED
  BY <1>1, <1>2, PTL DEF Spec

\* The tasks, the caller and the file move together.  Chain is needed where
\* the encoder takes a frame: frames are numbered from 1, so hold # 0.
LEMMA ControlStep == IInv /\ [Next]_vars => Control'
<1> SUFFICES ASSUME TypeOK, Chain, Control, [Next]_vars PROVE Control'
  BY DEF IInv
<1> USE DEF Control, feedVars, encVars, muxVars, bufVars, signalVars, callerVars
<1>1. CASE Feeder
  BY <1>1 DEF Feeder, Feed, EndInput, ExternalShutdown
<1>2. CASE Start
  <2>1. CASE StartRefused
    BY <2>1 DEF StartRefused
  <2>2. CASE StartEncoder
    BY <2>2 DEF StartEncoder, TypeOK
  <2>3. CASE OpenMux
    BY <2>3 DEF OpenMux
  <2>4. CASE OpenMuxFails
    BY <2>4 DEF OpenMuxFails
  <2> QED
    BY <1>2, <2>1, <2>2, <2>3, <2>4 DEF Start
<1>3. CASE Stop \/ Stopping \/ Forward
  BY <1>3 DEF Stop, Stopping, StopAwaitEncoder, StopReturns, Forward
<1>4. CASE EncoderTakes
  <2>1. Head(pcmq) # 0
    <3>1. pcmq \in Seq(Nat) /\ pcmq # <<>>
      BY <1>4 DEF EncoderTakes, TypeOK
    <3>2. Head(pcmq) = pcmq[1] /\ Len(pcmq) > 0
      BY <3>1, TailOfQueue
    <3>3. Held \in Nat
      BY DEF Held
    <3>4. written \in Nat /\ dropped \in Nat /\ Len(pktq) \in Nat /\ 1 \in 1..Len(pcmq)
      BY <3>1, <3>2 DEF TypeOK
    <3>5. pcmq[1] = written + dropped + Len(pktq) + Held + 1
      BY <3>4 DEF Chain
    <3> QED
      BY <3>2, <3>3, <3>4, <3>5
  <2> QED
    BY <1>4, <2>1 DEF EncoderTakes
<1>5. CASE Encoder /\ ~EncoderTakes
  BY <1>5 DEF Encoder, EncoderShutdown, EncoderInputEnds, EncoderSends,
              EncoderSendFails
<1>6. CASE Mux
  BY <1>6 DEF Mux, MuxShutdown, MuxWrites, MuxWriteFails, WriteFails, MuxFinalizes
<1>7. CASE UNCHANGED vars
  BY <1>7 DEF vars
<1> QED
  BY <1>1, <1>2, <1>3, <1>4, <1>5, <1>6, <1>7 DEF Next

\* A frame only ever moves to the next place of the chain.
LEMMA ChainStep == IInv /\ [Next]_vars => Chain'
<1> SUFFICES ASSUME TypeOK, Chain, Control, [Next]_vars PROVE Chain'
  BY DEF IInv
<1>0. /\ fed \in Nat /\ written \in Nat /\ dropped \in Nat /\ hold \in Nat
      /\ pcmq \in Seq(Nat) /\ Len(pcmq) \in Nat /\ pktq \in Seq(Nat) /\ Len(pktq) \in Nat
  BY DEF TypeOK
<1>9. Held \in {0, 1}
  BY DEF Held
<1> USE <1>0, <1>9 DEF Chain, Held
<1>1. CASE Feed
  <2>1. fed + 1 \in Nat /\ pcmq' = Append(pcmq, fed + 1) /\ fed' = fed + 1
    BY <1>1 DEF Feed
  <2>2. /\ Len(pcmq') = Len(pcmq) + 1
        /\ \A i \in 1..Len(pcmq) : pcmq'[i] = pcmq[i]
        /\ pcmq'[Len(pcmq) + 1] = fed + 1
    BY <2>1, AppendToQueue
  <2>3. UNCHANGED <<hold, pktq, written, dropped>>
    BY <1>1 DEF Feed, encVars, muxVars, bufVars
  <2>4. Held' = Held /\ Held \in Nat
    BY <2>3
  <2>5. \A i \in 1..Len(pcmq') :
           pcmq'[i] = written + dropped + Len(pktq) + Held + i
    <3> SUFFICES ASSUME NEW i \in 1..(Len(pcmq) + 1)
                 PROVE  pcmq'[i] = written + dropped + Len(pktq) + Held + i
      BY <2>2
    <3>1. CASE i \in 1..Len(pcmq)
      BY <2>2, <3>1
    <3>2. CASE i = Len(pcmq) + 1
      BY <2>2, <2>4, <3>2
    <3> QED
      BY SMTT(30), <3>1, <3>2
  <2>6. fed' = written + dropped + Len(pktq) + Held + Len(pcmq')
    BY <2>1, <2>2, <2>4
  <2>7. hold # 0 => hold = written + dropped + Len(pktq) + 1
    OBVIOUS
  <2> HIDE DEF Held
  <2> QED
    BY <2>3, <2>4, <2>5, <2>6, <2>7
<1>2. CASE EncoderTakes
  <2>1. hold = 0
    BY <1>2 DEF EncoderTakes, Control
  <2> QED
    <3>1. pcmq # <<>> /\ pcmq' = Tail(pcmq) /\ hold' = Head(pcmq)
      BY <1>2 DEF EncoderTakes
    <3>2. /\ hold' = pcmq[1] /\ Len(pcmq') = Len(pcmq) - 1 /\ Len(pcmq) > 0
          /\ \A i \in 1..Len(pcmq') : pcmq'[i] = pcmq[i + 1]
      BY <3>1, TailOfQueue
    <3>3. UNCHANGED <<fed, pktq, written, dropped>>
      BY <1>2 DEF EncoderTakes, feedVars, muxVars, bufVars
    <3>4. Held = 0 /\ hold' = written + dropped + Len(pktq) + 1
      BY <2>1, <3>2
    <3>5. Held' = 1
      BY <3>4
    <3>6. \A i \in 1..Len(pcmq') :
             pcmq'[i] = written + dropped + Len(pktq) + Held' + i
      BY <3>2, <3>4, <3>5
    <3>7. fed = written + dropped + Len(pktq) + Held' + Len(pcmq')
      BY <3>2, <3>4, <3>5
    <3> HIDE DEF Held
    <3> QED
      BY <3>3, <3>4, <3>6, <3>7
<1>3. CASE EncoderSends
  <2>1. hold # 0
    BY <1>3 DEF EncoderSends, Control
  <2> QED
    <3>1. pktq' = Append(pktq, hold)
      BY <1>3 DEF EncoderSends
    <3>2. /\ Len(pktq') = Len(pktq) + 1
          /\ \A i \in 1..Len(pktq) : pktq'[i] = pktq[i]
          /\ pktq'[Len(pktq) + 1] = hold
      BY <3>1, AppendToQueue
    <3>3. UNCHANGED <<fed, pcmq, written, dropped>> /\ hold' = 0
      BY <1>3 DEF EncoderSends, feedVars, muxVars, bufVars
    <3>4. Held = 1 /\ Held' = 0
      BY <2>1, <3>3
    <3>5. \A i \in 1..Len(pktq') : pktq'[i] = written + dropped + i
      <4> SUFFICES ASSUME NEW i \in 1..(Len(pktq) + 1)
                   PROVE  pktq'[i] = written + dropped + i
        BY <3>2
      <4>1. CASE i \in 1..Len(pktq)
        BY <3>2, <4>1
      <4>2. CASE i = Len(pktq) + 1
        BY <2>1, <3>2, <4>2
      <4> QED
        BY <4>1, <4>2
    <3>6. \A i \in 1..Len(pcmq) :
             pcmq[i] = written + dropped + Len(pktq') + Held' + i
      BY <3>2, <3>4
    <3>7. fed = written + dropped + Len(pktq') + Held' + Len(pcmq)
      BY <3>2, <3>4
    <3> HIDE DEF Held
    <3> QED
      BY <3>3, <3>5, <3>6, <3>7
<1>4. CASE MuxWrites \/ MuxWriteFails
  <2> HIDE <1>0, <1>9 DEF Chain, Held
  <2>1. /\ \/ written' = written + 1 /\ dropped' = dropped
           \/ written' = written /\ dropped' = dropped + 1
        /\ fed' = fed /\ pcmq' = pcmq /\ hold' = hold
    BY <1>4 DEF MuxWrites, MuxWriteFails, WriteFails, feedVars, encVars
  <2>2. /\ Len(pktq') = Len(pktq) - 1 /\ Len(pktq) \in Nat
        /\ \A i \in 1..Len(pktq') : pktq'[i] = pktq[i + 1]
    BY <1>4, <1>0, TailOfQueue DEF MuxWrites, MuxWriteFails, WriteFails
  <2>3. written \in Nat /\ dropped \in Nat
    BY <1>0
  <2>4. written' + dropped' = written + dropped + 1
    BY <2>1, <2>3
  <2>5. Held' = Held /\ Held \in Nat
    BY <2>1 DEF Held
  <2>6. written' + dropped' + Len(pktq') = written + dropped + Len(pktq)
    BY <2>2, <2>3, <2>4
  <2>7. \A i \in 1..Len(pktq') : pktq'[i] = written' + dropped' + i
    <3> SUFFICES ASSUME NEW i \in 1..Len(pktq')
                 PROVE  pktq'[i] = written + dropped + 1 + i
      BY <2>4
    <3>1. i + 1 \in 1..Len(pktq) /\ pktq'[i] = pktq[i + 1]
      BY <2>2
    <3>2. pktq[i + 1] = written + dropped + (i + 1)
      BY <3>1 DEF Chain
    <3> QED
      BY <3>1, <3>2, <2>3
  <2> QED
    BY <2>1, <2>5, <2>6, <2>7 DEF Chain
<1>6. CASE UNCHANGED data
  BY <1>6 DEF data
<1> QED
  BY <1>1, <1>2, <1>3, <1>4, <1>6, NextCases

\* What the muxer was given stays in order, in the file, in its buffers and
\* behind the hole of the failed write.
LEMMA StoredStep == IInv /\ TypeOK' /\ [Next]_vars => Stored'
<1> SUFFICES ASSUME TypeOK, Chain, Stored, Control, TypeOK', [Next]_vars PROVE Stored'
  BY DEF IInv
<1>1. ASSUME mux = "recv", pktq # <<>>
      PROVE  /\ There \in Seq(Nat) /\ Len(There) = Len(held) + 1
             /\ dropped = 0 /\ behind = <<>> /\ Len(file) + Len(held) = written
             /\ \A n \in 1 .. Len(There) : There[n] = Len(file) + n
  <2>1. dropped = 0
    BY <1>1 DEF Control
  <2>2. behind = <<>> /\ Len(file) + Len(held) = written
    BY <1>1, <2>1 DEF Stored
  <2>3. pktq[1] = written + 1
    BY SMTT(30), <1>1, <2>1, TailOfQueue DEF TypeOK, Chain
  <2>4. /\ There \in Seq(Nat) /\ Len(There) = Len(held) + 1
        /\ \A n \in 1 .. Len(held) : There[n] = held[n]
        /\ There[Len(held) + 1] = pktq[1]
    BY <1>1, ThereIs
  <2>5. \A n \in 1 .. Len(held) : held[n] = Len(file) + n
    BY <1>1 DEF Stored
  <2>6. Len(file) \in Nat /\ Len(held) \in Nat
    BY SMTT(30) DEF TypeOK
  <2>7. \A n \in 1 .. Len(There) : There[n] = Len(file) + n
    <3> SUFFICES ASSUME NEW n \in 1 .. Len(held) + 1 PROVE There[n] = Len(file) + n
      BY <2>4
    <3>1. CASE n \in 1 .. Len(held)
      BY <2>4, <2>5, <3>1
    <3>2. CASE n = Len(held) + 1
      <4>1. written + 1 = Len(file) + n
        BY <2>2, <2>6, <3>2
      <4> QED
        BY <2>3, <2>4, <3>2, <4>1
    <3> QED
      BY <2>6, <3>1, <3>2
  <2> QED
    BY <2>1, <2>2, <2>4, <2>7
<1>2. ASSUME mux = "recv", pktq # <<>>, NEW i, NEW j, NEW k, MuxMoves(i, j, k)
      PROVE  /\ i \in Nat /\ j \in Nat /\ k \in Nat /\ k <= i /\ i <= j /\ j <= Len(There)
             /\ Len(file') = Len(file) + k /\ Len(held') = i - k
             /\ \A n \in 1 .. Len(file') : file'[n] = n
             /\ \A n \in 1 .. Len(held') : held'[n] = Len(file') + n
  <2>1. There \in Seq(Nat) /\ \A n \in 1 .. Len(There) : There[n] = Len(file) + n
    BY <1>1, <1>2
  <2>2. /\ Len(file') = Len(file) + k
        /\ \A n \in 1 .. Len(file) : file'[n] = file[n]
        /\ \A n \in 1 .. k : file'[Len(file) + n] = There[n]
        /\ Len(held') = i - k
        /\ \A n \in 1 .. i - k : held'[n] = There[n + k]
    BY <1>2, <2>1, Moved
  <2>3. /\ i \in Nat /\ j \in Nat /\ k \in Nat /\ k <= i /\ i <= j /\ j <= Len(There)
        /\ Len(file) \in Nat /\ Len(There) \in Nat
    <3>1. Len(There) \in Nat /\ Len(file) \in Nat
      BY SMTT(30), <2>1 DEF TypeOK
    <3> QED
      BY <1>2, <3>1 DEF MuxMoves
  <2>4. \A n \in 1 .. Len(file) : file[n] = n
    BY <1>2 DEF Stored
  <2>5. \A n \in 1 .. Len(file') : file'[n] = n
    <3> SUFFICES ASSUME NEW n \in 1 .. Len(file) + k PROVE file'[n] = n
      BY <2>2
    <3>1. CASE n <= Len(file)
      BY <2>2, <2>3, <2>4, <3>1
    <3>2. CASE n > Len(file)
      <4>1. /\ n - Len(file) \in 1 .. k /\ n - Len(file) \in 1 .. Len(There)
            /\ n = Len(file) + (n - Len(file))
        BY <2>3, <3>2
      <4> QED
        BY <2>1, <2>2, <4>1
    <3> QED
      BY <2>3, <3>1, <3>2
  <2>6. \A n \in 1 .. Len(held') : held'[n] = Len(file') + n
    <3> SUFFICES ASSUME NEW n \in 1 .. i - k PROVE held'[n] = Len(file) + k + n
      BY <2>2
    <3>1. n + k \in 1 .. Len(There)
      BY <2>3
    <3> QED
      BY <2>1, <2>2, <2>3, <3>1
  <2> QED
    BY <2>2, <2>3, <2>5, <2>6
<1>3. CASE MuxWrites
  <2>1. mux = "recv" /\ pktq # <<>> /\ UNCHANGED <<behind, dropped, container>>
        /\ written' = written + 1
    BY <1>3 DEF MuxWrites
  <2>2. PICK k \in Nat : MuxMoves(Len(There), Len(There), k) /\ Len(There) - k <= HoldCap
    BY <1>3, MuxWritesMoves
  <2>3. /\ Len(There) = Len(held) + 1 /\ dropped = 0 /\ behind = <<>>
        /\ Len(file) + Len(held) = written
    BY <1>1, <2>1
  <2>4. /\ \A n \in 1 .. Len(file') : file'[n] = n
        /\ \A n \in 1 .. Len(held') : held'[n] = Len(file') + n
    BY <1>2, <2>1, <2>2
  <2>9. /\ Len(file') = Len(file) + k /\ Len(held') = Len(held) + 1 - k
        /\ Len(held) + 1 - k <= HoldCap
    BY SMTT(30), <1>2, <2>1, <2>2, <2>3
  <2>10. Len(file) + Len(held) = written /\ written' = written + 1
    BY <2>1, <2>3
  <2>5. /\ Len(file) \in Nat /\ Len(held) \in Nat /\ written \in Nat /\ HoldCap \in Nat
    BY SMTT(30), CapAssumption DEF TypeOK
  <2>6. behind' = <<>> /\ dropped' = 0 /\ Len(behind') = 0
    BY <2>1, <2>3
  <2>7. Len(file') + Len(held') = written' /\ written' - Len(file') <= HoldCap
    BY <2>5, <2>9, <2>10
  <2>8. written' \in Nat
    BY <2>1, <2>5
  <2> QED
    BY <2>4, <2>6, <2>7, <2>8 DEF Stored
<1>4. CASE MuxWriteFails
  <2>1. mux = "recv" /\ pktq # <<>> /\ UNCHANGED <<written, container>> /\ dropped' = dropped + 1
    BY <1>4 DEF MuxWriteFails, WriteFails
  <2>2. /\ There \in Seq(Nat) /\ Len(There) = Len(held) + 1 /\ dropped = 0
        /\ Len(file) + Len(held) = written
        /\ \A n \in 1 .. Len(There) : There[n] = Len(file) + n
    BY <1>1, <2>1
  <2>12. /\ Len(There) = Len(held) + 1 /\ Len(file) + Len(held) = written
         /\ written' = written
    BY <2>1, <2>2
  <2>3. PICK i \in Nat, j \in Nat, k \in Nat :
          /\ MuxMoves(i, j, k) /\ i <= Len(held) /\ MayLose(i, j)
          /\ behind' = SubSeq(There, j + 1, Len(There))
    BY <1>4, MuxWriteFailsMoves
  <2>4. /\ \A n \in 1 .. Len(file') : file'[n] = n
        /\ \A n \in 1 .. Len(held') : held'[n] = Len(file') + n
    BY <1>2, <2>1, <2>3
  <2>13. /\ i \in Nat /\ j \in Nat /\ k \in Nat
         /\ k <= i /\ i <= j /\ j <= Len(There) /\ i <= Len(held)
         /\ Len(file') = Len(file) + k /\ Len(held') = i - k
    BY <1>2, <2>1, <2>3
  <2>5. /\ Len(file) \in Nat /\ Len(held) \in Nat /\ written \in Nat /\ HoldCap \in Nat
        /\ Len(held) <= HoldCap
    BY SMTT(30), CapAssumption DEF TypeOK
  <2>6. /\ behind' \in Seq(Nat) /\ Len(behind') = Len(There) - j
        /\ \A n \in 1 .. Len(There) - j : behind'[n] = There[n + j]
    <3>1. Len(There) \in Nat /\ Len(There) <= Len(There)
      BY <2>2, <2>5
    <3> QED
      BY SMTT(30), <2>2, <2>3, <2>13, <3>1, PartOfQueue
  <2>7. \A n \in 1 .. Len(behind') : behind'[n] = written' + 1 - Len(behind') + n
    <3> SUFFICES ASSUME NEW n \in 1 .. Len(There) - j
                 PROVE  behind'[n] = written + 1 - (Len(There) - j) + n
      BY <2>1, <2>6
    <3>1. n + j \in 1 .. Len(There)
      BY <2>5, <2>12, <2>13
    <3>2. behind'[n] = Len(file) + (n + j)
      BY <2>2, <2>6, <3>1
    <3>3. Len(file) + (n + j) = written + 1 - (Len(There) - j) + n
      <4>1. n \in Nat /\ j \in Nat /\ Len(file) \in Nat /\ Len(held) \in Nat
        BY <2>5, <2>12, <2>13
      <4>2. Len(There) = Len(held) + 1 /\ Len(file) + Len(held) = written
        BY <2>12
      <4> QED
        BY <4>1, <4>2
    <3> QED
      BY <3>2, <3>3
  <2>8. dropped' = 1
    BY <2>1, <2>2
  <2>9. /\ Len(file') + Len(held') <= written'
        /\ Len(file') + Len(held') + Len(behind') <= written' + dropped'
        /\ written' - Len(file') <= HoldCap
    <3>1. Len(behind') = Len(There) - j
      BY <2>6
    <3>2. /\ Len(file) \in Nat /\ Len(held) \in Nat /\ HoldCap \in Nat /\ Len(held) <= HoldCap
          /\ i \in Nat /\ j \in Nat /\ k \in Nat /\ k <= i /\ i <= j /\ i <= Len(held)
      BY <2>5, <2>13
    <3>3. Len(file') + Len(held') = Len(file) + i
      BY <2>13, <3>2
    <3>4. written' = Len(file) + Len(held) /\ Len(behind') = Len(held) + 1 - j
      BY <2>12, <3>1
    <3>5. Len(file') + Len(held') <= written'
      BY <3>2, <3>3, <3>4
    <3>6. Len(file) + i + (Len(held) + 1 - j) <= Len(file) + Len(held) + 1
      BY <3>2
    <3>7. Len(file') = Len(file) + k
      BY <2>13
    <3>8. written' - Len(file') <= HoldCap
      BY <3>2, <3>4, <3>7
    <3> QED
      BY <2>8, <3>3, <3>4, <3>5, <3>6, <3>8
  <2>10. container' = "wav" => behind' = <<>> /\ Len(file') + Len(held') = written'
    <3>1. container = "wav" => i = Len(held) /\ j = Len(There)
      BY <2>3 DEF MayLose
    <3>2. container = "wav" => Len(behind') = 0
      BY <2>5, <2>6, <2>12, <3>1
    <3>3. container = "wav" => Len(file') + Len(held') = written'
      BY <2>5, <2>12, <2>13, <3>1
    <3>4. Len(behind') = 0 => behind' = <<>>
      BY <2>6
    <3> QED
      BY <2>1, <3>2, <3>3, <3>4
  <2>11. container' = "flac" => Len(behind') <= 1
    <3>1. container = "flac" => j >= Len(held)
      BY <2>3 DEF MayLose
    <3>2. Len(behind') = Len(There) - j
      BY <2>6
    <3>3. container = "flac" => Len(behind') <= 1
      BY <2>5, <2>12, <2>13, <3>1, <3>2
    <3> QED
      BY <2>1, <3>3
  <2> QED
    BY <2>4, <2>7, <2>8, <2>9, <2>10, <2>11 DEF Stored
<1>5. CASE MuxFinalizes
  <2>1. PICK k \in 0 .. Len(held \o behind) :
          file' = file \o SubSeq(held \o behind, 1, k)
    BY <1>5 DEF MuxFinalizes
  <2>2. held \o behind \in Seq(Nat) /\ file \in Seq(Nat)
    BY JoinQueues DEF TypeOK
  <2>3. k \in Nat /\ k <= Len(held \o behind)
    BY <2>1, <2>2
  <2>4. Len(file') = Len(file) + k /\ Len(file) \in Nat
    BY <2>1, <2>2, <2>3, WriteOutQueue
  <2>5. mux' = "done" /\ written' = written
    BY <1>5 DEF MuxFinalizes
  <2>6. written - Len(file) <= HoldCap /\ HoldCap \in Nat /\ written \in Nat
    BY CapAssumption DEF Stored, TypeOK
  <2>7. written' - Len(file') <= HoldCap
    BY <2>3, <2>4, <2>5, <2>6
  <2> QED
    BY <2>5, <2>7 DEF Stored
<1>6. CASE UNCHANGED store /\ (mux = "done" => mux' = "done")
  BY <1>6 DEF store, Stored
<1> QED
  BY <1>3, <1>4, <1>5, <1>6, StoreCases

\* The inductive invariant holds in every reachable state.
THEOREM Invariance == Spec => []IInv
<1>1. Init => IInv
  <2>1. Init => TypeOK
    BY CapAssumption DEF Init, TypeOK
  <2>2. Init => Chain /\ Stored /\ Control
    BY CapAssumption DEF Init, Chain, Stored, Control, Held
  <2> QED
    BY <2>1, <2>2 DEF IInv
<1>2. IInv /\ TypeOK' /\ [Next]_vars => IInv'
  BY ControlStep, ChainStep, StoredStep DEF IInv
<1> QED
  BY <1>1, <1>2, TypeCorrect, PTL DEF Spec

\* A recording never loses more than the queues, the buffers and a write hold.
THEOREM BoundedLoss == Spec => []LossBounded
<1>1. IInv => LossBounded
  BY SMTT(30), CapAssumption DEF IInv, TypeOK, Chain, Stored, Control, Held, LossBounded
<1> QED
  BY <1>1, Invariance, PTL

\* Once stop() has returned, no task is left that could touch the file.
THEOREM QuietAfterStop == Spec => []StoppedMeansQuiet
<1>1. IInv => StoppedMeansQuiet
  BY DEF IInv, TypeOK, Control, StoppedMeansQuiet
<1> QED
  BY <1>1, Invariance, PTL

\* Before the mux task is there nothing waits for a signal, and none was given.
Signalled ==
  /\ forwarder = "waiting" => caller \notin {"new", "opening"}
  /\ shutdown = "raised" => caller \notin {"new", "opening"}

\* From the signal on every step of the tasks brings the session nearer to its
\* end, whatever the capacities, and no packet is given to the muxer any more.
THEOREM SignalIsTheEnd == Spec => SignalEndsWork
<1> DEFINE A == shutdown = "raised" =>
                  /\ UNCHANGED <<written, dropped>>
                  /\ StepsLeft' < StepsLeft \/ UNCHANGED <<enc, mux, caller, forwarder>>
           B == shutdown = "raised" =>
                  /\ UNCHANGED <<written, dropped>>
                  /\ StepsLeft' < StepsLeft \/ UNCHANGED <<enc, mux, caller, forwarder>>
                  /\ StoppedMeansQuiet'
<1> USE DEF feedVars, encVars, muxVars, bufVars, signalVars, callerVars
<1>1. Init => Signalled
  BY DEF Init, Signalled
<1>2. Signalled /\ [Next]_vars => Signalled'
  <2> SUFFICES ASSUME Signalled, [Next]_vars PROVE Signalled'
    OBVIOUS
  <2> USE DEF Signalled
  <2>1. CASE Feeder
    BY <2>1 DEF Feeder, Feed, EndInput, ExternalShutdown
  <2>2. CASE Start
    BY <2>2 DEF Start, StartRefused, StartEncoder, OpenMux, OpenMuxFails
  <2>3. CASE Stop \/ Stopping \/ Forward
    BY <2>3 DEF Stop, Stopping, StopAwaitEncoder, StopReturns, Forward
  <2>4. CASE Encoder
    BY <2>4 DEF Encoder, EncoderShutdown, EncoderTakes, EncoderInputEnds, EncoderSends,
                EncoderSendFails
  <2>5. CASE Mux
    BY <2>5 DEF Mux, MuxShutdown, MuxWrites, MuxWriteFails, WriteFails, MuxFinalizes
  <2>6. CASE UNCHANGED vars
    BY <2>6 DEF vars
  <2> QED
    BY <2>1, <2>2, <2>3, <2>4, <2>5, <2>6 DEF Next
<1>3. TypeOK /\ Signalled /\ [Next]_vars => A
  <2> SUFFICES ASSUME TypeOK, Signalled, [Next]_vars, shutdown = "raised" PROVE A
    OBVIOUS
  <2>1. CASE Feeder \/ UNCHANGED vars
    BY <2>1 DEF Feeder, Feed, EndInput, ExternalShutdown, vars
  <2>2. CASE Start
    BY <2>2 DEF Start, StartRefused, StartEncoder, OpenMux, OpenMuxFails, Signalled
  <2>3. CASE Stop
    BY <2>3 DEF Stop, StepsLeft, TypeOK
  <2>4. CASE Stopping
    BY <2>4 DEF Stopping, StopAwaitEncoder, StopReturns, StepsLeft, TypeOK
  <2>5. CASE Forward
    BY <2>5 DEF Forward, StepsLeft, TypeOK
  <2>6. CASE Encoder
    <3>1. CASE EncoderShutdown
      BY <3>1 DEF EncoderShutdown, StepsLeft, TypeOK
    <3>2. CASE EncoderSends
      BY SMTT(30), <3>2 DEF EncoderSends, StepsLeft, TypeOK
    <3>3. CASE EncoderSendFails
      BY <3>3 DEF EncoderSendFails, StepsLeft, TypeOK
    <3> QED
      BY <2>6, <3>1, <3>2, <3>3 DEF Encoder, EncoderTakes, EncoderInputEnds
  <2>8. /\ enc \in {"idle", "recv", "send", "done"}
        /\ caller \in {"new", "opening", "running", "awaitEncoder", "awaitMux",
                       "stopped", "failed"}
    BY DEF TypeOK
  <2>7. CASE Mux
    <3>1. CASE MuxShutdown
      <4>1. mux = "recv" /\ mux' = "finalize" /\ UNCHANGED <<written, dropped>>
            /\ enc' = enc /\ caller' = caller /\ forwarder' = forwarder
        BY <3>1 DEF MuxShutdown
      <4> QED
        BY <2>8, <4>1 DEF StepsLeft
    <3>2. CASE MuxFinalizes
      <4>1. mux = "finalize" /\ mux' = "done" /\ UNCHANGED <<written, dropped>>
            /\ enc' = enc /\ caller' = caller /\ forwarder' = forwarder
        BY <3>2 DEF MuxFinalizes
      <4> QED
        BY <2>8, <4>1 DEF StepsLeft
    <3> QED
      BY <2>7, <3>1, <3>2 DEF Mux, MuxWrites, MuxWriteFails, WriteFails
  <2> QED
    BY <2>1, <2>2, <2>3, <2>4, <2>5, <2>6, <2>7 DEF Next
<1>4. SignalEndsWork <=> [][B]_vars
  BY PTL DEF SignalEndsWork
<1>5. TypeOK /\ Signalled /\ StoppedMeansQuiet' /\ [Next]_vars => [B]_vars
  BY <1>3
<1> QED
  BY <1>1, <1>2, <1>4, <1>5, TypeCorrect, QuietAfterStop, PTL DEF Spec

\* A file without a hole.
LEMMA WithoutHole ==
  ASSUME NEW s \in Seq(Nat), \A i \in 1 .. Len(s) : s[i] = i
  PROVE  s = R!Frames(Len(s), 0, Len(s))
<1>1. s = [i \in 1 .. Len(s) |-> s[i]]
  OBVIOUS
<1> QED
  BY <1>1 DEF R!Frames

\* finalize() closes the recording: what the muxer held comes into the file, with
\* a hole only where a write failed.
LEMMA FinalizeCloses ==
  ASSUME TypeOK, Stored, Control, MuxFinalizes
  PROVE  R!Close
<1>1. /\ mux = "finalize" /\ disk' \in {"final", "broken"} /\ disk = "open"
      /\ UNCHANGED <<container, fed, written, dropped, summary>>
  BY DEF MuxFinalizes, Control, feedVars, callerVars
<1>2. PICK k \in 0 .. Len(held \o behind) :
        /\ disk' = "final" /\ container # "mp3" => k = Len(held \o behind)
        /\ file' = file \o SubSeq(held \o behind, 1, k)
  BY DEF MuxFinalizes
<1> DEFINE rest == held \o behind
           n    == Len(file) + k
           m    == IF k <= Len(held) THEN n ELSE Len(file) + Len(held)
           hole == IF k <= Len(held) THEN 0
                   ELSE written + 1 - Len(behind) - Len(file) - Len(held)
<1>3. /\ file \in Seq(Nat) /\ held \in Seq(Nat) /\ behind \in Seq(Nat)
      /\ written \in Nat /\ dropped \in {0, 1}
  BY DEF TypeOK, Control
<1>4. /\ \A i \in 1..Len(file) : file[i] = i
      /\ \A i \in 1..Len(held) : held[i] = Len(file) + i
      /\ \A i \in 1..Len(behind) : behind[i] = written + 1 - Len(behind) + i
      /\ Len(file) + Len(held) <= written
      /\ Len(file) + Len(held) + Len(behind) <= written + dropped
      /\ dropped = 0 \/ container = "wav" =>
           behind = <<>> /\ Len(file) + Len(held) = written
      /\ container = "flac" => Len(behind) <= 1
  BY <1>1 DEF Stored
<1>5. /\ rest \in Seq(Nat) /\ Len(rest) = Len(held) + Len(behind)
      /\ \A i \in 1 .. Len(held) : rest[i] = held[i]
      /\ \A i \in 1 .. Len(behind) : rest[Len(held) + i] = behind[i]
  BY <1>3, JoinQueues
<1>6. k \in Nat /\ k <= Len(rest) /\ file' = file \o SubSeq(rest, 1, k)
  BY <1>2, <1>5
<1>7. /\ file' \in Seq(Nat) /\ Len(file') = n
      /\ \A i \in 1 .. Len(file) : file'[i] = file[i]
      /\ \A i \in 1 .. k : file'[Len(file) + i] = rest[i]
  <2> HIDE DEF rest
  <2> QED
    BY SMTT(30), <1>3, <1>5, <1>6, WriteOutQueue
<1> HIDE DEF rest
<1>8. k \in Nat /\ k <= Len(held) + Len(behind)
  BY <1>5, <1>6
<1>9. \A i \in 1 .. n : file'[i] = IF i <= m THEN i ELSE i + hole
  <2> SUFFICES ASSUME NEW i \in 1 .. n PROVE file'[i] = IF i <= m THEN i ELSE i + hole
    OBVIOUS
  <2>1. CASE i <= Len(file)
    <3>1. i <= m /\ i \in 1 .. Len(file)
      BY <1>3, <1>8, <2>1
    <3>2. file'[i] = file[i] /\ file[i] = i
      BY <1>4, <1>7, <3>1
    <3> QED
      BY <3>1, <3>2
  <2>2. CASE i > Len(file) /\ i - Len(file) <= Len(held)
    <3>1. i - Len(file) \in 1 .. k /\ i - Len(file) \in 1 .. Len(held)
      BY <1>3, <1>8, <2>2
    <3>2. file'[i] = held[i - Len(file)]
      <4>1. file'[Len(file) + (i - Len(file))] = rest[i - Len(file)]
        BY <1>7, <3>1
      <4>2. Len(file) + (i - Len(file)) = i
        BY <1>3
      <4> QED
        BY <4>1, <4>2, <1>5, <3>1
    <3>3. i <= m
      BY <1>3, <1>8, <2>2
    <3> QED
      BY <1>3, <1>4, <3>1, <3>2, <3>3
  <2>3. CASE i > Len(file) /\ i - Len(file) > Len(held)
    <3>1. /\ i - Len(file) \in 1 .. k /\ i - Len(file) - Len(held) \in 1 .. Len(behind)
          /\ k > Len(held)
      BY <1>3, <1>8, <2>3
    <3>2. file'[i] = behind[i - Len(file) - Len(held)]
      <4>1. file'[Len(file) + (i - Len(file))] = rest[i - Len(file)]
        BY <1>7, <3>1
      <4>2. rest[Len(held) + (i - Len(file) - Len(held))] = behind[i - Len(file) - Len(held)]
        BY <1>5, <3>1
      <4>3. /\ Len(file) + (i - Len(file)) = i
            /\ Len(held) + (i - Len(file) - Len(held)) = i - Len(file)
        BY <1>3
      <4> QED
        BY <4>1, <4>2, <4>3
    <3>3. ~(i <= m)
      BY <1>3, <1>8, <2>3, <3>1
    <3> QED
      BY <1>3, <1>4, <3>1, <3>2, <3>3
  <2> QED
    BY <1>3, <1>8, <2>1, <2>2, <2>3
<1>10. file' = R!Frames(m, hole, n)
  <2>1. file' = [i \in 1 .. n |-> file'[i]]
    BY <1>7
  <2> QED
    BY <1>9, <2>1 DEF R!Frames
<1>11. /\ n \in 0 .. written + dropped /\ m \in 0 .. n /\ m >= Len(file)
       /\ hole \in 0 .. written + dropped - n
  BY SMTT(30), <1>3, <1>4, <1>8
<1>12. /\ dropped = 0 \/ container = "wav" => m = n /\ n <= written
       /\ container = "flac" => n <= m + 1
  BY <1>3, <1>4, <1>8
<1>13. /\ disk' = "final" /\ container = "wav" => n = written
       /\ disk' = "final" /\ container = "flac" /\ dropped = 0 => n = written
  <2>1. disk' = "final" /\ container # "mp3" => k = Len(held) + Len(behind)
    BY <1>2, <1>5 DEF rest
  <2>2. /\ Len(file) \in Nat /\ Len(held) \in Nat /\ Len(behind) \in Nat
        /\ behind = <<>> => Len(behind) = 0
    BY <1>3
  <2>3. dropped = 0 \/ container = "wav" =>
          Len(behind) = 0 /\ Len(file) + Len(held) = written
    BY <1>4, <2>2
  <2> QED
    BY <1>8, <2>1, <2>2, <2>3
<1> HIDE DEF n, m, hole
<1> QED
  BY <1>1, <1>10, <1>11, <1>12, <1>13 DEF R!Close

\* The session implements a recording: the file is what was accepted, in order
\* and with a hole only where a write failed, closed once and then frozen, and
\* the summary counts what was taken and what failed.
THEOREM ImplementsRecording == Spec => IsRecording
<1> USE DEF R!rvars
<1>1. Init => R!Init
  BY DEF Init, R!Init
<1>2. IInv /\ IInv' /\ [Next]_vars => [R!Next]_(R!rvars)
  <2> SUFFICES ASSUME TypeOK, Chain, Stored, Control, TypeOK', Stored', [Next]_vars
               PROVE  [R!Next]_(R!rvars)
    BY DEF IInv
  <2> USE DEF feedVars, encVars, muxVars, bufVars, signalVars, callerVars
  <2>1. CASE Feed
    BY <2>1 DEF Feed, R!Next, R!Accept
  <2>2. CASE OpenMux \/ OpenMuxFails
    BY <2>2 DEF OpenMux, OpenMuxFails, Control, R!Next, R!Open
  <2>3. CASE MuxWrites \/ MuxWriteFails
    <3>1. /\ disk = "open" /\ mux = "recv" /\ mux' # "done"
          /\ pktq # <<>> /\ pktq' = Tail(pktq)
          /\ container' = container /\ fed' = fed /\ disk' = disk /\ summary' = summary
      BY <2>3 DEF MuxWrites, MuxWriteFails, WriteFails, Control
    <3>7. written < fed
      <4>1. /\ Len(pktq) > 0 /\ Len(pktq) \in Nat /\ Len(pcmq) \in Nat
            /\ written \in Nat /\ dropped \in Nat
        BY <3>1, TailOfQueue DEF TypeOK
      <4>2. Held \in Nat
        BY DEF Held
      <4>3. fed = written + dropped + Len(pktq) + Held + Len(pcmq)
        BY DEF Chain
      <4> QED
        BY <4>1, <4>2, <4>3
    <3>2. file' = R!Frames(Len(file'), 0, Len(file'))
      <4>1. file' \in Seq(Nat)
        BY DEF TypeOK
      <4>2. \A n \in 1 .. Len(file') : file'[n] = n
        BY <3>1 DEF Stored
      <4> QED
        BY <4>1, <4>2, WithoutHole
    <3>8. Len(file') \in 0 .. written'
      <4>1. Len(file') \in Nat /\ Len(held') \in Nat /\ written' \in Nat
        BY SMTT(30) DEF TypeOK
      <4>2. Len(file') + Len(held') <= written'
        BY <3>1 DEF Stored
      <4> QED
        BY <4>1, <4>2
    <3>3. Len(file') >= Len(file)
      <4>1. There \in Seq(Nat)
        BY <2>3, ThereIs DEF MuxWrites, MuxWriteFails, WriteFails
      <4>2. \E i, j, k : MuxMoves(i, j, k)
        BY <2>3, MuxWritesMoves, MuxWriteFailsMoves
      <4>3. PICK i, j, k : MuxMoves(i, j, k)
        BY <4>2
      <4>4. Len(file') = Len(file) + k
        BY <4>1, <4>3, Moved
      <4>5. k \in Nat /\ Len(file) \in Nat
        BY <4>3 DEF MuxMoves, TypeOK
      <4> QED
        BY <4>4, <4>5
    <3>4. dropped = 0
      BY <3>1 DEF Control
    <3>5. CASE MuxWrites
      <4>1. written' = written + 1 /\ dropped' = dropped
        BY <3>5 DEF MuxWrites
      <4>2. Len(file') \in 0 .. written + 1
        BY <3>8, <4>1
      <4>3. R!Reaches(Len(file'))
        BY <3>2, <3>3 DEF R!Reaches
      <4> QED
        BY <3>1, <3>4, <3>7, <4>1, <4>2, <4>3 DEF R!Next, R!Take
    <3>6. CASE MuxWriteFails
      <4>1. written' = written /\ dropped' = dropped + 1
        BY <3>6 DEF MuxWriteFails, WriteFails
      <4>2. Len(file') \in 0 .. written /\ dropped' = 1
        BY <3>4, <3>8, <4>1
      <4>3. R!Reaches(Len(file'))
        BY <3>2, <3>3 DEF R!Reaches
      <4> QED
        BY <3>1, <3>4, <3>7, <4>1, <4>2, <4>3 DEF R!Next, R!Fail
    <3> QED
      BY <2>3, <3>5, <3>6
  <2>4. CASE MuxFinalizes
    BY <2>4, FinalizeCloses DEF R!Next
  <2>5. CASE StopReturns
    BY <2>5 DEF StopReturns, Summary, Control, R!Next, R!Report
  <2>6. CASE UNCHANGED <<container, fed, written, dropped, file, disk, summary>>
    BY <2>6
  <2> QED
    BY <2>1, <2>2, <2>3, <2>4, <2>5, <2>6
       DEF Next, vars, Feeder, EndInput, ExternalShutdown, Start, StartRefused,
           StartEncoder, Stop, Stopping, StopAwaitEncoder, Forward, Encoder,
           EncoderShutdown, EncoderTakes, EncoderInputEnds, EncoderSends,
           EncoderSendFails, Mux, MuxShutdown
<1> QED
  BY <1>1, <1>2, Invariance, PTL DEF Spec, IsRecording, R!Spec
=============================================================================
