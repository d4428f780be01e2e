-------------------------- MODULE Recorder_proofs --------------------------
(***************************************************************************)
(* Proofs about Recorder for any number of recordings, frames and seconds, *)
(* any formats and capacities.  Two things have to be shown: which tasks   *)
(* can run together (Control), and that the frames between the device and  *)
(* the file of the recording on the window stand in one line (Order).      *)
(***************************************************************************)
EXTENDS Recorder, FiniteSetTheorems, SequenceTheorems, TLAPS

\* Frame numbers increase along s, those of s are below those of t, and at
\* most k.
Asc(s) == \A i, j \in 1..Len(s) : i < j => s[i].n < s[j].n
Below(s, t) == \A i \in 1..Len(s), j \in 1..Len(t) : s[i].n < t[j].n
UpTo(s, k) == \A i \in 1..Len(s) : s[i].n <= k

\* The mux task of r is at work.
Writing(r) == mux[r] \in {"recv", "finalize"}

\* Who can be where: the window's calls exclude one another, the recordings
\* not begun have nothing, and the one that writes is the one shown.
Control ==
  /\ ui \in {"joining", "starting"} => recording = 0 /\ started < MaxRec
  /\ ui = "starting" => task[Monitor] = "none"
  /\ ui = "stopping" => recording # 0
  /\ recording # 0 => task[Monitor] = "none"
  /\ recording <= started
  /\ \A r \in Recs : Writing(r) => r = recording /\ path[r] \in Seconds
  /\ \A r \in Recs : r > started =>
       mux[r] = "none" /\ task[r] = "none" /\ queue[r] = <<>> /\ inHand[r] = <<>>
  /\ \A r \in Recs : inHand[r] # <<>> => task[r] = "sending"

\* The frames of r, from its file back to the device, are in one line.
InLine(f, q, h, d, k) ==
  /\ Asc(q) /\ UpTo(f, k) /\ UpTo(q, k) /\ UpTo(h, k)
  /\ Below(f, q) /\ Below(f, h) /\ Below(f, d)
  /\ Below(q, h) /\ Below(q, d) /\ Below(h, d)

Order ==
  /\ Asc(devq) /\ UpTo(devq, produced)
  /\ \A s \in Seconds : Asc(files[s].frames)
  /\ \A r \in Recs : mux[r] = "recv" =>
       InLine(files[path[r]].frames, queue[r], inHand[r], devq, produced)

IInv == TypeOK /\ Control /\ Order
-----------------------------------------------------------------------------
(* Sequences of frames.                                                    *)

\* The first frame of a sequence and the rest of it keep their place.
LEMMA Taken ==
  ASSUME NEW s \in Seq(Frame), s # <<>>
  PROVE  /\ Head(s) \in Frame /\ <<Head(s)>> \in Seq(Frame) /\ Tail(s) \in Seq(Frame)
         /\ Len(<<Head(s)>>) = 1 /\ Len(Tail(s)) = Len(s) - 1
         /\ Asc(s) => Asc(<<Head(s)>>) /\ Asc(Tail(s)) /\ Below(<<Head(s)>>, Tail(s))
         /\ \A k \in Nat : UpTo(s, k) => UpTo(<<Head(s)>>, k) /\ UpTo(Tail(s), k)
         /\ \A t \in Seq(Frame) :
              /\ Below(t, s) => Below(t, <<Head(s)>>) /\ Below(t, Tail(s))
              /\ Below(s, t) => Below(<<Head(s)>>, t) /\ Below(Tail(s), t)
<1>1. /\ Head(s) \in Frame /\ Tail(s) \in Seq(Frame) /\ Len(Tail(s)) = Len(s) - 1
      /\ Len(s) \in Nat \ {0} /\ Head(s) = s[1]
      /\ \A i \in 1..Len(Tail(s)) : Tail(s)[i] = s[i + 1]
  OBVIOUS
<1>2. /\ <<Head(s)>> \in Seq(Frame) /\ Len(<<Head(s)>>) = 1 /\ <<Head(s)>>[1] = s[1]
  BY <1>1
<1>3. Asc(s) => Asc(<<Head(s)>>) /\ Asc(Tail(s)) /\ Below(<<Head(s)>>, Tail(s))
  BY <1>1, <1>2 DEF Asc, Below
<1>4. \A k \in Nat : UpTo(s, k) => UpTo(<<Head(s)>>, k) /\ UpTo(Tail(s), k)
  BY <1>1, <1>2 DEF UpTo
<1>5. ASSUME NEW t \in Seq(Frame)
      PROVE  /\ Below(t, s) => Below(t, <<Head(s)>>) /\ Below(t, Tail(s))
             /\ Below(s, t) => Below(<<Head(s)>>, t) /\ Below(Tail(s), t)
  BY <1>1, <1>2 DEF Below
<1> QED BY <1>1, <1>2, <1>3, <1>4, <1>5

\* Two sequences in line make one.
LEMMA Joined ==
  ASSUME NEW s \in Seq(Frame), NEW t \in Seq(Frame)
  PROVE  /\ s \o t \in Seq(Frame) /\ Len(s \o t) = Len(s) + Len(t)
         /\ Asc(s) /\ Asc(t) /\ Below(s, t) => Asc(s \o t)
         /\ \A k \in Nat : UpTo(s, k) /\ UpTo(t, k) => UpTo(s \o t, k)
         /\ \A u \in Seq(Frame) :
              /\ Below(s, u) /\ Below(t, u) => Below(s \o t, u)
              /\ Below(u, s) /\ Below(u, t) => Below(u, s \o t)
<1>1. /\ s \o t \in Seq(Frame) /\ Len(s \o t) = Len(s) + Len(t)
      /\ Len(s) \in Nat /\ Len(t) \in Nat
  OBVIOUS
<1>2. ASSUME NEW i \in 1..Len(s \o t)
      PROVE  \/ i \in 1..Len(s) /\ (s \o t)[i] = s[i]
             \/ i - Len(s) \in 1..Len(t) /\ (s \o t)[i] = t[i - Len(s)]
  BY <1>1
<1>3. ASSUME Asc(s), Asc(t), Below(s, t) PROVE Asc(s \o t)
  <2> SUFFICES ASSUME NEW i \in 1..Len(s \o t), NEW j \in 1..Len(s \o t), i < j
               PROVE  (s \o t)[i].n < (s \o t)[j].n
    BY DEF Asc
  <2>1. CASE j \in 1..Len(s)
    BY <1>1, <1>3, <2>1 DEF Asc
  <2>2. CASE i \notin 1..Len(s)
    BY <1>1, <1>2, <1>3, <2>2 DEF Asc
  <2>3. CASE i \in 1..Len(s) /\ j \notin 1..Len(s)
    BY <1>1, <1>2, <1>3, <2>3 DEF Below
  <2> QED BY <2>1, <2>2, <2>3
<1>4. \A k \in Nat : UpTo(s, k) /\ UpTo(t, k) => UpTo(s \o t, k)
  BY <1>2 DEF UpTo
<1>5. ASSUME NEW u \in Seq(Frame)
      PROVE  /\ Below(s, u) /\ Below(t, u) => Below(s \o t, u)
             /\ Below(u, s) /\ Below(u, t) => Below(u, s \o t)
  BY <1>2 DEF Below
<1> QED BY <1>1, <1>3, <1>4, <1>5

\* A frame added at the end.
LEMMA Added ==
  ASSUME NEW s \in Seq(Frame), NEW e \in Frame
  PROVE  Append(s, e) = s \o <<e>> /\ <<e>> \in Seq(Frame) /\ Len(<<e>>) = 1 /\ <<e>>[1] = e
OBVIOUS

\* What has no frame is in line with everything.
LEMMA Nothing ==
  /\ <<>> \in Seq(Frame) /\ Len(<<>>) = 0 /\ Asc(<<>>)
  /\ \A k : UpTo(<<>>, k)
  /\ \A t : Below(<<>>, t) /\ Below(t, <<>>)
BY DEF Asc, UpTo, Below

\* A single frame is in order.
LEMMA Single == ASSUME NEW s \in Seq(Frame), Len(s) <= 1 PROVE Asc(s)
BY DEF Asc

\* The bounds.
LEMMA Bounds ==
  /\ MaxRec \in Nat /\ MaxRec > 0 /\ MaxFrames \in Nat /\ MaxSeconds \in Nat /\ MaxSeconds > 0
  /\ DevCap \in Nat /\ DevCap > 0 /\ QCap \in Nat /\ QCap > 0
  /\ Recs \subseteq Tasks /\ 0 \in Tasks /\ Monitor \in Tasks \ Recs /\ 1 \in Seconds
BY RecorderAssumption DEF RecorderAssumption, Recs, Tasks, Seconds, Monitor

\* The mutex: whoever reads is the only one.
LEMMA OneReader ==
  ASSUME TypeOK, NEW a \in holder, NEW b \in holder
  PROVE  a = b
<1>1. IsFiniteSet(holder)
  <2>1. IsFiniteSet(0..MaxRec)
    <3>1. 0 \in Int /\ MaxRec \in Int
      BY Bounds
    <3> QED BY <3>1, FS_Interval
  <2>2. holder \in SUBSET (0..MaxRec)
    BY DEF TypeOK, Tasks
  <2> QED BY <2>1, <2>2, FS_Subset
<1>2. SUFFICES ASSUME a # b PROVE FALSE
  OBVIOUS
<1>3. Cardinality({a, b}) = 2
  <2>1. IsFiniteSet({a}) /\ Cardinality({a}) = 1
    BY FS_Singleton
  <2>2. {a, b} = {a} \cup {b} /\ b \notin {a}
    BY <1>2
  <2> QED BY <2>1, <2>2, FS_AddElement
<1>4. Cardinality({a, b}) <= Cardinality(holder)
  BY <1>1, FS_Subset
<1>5. Cardinality(holder) \in Nat
  BY <1>1, FS_CardinalityType
<1> QED BY <1>3, <1>4, <1>5 DEF TypeOK
\* What a file may hold.
File == [state : {"none", "open", "final", "broken"}, header : Formats, frames : Seq(Frame)]

\* Its fields are set alone.
LEMMA FileTypes ==
  ASSUME NEW f \in File
  PROVE  /\ \A q \in Seq(Frame) : [f EXCEPT !.frames = q] \in File
         /\ \A st \in {"none", "open", "final", "broken"} : [f EXCEPT !.state = st] \in File
BY DEF File
-----------------------------------------------------------------------------
(* The invariant.                                                          *)

\* Every initial state satisfies it.

LEMMA Start == Init => IInv
<1> SUFFICES ASSUME Init PROVE IInv
  OBVIOUS
<1> USE Nothing, Bounds DEF Init, NoFile
<1>1. TypeOK
  <2>1. holder = {} /\ Cardinality({}) = 0
    BY FS_EmptySet
  <2>2. holder = {t \in Tasks : task[t] = "reading"}
    BY <2>1
  <2>3. /\ queue \in [Recs -> Seq(Frame)] /\ inHand \in [Recs -> Seq(Frame)]
        /\ \A r \in Recs : Len(queue[r]) <= QCap /\ Len(inHand[r]) <= 1
    OBVIOUS
  <2>4. files \in [Seconds -> [state : {"none", "open", "final", "broken"},
                               header : Formats, frames : Seq(Frame)]]
    OBVIOUS
  <2>5. /\ requested \in Formats /\ devFmt \in Formats
        /\ dev \in {"none", "live", "gone"}
        /\ devq \in Seq(Frame) /\ Len(devq) <= DevCap /\ produced \in 0..MaxFrames
    OBVIOUS
  <2>6. /\ task \in [Tasks -> {"none", "check", "wait", "reading", "sending", "done"}]
        /\ stopFlag \in [Tasks -> BOOLEAN]
        /\ mux \in [Recs -> {"none", "recv", "finalize", "done"}]
        /\ path \in [Recs -> 0..MaxSeconds] /\ now \in Seconds
        /\ ui \in {"idle", "joining", "starting", "stopping", "opening", "activating"}
        /\ recording \in Tasks /\ started \in Tasks
    OBVIOUS
  <2>7. active \in BOOLEAN /\ paused \in BOOLEAN
    OBVIOUS
  <2> QED BY <2>1, <2>2, <2>3, <2>4, <2>5, <2>6, <2>7 DEF TypeOK
<1>2. Control
  BY DEF Control, Writing, Recs, Tasks
<1>3. Order
  BY DEF Order
<1> QED BY <1>1, <1>2, <1>3 DEF IInv

\* The mutex has one holder, the task that reads.
LEMMA KeepsLock ==
  IInv /\ [Next]_vars =>
    /\ Cardinality(holder') <= 1
    /\ holder' = {t \in Tasks : task'[t] = "reading"}
<1> SUFFICES ASSUME IInv, [Next]_vars
    PROVE  /\ Cardinality(holder') <= 1
           /\ holder' = {t \in Tasks : task'[t] = "reading"}
  OBVIOUS
<1> DEFINE Reading == {t \in Tasks : task[t] = "reading"}
<1> SUFFICES Cardinality(holder') <= 1 /\ holder' = Reading'
  OBVIOUS
<1>0. /\ TypeOK /\ holder = Reading /\ Cardinality(holder) <= 1
      /\ task = [t \in Tasks |-> task[t]]
      /\ Monitor \in Tasks /\ Recs \subseteq Tasks
  BY Bounds DEF IInv, TypeOK
<1>1. \A t : Cardinality({t}) = 1 /\ Cardinality({}) = 0
  BY FS_EmptySet, FS_Singleton
<1>2. ASSUME holder' = holder, Reading' = Reading
      PROVE  Cardinality(holder') <= 1 /\ holder' = Reading'
  BY <1>0, <1>2
<1>3. ASSUME NEW t \in Tasks, NEW to \in {"none", "check", "wait", "sending", "done"},
             holder' = holder, task[t] # "reading", Goto(t, to)
      PROVE  Cardinality(holder') <= 1 /\ holder' = Reading'
  BY <1>0, <1>2, <1>3 DEF Goto
<1>4. ASSUME NEW t \in Tasks, NEW to \in {"check", "sending"},
             task[t] = "reading", holder' = {}, Goto(t, to)
      PROVE  Cardinality(holder') <= 1 /\ holder' = Reading'
  <2>1. \A x \in Tasks : task[x] = "reading" => x = t
    BY <1>0, <1>4, OneReader
  <2> QED BY <1>0, <1>1, <1>4, <2>1 DEF Goto
<1>5. ASSUME NEW t \in Tasks, LockPipeline(t)
      PROVE  Cardinality(holder') <= 1 /\ holder' = Reading'
  <2>1. holder = {} /\ holder' = {t} /\ task' = [task EXCEPT ![t] = "reading"]
    BY <1>5 DEF LockPipeline, Goto
  <2>2. Reading' = {t}
    BY <1>0, <2>1
  <2>3. Cardinality(holder') = 1
    BY <1>1, <2>1
  <2> QED BY <2>1, <2>2, <2>3
<1>6. ASSUME NEW t \in Tasks, Reader(t)
      PROVE  Cardinality(holder') <= 1 /\ holder' = Reading'
  BY <1>0, <1>3, <1>4, <1>5, <1>6 DEF Reader, CheckFlag, NoFrame
<1>7. CASE UNCHANGED vars \/ Device \/ Tick \/ Click \/ Opening \/ StopReturns
           \/ OpenDevice \/ OpenDeviceFails \/ StartDevice
  <2>1. CASE OpenFile
    <3>1. /\ holder' = {} /\ holder = {}
          /\ \E r : task' = [task EXCEPT ![r] = "check"]
      BY <2>1 DEF OpenFile, Goto
    <3> QED BY <1>0, <1>1, <3>1
  <2>2. CASE ~OpenFile
    <3>1. holder' = holder /\ task' = task
      BY <1>7, <2>2 DEF vars, taskVars, Device, Deliver, DeviceLost, Tick, Click, Record,
         Pause, Stop, SelectRate, SelectDevice, Opening, OpenFileFails, StopReturns,
         OpenDevice, OpenDeviceFails, StartDevice
    <3> QED BY <1>2, <3>1
  <2> QED BY <2>1, <2>2
<1>8. CASE MonitorTask
  BY <1>0, <1>4, <1>6, <1>8 DEF MonitorTask, MonitorReads, TakeFrame
<1>9. ASSUME NEW r \in Recs, Capture(r)
      PROVE  Cardinality(holder') <= 1 /\ holder' = Reading'
  BY <1>0, <1>3, <1>4, <1>6, <1>9
     DEF Capture, CaptureReads, CaptureSends, CaptureSendFails, TakeFrame
<1>10. ASSUME NEW r \in Recs, Mux(r)
       PROVE  Cardinality(holder') <= 1 /\ holder' = Reading'
  BY <1>2, <1>10 DEF Mux, MuxStops, MuxWrites, MuxFinalizes, taskVars
<1>11. CASE SpawnMonitor \/ JoinMonitor
  BY <1>0, <1>3, <1>11 DEF SpawnMonitor, JoinMonitor
<1> QED BY <1>7, <1>8, <1>9, <1>10, <1>11 DEF Next, Update

\* The flags stay Boolean.
LEMMA KeepsFlags ==
  IInv /\ [Next]_vars => /\ active' \in BOOLEAN /\ paused' \in BOOLEAN
                         /\ stopFlag' \in [Tasks -> BOOLEAN]
<1> SUFFICES ASSUME IInv, [Next]_vars
    PROVE  /\ active' \in BOOLEAN /\ paused' \in BOOLEAN
           /\ stopFlag' \in [Tasks -> BOOLEAN]
  OBVIOUS
<1>1. /\ active \in BOOLEAN /\ paused \in BOOLEAN /\ stopFlag \in [Tasks -> BOOLEAN]
      /\ recording \in Tasks
  BY DEF IInv, TypeOK
<1>2. active' \in BOOLEAN
  <2>1. active' = active \/ active' = TRUE
    BY DEF Next, vars, devVars, Device, Deliver, DeviceLost, Tick, MonitorTask, Reader,
       CheckFlag, LockPipeline, NoFrame, MonitorReads, Click, Record, Pause, Stop,
       SelectRate, SelectDevice, Update, SpawnMonitor, JoinMonitor, Opening, OpenFile,
       OpenFileFails, StopReturns, OpenDevice, OpenDeviceFails, StartDevice, Capture,
       CaptureReads, CaptureSends, CaptureSendFails, Mux, MuxStops, MuxWrites, MuxFinalizes
  <2> QED BY <1>1, <2>1
<1>3. paused' \in BOOLEAN
  <2>1. paused' = paused \/ paused' = ~paused \/ paused' = FALSE
    BY DEF Next, vars, uiVars, Device, Deliver, DeviceLost, Tick, MonitorTask, Reader,
       CheckFlag, LockPipeline, NoFrame, MonitorReads, Click, Record, Pause, Stop,
       SelectRate, SelectDevice, Update, SpawnMonitor, JoinMonitor, Opening, OpenFile,
       OpenFileFails, StopReturns, OpenDevice, OpenDeviceFails, StartDevice, Capture,
       CaptureReads, CaptureSends, CaptureSendFails, Mux, MuxStops, MuxWrites, MuxFinalizes
  <2> QED BY <1>1, <2>1
<1>4. stopFlag' \in [Tasks -> BOOLEAN]
  <2>1. \/ stopFlag' = stopFlag
        \/ stopFlag' = [stopFlag EXCEPT ![Monitor] = FALSE]
        \/ stopFlag' = [stopFlag EXCEPT ![Monitor] = TRUE]
        \/ stopFlag' = [stopFlag EXCEPT ![recording] = TRUE]
    BY DEF Next, vars, taskVars, Device, Deliver, DeviceLost, Tick, MonitorTask, Reader,
       CheckFlag, LockPipeline, NoFrame, MonitorReads, Click, Record, Pause, Stop,
       SelectRate, SelectDevice, Update, SpawnMonitor, JoinMonitor, Opening, OpenFile,
       OpenFileFails, StopReturns, OpenDevice, OpenDeviceFails, StartDevice, Capture,
       CaptureReads, CaptureSends, CaptureSendFails, Mux, MuxStops, MuxWrites, MuxFinalizes
  <2> QED BY <1>1, <2>1
<1> QED BY <1>2, <1>3, <1>4

\* The types.
LEMMA KeepsTypes == IInv /\ [Next]_vars => TypeOK'
<1> SUFFICES ASSUME IInv, [Next]_vars PROVE TypeOK'
  OBVIOUS
<1>1. /\ Cardinality(holder') <= 1
      /\ holder' = {t \in Tasks : task'[t] = "reading"}
      /\ active' \in BOOLEAN /\ paused' \in BOOLEAN /\ stopFlag' \in [Tasks -> BOOLEAN]
  BY KeepsLock, KeepsFlags
<1>2. TypeOK /\ Control
  BY DEF IInv
<1>0. files \in [Seconds -> File] /\ (files' \in [Seconds -> File] <=> files' \in
        [Seconds -> [state : {"none", "open", "final", "broken"},
                     header : Formats, frames : Seq(Frame)]])
  BY <1>2 DEF TypeOK, File
<1> USE <1>0, <1>1, <1>2, Bounds DEF TypeOK, Goto
<1>3. CASE UNCHANGED vars
  BY <1>3 DEF vars, devVars, taskVars, muxVars, uiVars
<1>4. CASE Deliver
  <2>1. [n |-> produced + 1, fmt |-> devFmt] \in Frame /\ produced + 1 \in 0..MaxFrames
    BY <1>4 DEF Deliver, Frame
  <2>2. devq' \in Seq(Frame) /\ Len(devq') <= DevCap /\ produced' \in 0..MaxFrames
    BY <1>4, <2>1 DEF Deliver
  <2>3. /\ UNCHANGED <<requested, dev, devFmt, holder, task, inHand>>
        /\ UNCHANGED <<queue, mux, path, files, now, ui, recording, started>>
    BY <1>4 DEF Deliver, taskVars, muxVars, uiVars
  <2> QED BY <2>2, <2>3
<1>5. CASE DeviceLost \/ OpenDevice \/ OpenDeviceFails \/ StartDevice
  <2>1. /\ UNCHANGED <<requested, produced, holder, task, inHand>>
        /\ UNCHANGED <<queue, mux, path, files, now, recording, started>>
        /\ devFmt' \in Formats
        /\ dev' \in {"none", "live", "gone"}
        /\ ui' \in {"idle", "joining", "starting", "stopping", "opening", "activating"}
        /\ devq' = devq \/ devq' = <<>>
    BY <1>5 DEF DeviceLost, OpenDevice, OpenDeviceFails, StartDevice, devVars, taskVars,
       muxVars, uiVars
  <2>2. <<>> \in Seq(Frame) /\ Len(<<>>) <= DevCap
    BY Nothing
  <2>3. devq' \in Seq(Frame) /\ Len(devq') <= DevCap
    BY <2>1, <2>2
  <2> QED BY <2>1, <2>3
<1>6. CASE Tick
  BY <1>6 DEF Tick, Seconds, devVars, taskVars, muxVars, uiVars
<1>7. ASSUME NEW t \in Tasks, Reader(t)
      PROVE  TypeOK'
  BY ZenonT(30), <1>7 DEF Reader, CheckFlag, LockPipeline, NoFrame, devVars, muxVars, uiVars
<1>8. CASE MonitorReads
  <2>1. devq' \in Seq(Frame) /\ Len(devq') <= DevCap
    BY <1>8, Taken DEF MonitorReads, TakeFrame
  <2> QED BY <1>8, <2>1 DEF MonitorReads, muxVars, uiVars
<1>9. ASSUME NEW r \in Recs, CaptureReads(r)
      PROVE  TypeOK'
  <2>1. /\ devq' \in Seq(Frame) /\ Len(devq') <= DevCap
        /\ <<Head(devq)>> \in Seq(Frame) /\ Len(<<Head(devq)>>) = 1
    BY <1>9, Taken DEF CaptureReads, TakeFrame
  <2>2. /\ inHand' \in [Recs -> Seq(Frame)]
        /\ \A x \in Recs : Len(queue'[x]) <= QCap /\ Len(inHand'[x]) <= 1
    BY <1>9, <2>1 DEF CaptureReads, muxVars
  <2> QED BY <1>9, <2>1, <2>2 DEF CaptureReads, muxVars, uiVars
<1>10. ASSUME NEW r \in Recs, CaptureSends(r)
       PROVE  TypeOK'
  <2>1. queue[r] \o inHand[r] \in Seq(Frame) /\ Len(queue[r] \o inHand[r]) <= QCap
    BY <1>10, Joined DEF CaptureSends
  <2>2. /\ inHand' \in [Recs -> Seq(Frame)] /\ queue' \in [Recs -> Seq(Frame)]
        /\ \A x \in Recs : Len(queue'[x]) <= QCap /\ Len(inHand'[x]) <= 1
    BY <1>10, <2>1, Nothing DEF CaptureSends
  <2> QED BY <1>10, <2>2 DEF CaptureSends, devVars, uiVars
<1>11. ASSUME NEW r \in Recs, CaptureSendFails(r)
       PROVE  TypeOK'
  BY <1>11, Nothing DEF CaptureSendFails, devVars, muxVars, uiVars
<1>12. ASSUME NEW r \in Recs, MuxStops(r)
       PROVE  TypeOK'
  <2>1. queue[r] # <<>> => Tail(queue[r]) \in Seq(Frame) /\ Len(Tail(queue[r])) <= QCap
    BY Taken
  <2> QED BY ZenonT(30), <1>12, <2>1 DEF MuxStops, devVars, taskVars, uiVars
<1>13. ASSUME NEW r \in Recs, MuxWrites(r)
       PROVE  TypeOK'
  <2>1. /\ Tail(queue[r]) \in Seq(Frame) /\ Len(Tail(queue[r])) <= QCap
        /\ Head(queue[r]) \in Frame
    BY <1>13, Taken DEF MuxWrites
  <2>2. /\ queue' \in [Recs -> Seq(Frame)]
        /\ \A x \in Recs : Len(queue'[x]) <= QCap /\ Len(inHand'[x]) <= 1
    BY <1>13, <2>1 DEF MuxWrites, taskVars
  <2>3. path[r] \in Seconds
    BY <1>13 DEF MuxWrites, Control, Writing
  <2>4. Append(files[path[r]].frames, Head(queue[r])) \in Seq(Frame)
    BY <2>1, <2>3
  <2>5. files' \in [Seconds -> File]
    <3>1. [files[path[r]] EXCEPT !.frames = Append(files[path[r]].frames, Head(queue[r]))]
            \in File
      BY <2>3, <2>4, FileTypes
    <3>2. \/ files' = files
          \/ files' = [files EXCEPT ![path[r]] =
               [files[path[r]] EXCEPT !.frames = Append(files[path[r]].frames, Head(queue[r]))]]
      BY <1>13 DEF MuxWrites
    <3> QED BY <2>3, <3>1, <3>2
  <2> QED BY <1>13, <2>2, <2>5 DEF MuxWrites, devVars, taskVars, uiVars
<1>14. ASSUME NEW r \in Recs, MuxFinalizes(r)
       PROVE  TypeOK'
  <2>1. path[r] \in Seconds
    BY <1>14 DEF MuxFinalizes, Control, Writing
  <2>2. files' \in [Seconds -> File]
    <3>1. PICK st \in {"final", "broken"} :
            files' = [files EXCEPT ![path[r]] = [files[path[r]] EXCEPT !.state = st]]
      BY <1>14 DEF MuxFinalizes
    <3>2. [files[path[r]] EXCEPT !.state = st] \in File
      BY <2>1, FileTypes
    <3> QED BY <2>1, <3>1, <3>2
  <2>3. <<>> \in Seq(Frame) /\ Len(<<>>) <= QCap
    BY Nothing
  <2>4. /\ queue' \in [Recs -> Seq(Frame)]
        /\ \A x \in Recs : Len(queue'[x]) <= QCap
    BY <1>14, <2>3 DEF MuxFinalizes
  <2>5. /\ UNCHANGED <<requested, dev, devFmt, devq, produced, holder, task, inHand>>
        /\ UNCHANGED <<path, now, ui, recording, started>>
        /\ mux' = [mux EXCEPT ![r] = "done"]
    BY <1>14 DEF MuxFinalizes, devVars, taskVars, uiVars
  <2> QED BY <2>2, <2>4, <2>5
<1>15. CASE Click \/ SpawnMonitor \/ JoinMonitor \/ StopReturns
  BY <1>15 DEF Click, SpawnMonitor, JoinMonitor, StopReturns, Record, Pause, Stop,
     SelectRate, SelectDevice, devVars, taskVars, muxVars, uiVars
<1>16. CASE OpenFile
  <2>1. started + 1 \in Recs /\ now \in 0..MaxSeconds
    BY <1>16 DEF OpenFile, Control, Recs, Tasks, Seconds
  <2>2. files' \in [Seconds -> File]
    <3>1. [state |-> "open", header |-> requested, frames |-> <<>>] \in File
      BY Nothing DEF File
    <3> QED BY <1>16, <3>1 DEF OpenFile
  <2> QED BY <1>16, <2>1, <2>2 DEF OpenFile, devVars
<1>17. CASE OpenFileFails
  <2>1. files' \in [Seconds -> File]
    <3>1. NoFile("broken", requested) \in File
      BY Nothing DEF NoFile, File
    <3> QED BY <1>17, <3>1 DEF OpenFileFails
  <2> QED BY <1>17, <2>1 DEF OpenFileFails, devVars, taskVars
<1> QED BY <1>3, <1>4, <1>5, <1>6, <1>7, <1>8, <1>9, <1>10, <1>11, <1>12, <1>13, <1>14,
           <1>15, <1>16, <1>17
        DEF Next, Device, MonitorTask, Update, Opening, Capture, Mux

\* Who can be where.
LEMMA KeepsControl == IInv /\ [Next]_vars => Control'
<1> SUFFICES ASSUME IInv, [Next]_vars PROVE Control'
  OBVIOUS
<1>1. TypeOK /\ Control
  BY DEF IInv
<1>2. /\ task \in [Tasks -> {"none", "check", "wait", "reading", "sending", "done"}]
      /\ queue \in [Recs -> Seq(Frame)] /\ inHand \in [Recs -> Seq(Frame)]
      /\ mux \in [Recs -> {"none", "recv", "finalize", "done"}]
      /\ path \in [Recs -> 0..MaxSeconds] /\ now \in Seconds
      /\ recording \in Tasks /\ started \in Tasks
  BY <1>1 DEF TypeOK
<1> USE <1>1, <1>2, Bounds DEF Control, Writing, Goto
<1>3. CASE UNCHANGED vars \/ Device \/ Tick \/ OpenDevice \/ OpenDeviceFails \/ StartDevice
  <2>1. /\ UNCHANGED <<task, inHand, queue, mux, path, recording, started>>
        /\ ui' = ui \/ ui' \in {"activating", "idle"}
    BY <1>3 DEF vars, Device, Deliver, DeviceLost, Tick, OpenDevice, OpenDeviceFails,
       StartDevice, taskVars, muxVars, uiVars
  <2> QED BY <2>1
<1>4. ASSUME NEW t \in Tasks, Reader(t) \/ (MonitorReads /\ t = Monitor)
      PROVE  Control'
  <2>1. /\ UNCHANGED <<inHand, queue, mux, path, ui, recording, started>>
        /\ task[t] \in {"check", "wait", "reading"}
        /\ \E to \in {"check", "wait", "reading", "done"} : task' = [task EXCEPT ![t] = to]
    BY <1>4 DEF Reader, CheckFlag, LockPipeline, NoFrame, MonitorReads, TakeFrame, muxVars,
       uiVars
  <2> QED BY <2>1
<1>5. ASSUME NEW r \in Recs, CaptureReads(r)
      PROVE  Control'
  <2>1. /\ UNCHANGED <<queue, mux, path, ui, recording, started>>
        /\ task[r] = "reading" /\ task' = [task EXCEPT ![r] = "sending"]
        /\ \E q : inHand' = [inHand EXCEPT ![r] = q]
    BY <1>5 DEF CaptureReads, TakeFrame, muxVars, uiVars
  <2> QED BY <2>1
<1>6. ASSUME NEW r \in Recs, CaptureSends(r) \/ CaptureSendFails(r)
      PROVE  Control'
  <2>1. /\ UNCHANGED <<mux, path, ui, recording, started>>
        /\ task[r] = "sending" /\ inHand' = [inHand EXCEPT ![r] = <<>>]
        /\ \E to \in {"check", "done"} : task' = [task EXCEPT ![r] = to]
        /\ \E q : queue' = [queue EXCEPT ![r] = q] \/ queue' = queue
    BY <1>6 DEF CaptureSends, CaptureSendFails, muxVars, uiVars
  <2> QED BY <2>1
<1>7. ASSUME NEW r \in Recs, Mux(r)
      PROVE  Control'
  <2>1. /\ UNCHANGED <<task, inHand, path, ui, recording, started>>
        /\ mux[r] \in {"recv", "finalize"}
        /\ \E to \in {"recv", "finalize", "done"} : mux' = [mux EXCEPT ![r] = to]
        /\ \E q : queue' = [queue EXCEPT ![r] = q] \/ queue' = queue
    BY <1>7 DEF Mux, MuxStops, MuxWrites, MuxFinalizes, taskVars, uiVars
  <2> QED BY <2>1
<1>8. CASE SpawnMonitor
  BY <1>8 DEF SpawnMonitor, muxVars, uiVars
<1>9. CASE JoinMonitor
  BY <1>9 DEF JoinMonitor, muxVars
<1>10. CASE Click
  <2>1. UNCHANGED <<task, inHand, queue, mux, path, recording, started>>
    BY <1>10 DEF Click, Record, Pause, Stop, SelectRate, SelectDevice, taskVars, muxVars,
       uiVars
  <2>2. \/ ui' \in {"idle", "opening"}
        \/ ui' = "joining" /\ recording = 0 /\ started < MaxRec
        \/ ui' = "stopping" /\ recording # 0
    BY <1>10 DEF Click, Record, Pause, Stop, SelectRate, SelectDevice, uiVars
  <2> QED BY <2>1, <2>2
<1>11. CASE OpenFile
  <2>0. started + 1 \in Recs
    BY <1>11 DEF OpenFile, Recs, Tasks
  <2>1. PICK r \in Recs : /\ r = started + 1 /\ recording' = r
                          /\ started' = r /\ ui' = "idle"
                          /\ task' = [task EXCEPT ![r] = "check"]
                          /\ mux' = [mux EXCEPT ![r] = "recv"]
                          /\ path' = [path EXCEPT ![r] = now]
                          /\ UNCHANGED <<queue, inHand>>
    BY <1>11, <2>0 DEF OpenFile
  <2>2. recording = 0 /\ \A x \in Recs : ~Writing(x) /\ x # 0
    BY <1>11 DEF OpenFile, Monitor
  <2>3. task[Monitor] = "none" /\ r # Monitor
    BY <1>11 DEF OpenFile
  <2>4. \A x \in Recs : x # r /\ x > started' => x > started
    BY <2>1 DEF Recs, Tasks
  <2>5. /\ recording' <= started' /\ recording' # 0 => task'[Monitor] = "none"
        /\ \A x \in Recs : Writing(x)' => x = recording' /\ path'[x] \in Seconds
    BY <2>1, <2>2, <2>3 DEF Recs
  <2>6. \A x \in Recs : x > started' =>
          mux'[x] = "none" /\ task'[x] = "none" /\ queue'[x] = <<>> /\ inHand'[x] = <<>>
    BY <2>1, <2>4
  <2>7. \A x \in Recs : inHand'[x] # <<>> => task'[x] = "sending"
    BY <2>1 DEF Recs, Tasks
  <2> QED BY <2>1, <2>5, <2>6, <2>7
<1>12. CASE OpenFileFails
  BY <1>12 DEF OpenFileFails, taskVars
<1>13. CASE StopReturns
  <2>1. /\ UNCHANGED <<task, inHand, queue, mux, path, started>>
        /\ ui' = "idle" /\ recording' = 0 /\ mux[recording] = "done" /\ recording # 0
    BY <1>13 DEF StopReturns, taskVars, muxVars
  <2>2. \A x \in Recs : ~Writing(x)
    BY <2>1
  <2> QED BY <2>1, <2>2 DEF Tasks
<1>14. CASE MonitorTask
  BY <1>4, <1>14 DEF MonitorTask
<1>15. ASSUME NEW r \in Recs, Capture(r)
       PROVE  Control'
  <2>1. Reader(r) => Control'
    <3>1. r \in Tasks
      OBVIOUS
    <3> HIDE DEF Control, Writing, Goto
    <3> QED BY <1>4, <3>1
  <2> HIDE DEF Control, Writing, Goto
  <2> QED BY <1>5, <1>6, <1>15, <2>1 DEF Capture
<1>16. CASE Update
  BY <1>3, <1>8, <1>9, <1>11, <1>12, <1>13, <1>16 DEF Update, Opening
<1> QED BY <1>3, <1>7, <1>10, <1>14, <1>15, <1>16 DEF Next

\* Frames move along the line, one place at a time.
LEMMA KeepsOrder == IInv /\ [Next]_vars => Order'
<1> SUFFICES ASSUME IInv, [Next]_vars PROVE Order'
  OBVIOUS
<1>1. TypeOK /\ Control /\ Order
  BY DEF IInv
<1> DEFINE F(r) == files[path[r]].frames
<1>2. /\ devq \in Seq(Frame) /\ produced \in Nat
      /\ queue \in [Recs -> Seq(Frame)] /\ inHand \in [Recs -> Seq(Frame)]
      /\ mux \in [Recs -> {"none", "recv", "finalize", "done"}]
      /\ path \in [Recs -> 0..MaxSeconds] /\ now \in Seconds
      /\ files \in [Seconds -> File]
      /\ \A r \in Recs : Len(inHand[r]) <= 1
  BY <1>1, Bounds DEF TypeOK, File
<1>3. \A s \in Seconds : files[s].frames \in Seq(Frame)
  BY <1>2 DEF File
<1>4. \A r \in Recs : mux[r] = "recv" =>
        path[r] \in Seconds /\ r = recording /\ F(r) \in Seq(Frame)
  BY <1>1, <1>3 DEF Control, Writing
<1> USE <1>2
<1>5. ASSUME UNCHANGED <<devq, produced, queue, inHand, mux, path, files>> PROVE Order'
  BY <1>1, <1>5 DEF Order, InLine
<1>6. CASE Deliver
  <2> DEFINE new == [n |-> produced + 1, fmt |-> devFmt]
  <2>0. new \in Frame /\ new.n = produced + 1
    BY <1>1, <1>6, Bounds DEF Deliver, TypeOK, Frame
  <2>1. /\ produced' = produced + 1 /\ devq' = devq \o <<new>>
        /\ UNCHANGED <<queue, inHand, mux, path, files>>
        /\ <<new>> \in Seq(Frame) /\ Len(<<new>>) = 1 /\ <<new>>[1].n = produced + 1
    <3>1. produced' = produced + 1 /\ devq' = Append(devq, new)
      BY <1>6 DEF Deliver
    <3>2. UNCHANGED <<queue, inHand, mux, path, files>>
      BY <1>6 DEF Deliver, taskVars, muxVars
    <3> HIDE DEF new
    <3> QED BY <2>0, <3>1, <3>2, Added
  <2> HIDE DEF new
  <2>2. ASSUME NEW s \in Seq(Frame), UpTo(s, produced)
        PROVE  UpTo(s, produced + 1) /\ Below(s, <<new>>)
    <3>1. \A i \in 1..Len(s) : s[i].n \in Nat
      <4>1. \A f \in Frame : f.n \in Nat
        BY Bounds DEF Frame
      <4> QED BY <4>1
    <3>2. \A i \in 1..Len(s) : s[i].n <= produced
      BY <2>2 DEF UpTo
    <3>3. \A i \in 1..Len(s) : s[i].n <= produced + 1 /\ s[i].n < produced + 1
      BY <3>1, <3>2
    <3>4. \A j \in 1..Len(<<new>>) : <<new>>[j].n = produced + 1
      BY <2>1
    <3> QED BY <3>3, <3>4 DEF UpTo, Below
  <2>3. Asc(<<new>>) /\ UpTo(<<new>>, produced + 1)
    BY <2>1 DEF Asc, UpTo
  <2>4. Asc(devq') /\ UpTo(devq', produced')
    <3>1. /\ Asc(devq) /\ Below(devq, <<new>>)
          /\ UpTo(devq, produced + 1) /\ UpTo(<<new>>, produced + 1)
      BY <1>1, <2>2, <2>3 DEF Order
    <3>2. produced + 1 \in Nat
      OBVIOUS
    <3> QED BY <2>1, <2>3, <3>1, <3>2, Joined
  <2>5. ASSUME NEW r \in Recs, mux[r] = "recv"
        PROVE  InLine(F(r), queue[r], inHand[r], devq', produced')
    BY <1>1, <1>4, <2>1, <2>2, <2>5, Joined DEF Order, InLine
  <2> QED BY <1>1, <2>1, <2>4, <2>5 DEF Order
<1>7. CASE OpenDevice
  <2>1. devq' = <<>> /\ UNCHANGED <<produced, queue, inHand, mux, path, files>>
    BY <1>7 DEF OpenDevice, taskVars, muxVars
  <2> QED BY <1>1, <2>1, Nothing DEF Order, InLine
<1>8. CASE MonitorReads
  <2>1. /\ devq # <<>> /\ devq' = Tail(devq)
        /\ UNCHANGED <<produced, queue, inHand, mux, path, files>>
    BY <1>8 DEF MonitorReads, TakeFrame, muxVars
  <2>2. ASSUME NEW r \in Recs, mux[r] = "recv"
        PROVE  InLine(F(r), queue[r], inHand[r], devq', produced)
    BY <1>1, <1>4, <2>1, <2>2, Taken DEF Order, InLine
  <2> QED BY <1>1, <2>1, <2>2, Taken DEF Order
<1>9. ASSUME NEW t \in Recs, CaptureReads(t) PROVE Order'
  <2>1. /\ devq # <<>> /\ devq' = Tail(devq)
        /\ inHand' = [inHand EXCEPT ![t] = <<Head(devq)>>] /\ inHand[t] = <<>>
        /\ UNCHANGED <<produced, queue, mux, path, files>>
    BY <1>1, <1>9 DEF CaptureReads, TakeFrame, muxVars, Control
  <2>2. Asc(devq') /\ UpTo(devq', produced)
    BY <1>1, <2>1, Taken DEF Order
  <2>3. ASSUME NEW r \in Recs, mux[r] = "recv"
        PROVE  InLine(F(r), queue[r], inHand'[r], devq', produced)
    <3>1. CASE r = t
      BY <1>1, <1>4, <2>1, <2>3, <3>1, Taken DEF Order, InLine
    <3>2. CASE r # t
      BY <1>1, <1>4, <2>1, <2>3, <3>2, Taken DEF Order, InLine
    <3> QED BY <3>1, <3>2
  <2> QED BY <1>1, <2>1, <2>2, <2>3 DEF Order
<1>10. ASSUME NEW t \in Recs, CaptureSends(t) PROVE Order'
  <2>1. /\ queue' = [queue EXCEPT ![t] = queue[t] \o inHand[t]]
        /\ inHand' = [inHand EXCEPT ![t] = <<>>]
        /\ UNCHANGED <<devq, produced, mux, path, files>>
    BY <1>10 DEF CaptureSends, devVars
  <2>2. ASSUME NEW r \in Recs, mux[r] = "recv"
        PROVE  InLine(F(r), queue'[r], inHand'[r], devq, produced)
    <3>1. CASE r = t
      <4>1. Asc(inHand[r])
        BY Single
      <4> QED BY <1>1, <1>4, <2>1, <2>2, <3>1, <4>1, Joined, Nothing DEF Order, InLine
    <3>2. CASE r # t
      BY <1>1, <2>1, <2>2, <3>2 DEF Order
    <3> QED BY <3>1, <3>2
  <2> QED BY <1>1, <2>1, <2>2 DEF Order
<1>11. ASSUME NEW t \in Recs, CaptureSendFails(t) PROVE Order'
  <2>1. /\ mux[t] = "done" /\ inHand' = [inHand EXCEPT ![t] = <<>>]
        /\ UNCHANGED <<devq, produced, queue, mux, path, files>>
    BY <1>11 DEF CaptureSendFails, devVars, muxVars
  <2> QED BY <1>1, <2>1 DEF Order
<1>12. ASSUME NEW t \in Recs, MuxStops(t) PROVE Order'
  <2>1. /\ mux' = [mux EXCEPT ![t] = "finalize"]
        /\ \A r \in Recs : r # t => queue'[r] = queue[r]
        /\ UNCHANGED <<devq, produced, inHand, path, files>>
    BY <1>12 DEF MuxStops, devVars, taskVars
  <2> QED BY <1>1, <2>1 DEF Order
<1>13. ASSUME NEW t \in Recs, MuxWrites(t) PROVE Order'
  <2> DEFINE h == Head(queue[t])
  <2>1. /\ mux[t] = "recv" /\ queue[t] # <<>> /\ queue' = [queue EXCEPT ![t] = Tail(queue[t])]
        /\ UNCHANGED <<devq, produced, inHand, mux, path>>
        /\ \A r \in Recs : mux[r] = "recv" => r = t
    BY <1>4, <1>13 DEF MuxWrites, devVars, taskVars
  <2>2. /\ <<h>> \in Seq(Frame) /\ h \in Frame /\ Asc(<<h>>)
        /\ path[t] \in Seconds /\ F(t) \in Seq(Frame)
        /\ InLine(F(t), queue[t], inHand[t], devq, produced)
        /\ Asc(F(t))
    BY <1>1, <1>4, <2>1, Taken DEF Order, InLine
  <2>3. \/ F(t)' = F(t) /\ files' = files
        \/ /\ F(t)' = F(t) \o <<h>>
           /\ \A s \in Seconds : s # path[t] => files'[s] = files[s]
    <3>1. \/ files' = files
          \/ files' = [files EXCEPT ![path[t]] =
               [files[path[t]] EXCEPT !.frames = Append(F(t), h)]]
      BY <1>13 DEF MuxWrites
    <3>2. Append(F(t), h) = F(t) \o <<h>>
      BY <2>2, Added
    <3>3. [files[path[t]] EXCEPT !.frames = F(t) \o <<h>>].frames = F(t) \o <<h>>
      BY SMTT(30), <2>2 DEF File
    <3> QED BY <2>1, <2>2, <3>1, <3>2, <3>3
  <2>4. InLine(F(t)', Tail(queue[t]), inHand[t], devq, produced) /\ Asc(F(t)')
    <3>1. CASE F(t)' = F(t)
      BY <2>1, <2>2, <3>1, Taken DEF InLine
    <3>2. CASE F(t)' = F(t) \o <<h>>
      <4>1. /\ Tail(queue[t]) \in Seq(Frame) /\ Asc(Tail(queue[t]))
            /\ UpTo(<<h>>, produced) /\ UpTo(Tail(queue[t]), produced)
            /\ Below(F(t), <<h>>) /\ Below(F(t), Tail(queue[t])) /\ Below(<<h>>, Tail(queue[t]))
            /\ Below(<<h>>, inHand[t]) /\ Below(Tail(queue[t]), inHand[t])
            /\ Below(<<h>>, devq) /\ Below(Tail(queue[t]), devq)
        BY <2>1, <2>2, Taken DEF InLine
      <4> HIDE DEF h
      <4>2. Asc(F(t)') /\ UpTo(F(t)', produced)
        BY <2>2, <3>2, <4>1, Joined DEF InLine
      <4>3. /\ Below(F(t)', Tail(queue[t])) /\ Below(F(t)', inHand[t]) /\ Below(F(t)', devq)
        <5>1. /\ Below(F(t), inHand[t]) /\ Below(F(t), devq)
              /\ inHand[t] \in Seq(Frame) /\ devq \in Seq(Frame)
          BY <2>2 DEF InLine
        <5>2. ASSUME NEW u \in Seq(Frame), Below(F(t), u), Below(<<h>>, u)
              PROVE  Below(F(t) \o <<h>>, u)
          <6> HIDE DEF F
          <6> QED BY <2>2, <5>2, Joined
        <5> QED BY <3>2, <4>1, <5>1, <5>2
      <4> QED BY <2>2, <4>1, <4>2, <4>3 DEF InLine
    <3> QED BY <2>3, <3>1, <3>2
  <2>5. \A s \in Seconds : Asc(files'[s].frames)
    BY <1>1, <2>1, <2>3, <2>4 DEF Order
  <2>6. ASSUME NEW r \in Recs, mux[r] = "recv"
        PROVE  InLine(F(r)', queue'[r], inHand[r], devq, produced)
    BY <2>1, <2>4, <2>6
  <2> QED BY <1>1, <2>1, <2>5, <2>6 DEF Order
<1>14. ASSUME NEW t \in Recs, MuxFinalizes(t) PROVE Order'
  <2>1. /\ mux' = [mux EXCEPT ![t] = "done"] /\ \A r \in Recs : mux[r] # "recv"
        /\ UNCHANGED <<devq, produced, inHand, path>>
        /\ \A s \in Seconds : files'[s].frames = files[s].frames
    <3>1. \A r \in Recs : mux[r] # "recv"
      BY <1>1, <1>14 DEF MuxFinalizes, Control, Writing
    <3>2. PICK st : files' = [files EXCEPT ![path[t]] = [files[path[t]] EXCEPT !.state = st]]
      BY <1>14 DEF MuxFinalizes
    <3>3. \A s \in Seconds : files'[s].frames = files[s].frames
      BY <3>2 DEF File
    <3> QED BY <1>14, <3>1, <3>3 DEF MuxFinalizes, devVars, taskVars
  <2> QED BY <1>1, <2>1 DEF Order
<1>15. CASE Opening
  <2>1. \A r \in Recs : mux[r] # "recv" /\ mux[r] # "finalize"
    BY <1>1, <1>15 DEF Opening, OpenFile, OpenFileFails, Control, Writing, Recs
  <2>2. /\ UNCHANGED <<devq, produced, inHand, queue>>
        /\ \A s \in Seconds : files'[s].frames \in {<<>>, files[s].frames}
    <3>1. CASE OpenFile
      BY <3>1 DEF OpenFile, devVars
    <3>2. CASE OpenFileFails
      <4>1. UNCHANGED <<devq, produced, inHand, queue>>
        BY <3>2 DEF OpenFileFails, devVars, taskVars
      <4>2. files' = files \/ files' = [files EXCEPT ![now] = NoFile("broken", requested)]
        BY <3>2 DEF OpenFileFails
      <4>3. NoFile("broken", requested).frames = <<>>
        BY DEF NoFile
      <4> QED BY <4>1, <4>2, <4>3
    <3> QED BY <1>15, <3>1, <3>2 DEF Opening
  <2>3. \A s \in Seconds : Asc(files'[s].frames)
    BY <1>1, <2>2, Nothing DEF Order
  <2>4. ASSUME NEW r \in Recs, mux'[r] = "recv"
        PROVE  files'[path'[r]].frames = <<>> /\ queue[r] = <<>> /\ inHand[r] = <<>>
    <3>1. OpenFile /\ r = started + 1
      BY <1>15, <2>1, <2>4 DEF Opening, OpenFile, OpenFileFails
    <3> QED BY <1>1, <3>1 DEF OpenFile, Control, TypeOK, Tasks
  <2> QED BY <1>1, <2>2, <2>3, <2>4, Nothing DEF Order, InLine
<1>16. CASE UNCHANGED vars \/ DeviceLost \/ Tick \/ Click \/ SpawnMonitor \/ JoinMonitor
            \/ StopReturns \/ OpenDeviceFails \/ StartDevice
  <2>1. UNCHANGED <<devq, produced, queue, inHand, mux, path, files>>
    BY <1>16 DEF vars, DeviceLost, Tick, Click, Record, Pause, Stop, SelectRate,
       SelectDevice, SpawnMonitor, JoinMonitor, StopReturns, OpenDeviceFails, StartDevice,
       devVars, taskVars, muxVars
  <2> QED BY <1>5, <2>1
<1>17. ASSUME NEW t \in Tasks, Reader(t) PROVE Order'
  BY <1>5, <1>17 DEF Reader, CheckFlag, LockPipeline, NoFrame, devVars, muxVars
<1>18. CASE MonitorTask
  BY <1>8, <1>17, <1>18, Bounds DEF MonitorTask
<1>19. ASSUME NEW r \in Recs, Capture(r) PROVE Order'
  <2>1. r \in Tasks
    BY Bounds
  <2>2. CASE Reader(r)
    BY <1>17, <2>1, <2>2
  <2> QED BY <1>9, <1>10, <1>11, <1>19, <2>2 DEF Capture
<1>20. ASSUME NEW r \in Recs, Mux(r) PROVE Order'
  BY <1>12, <1>13, <1>14, <1>20 DEF Mux
<1> QED BY <1>6, <1>7, <1>15, <1>16, <1>18, <1>19, <1>20 DEF Next, Device, Update
-----------------------------------------------------------------------------
(* What follows for every reachable state.                                 *)

\* The invariant holds in every reachable state.
THEOREM RecorderInvariance == Spec => []IInv
<1>1. IInv /\ [Next]_vars => IInv'
  BY KeepsTypes, KeepsControl, KeepsOrder DEF IInv
<1> QED BY Start, <1>1, PTL DEF Spec

\* Types and capacities; one task at a time holds the pipeline mutex
\* (window.rs: both loops take a frame under pipeline.lock()).
THEOREM RecorderTypes == Spec => []TypeOK
<1>1. IInv => TypeOK
  BY DEF IInv
<1> QED BY RecorderInvariance, <1>1, PTL

\* However often the window starts and stops, no monitor runs beside the
\* recording it shows (window.rs: start_recording joins the monitor first).
THEOREM MonitorStaysAway == Spec => []MonitorNotRacing
<1>1. IInv => MonitorNotRacing
  BY DEF IInv, Control, MonitorNotRacing
<1> QED BY RecorderInvariance, <1>1, PTL

\* However many recordings follow one another, one mux task writes
\* (window.rs: stop_recording waits for the mux task).
THEOREM WritersExclude == Spec => []OneWriter
<1>1. ASSUME IInv PROVE OneWriter
  <2> DEFINE W == {r \in Recs : mux[r] \in {"recv", "finalize"}}
  <2>1. W \in SUBSET {recording}
    BY <1>1 DEF IInv, Control, Writing
  <2>2. IsFiniteSet({recording}) /\ Cardinality({recording}) = 1
    BY FS_Singleton
  <2>3. IsFiniteSet(W) /\ Cardinality(W) <= Cardinality({recording})
    BY <2>1, <2>2, FS_Subset
  <2>4. Cardinality(W) \in Nat
    BY <2>3, FS_CardinalityType
  <2> QED BY <2>2, <2>3, <2>4 DEF OneWriter
<1> QED BY RecorderInvariance, <1>1, PTL

\* For any number of frames and recordings, a file holds its frames in the
\* order of the device and none twice (window.rs: one mutex, one channel per
\* recording, one mux task).
THEOREM FilesInOrder == Spec => []FileOrdered
<1>1. ASSUME IInv PROVE FileOrdered
  <2>1. ASSUME NEW s \in Seconds, NEW i \in 1..(Len(files[s].frames) - 1)
        PROVE  files[s].frames[i].n < files[s].frames[i + 1].n
    <3>1. files[s].frames \in Seq(Frame) /\ Asc(files[s].frames)
      BY <1>1 DEF IInv, TypeOK, Order
    <3>2. Len(files[s].frames) \in Nat
      BY <3>1
    <3>3. i \in 1..Len(files[s].frames) /\ i + 1 \in 1..Len(files[s].frames) /\ i < i + 1
      BY <3>2
    <3> QED BY <3>1, <3>3 DEF Asc
  <2> QED BY <2>1 DEF FileOrdered
<1> QED BY RecorderInvariance, <1>1, PTL

\* No flag is set for a recording that was not begun.
Unflagged == \A r \in Recs : r > started => ~stopFlag[r]

\* However many recordings there are and however fast the device delivers, the
\* monitor is away from a recording, and a task whose flag is set goes through
\* its loop to the end and not round it (window.rs: both loops look at their
\* flag before they lock the pipeline).
THEOREM RivalsAreBounded == Spec => RivalsLeave
<1> DEFINE A == /\ MonitorNotRacing'
                /\ \A t \in Tasks : stopFlag[t] /\ stopFlag'[t] =>
                     StepsLeft(t)' < StepsLeft(t) \/ task'[t] = task[t]
<1>1. Init => Unflagged
  BY Bounds DEF Init, Unflagged
<1>2. IInv /\ Unflagged /\ [Next]_vars => Unflagged'
  <2> SUFFICES ASSUME TypeOK, Control, Unflagged, [Next]_vars PROVE Unflagged'
    BY DEF IInv
  <2>1. /\ stopFlag \in [Tasks -> BOOLEAN] /\ started \in Tasks
        /\ recording \in Tasks /\ recording <= started
    BY DEF TypeOK, Control
  <2>2. \/ UNCHANGED stopFlag
        \/ \E x \in BOOLEAN : stopFlag' = [stopFlag EXCEPT ![Monitor] = x]
        \/ stopFlag' = [stopFlag EXCEPT ![recording] = TRUE]
    BY DEF Next, vars, taskVars, Device, Deliver, DeviceLost, Tick, MonitorTask, Reader,
       CheckFlag, LockPipeline, NoFrame, MonitorReads, Click, Record, Pause, Stop,
       SelectRate, SelectDevice, Update, SpawnMonitor, JoinMonitor, Opening, OpenFile,
       OpenFileFails, StopReturns, OpenDevice, OpenDeviceFails, StartDevice, Capture,
       CaptureReads, CaptureSends, CaptureSendFails, Mux, MuxStops, MuxWrites, MuxFinalizes
  <2>3. UNCHANGED started \/ started' = started + 1
    BY DEF Next, vars, uiVars, Device, Deliver, DeviceLost, Tick, MonitorTask, Reader,
       CheckFlag, LockPipeline, NoFrame, MonitorReads, Click, Record, Pause, Stop,
       SelectRate, SelectDevice, Update, SpawnMonitor, JoinMonitor, Opening, OpenFile,
       OpenFileFails, StopReturns, OpenDevice, OpenDeviceFails, StartDevice, Capture,
       CaptureReads, CaptureSends, CaptureSendFails, Mux, MuxStops, MuxWrites, MuxFinalizes
  <2>4. \A r \in Recs : r > started' => r \in Tasks /\ r > started /\ r # recording /\ r # Monitor
    BY <2>1, <2>3 DEF Recs, Tasks, Monitor
  <2> QED BY <2>1, <2>2, <2>4 DEF Unflagged
<1>3. ASSUME TypeOK, Control, Unflagged, [Next]_vars,
             NEW t \in Tasks, stopFlag[t], stopFlag'[t]
      PROVE  StepsLeft(t)' < StepsLeft(t) \/ task'[t] = task[t]
  <2>1. /\ task \in [Tasks -> {"none", "check", "wait", "reading", "sending", "done"}]
        /\ started \in Tasks /\ Monitor \in Tasks /\ Recs \subseteq Tasks
    BY <1>3, Bounds DEF TypeOK
  <2> USE DEF Goto
  <2>2. CASE Device \/ Tick \/ Click \/ UNCHANGED vars
    BY <2>2 DEF Device, Deliver, DeviceLost, Tick, Click, Record, Pause, Stop, SelectRate,
                SelectDevice, taskVars, vars
  <2>3. ASSUME NEW u \in Tasks, Reader(u)
        PROVE  StepsLeft(t)' < StepsLeft(t) \/ task'[t] = task[t]
    <3>1. CASE u = t
      BY <1>3, <2>1, <2>3, <3>1 DEF Reader, CheckFlag, LockPipeline, NoFrame, StepsLeft
    <3>2. CASE u # t
      BY <2>1, <2>3, <3>2 DEF Reader, CheckFlag, LockPipeline, NoFrame
    <3> QED BY <3>1, <3>2
  <2>4. CASE MonitorReads
    BY <2>1, <2>4 DEF MonitorReads, TakeFrame, StepsLeft
  <2>5. ASSUME NEW r \in Recs, CaptureReads(r)
        PROVE  StepsLeft(t)' < StepsLeft(t) \/ task'[t] = task[t]
    BY <2>1, <2>5 DEF CaptureReads, TakeFrame, StepsLeft
  <2>6. ASSUME NEW r \in Recs, CaptureSends(r) \/ CaptureSendFails(r)
        PROVE  StepsLeft(t)' < StepsLeft(t) \/ task'[t] = task[t]
    <3>1. r \in Tasks /\ task[r] = "sending"
      BY <2>1, <2>6 DEF CaptureSends, CaptureSendFails
    <3>2. task' = [task EXCEPT ![r] = "check"] \/ task' = [task EXCEPT ![r] = "done"]
      BY <2>6 DEF CaptureSends, CaptureSendFails
    <3> QED BY <2>1, <3>1, <3>2 DEF StepsLeft
  <2>7. ASSUME NEW r \in Recs, Mux(r) PROVE task'[t] = task[t]
    BY <2>7 DEF Mux, MuxStops, MuxWrites, MuxFinalizes, taskVars
  <2>8. CASE SpawnMonitor
    <3>1. t # Monitor
      BY <1>3, <2>8 DEF SpawnMonitor, TypeOK
    <3> QED BY <2>1, <2>8, <3>1 DEF SpawnMonitor
  <2>9. CASE JoinMonitor
    BY <2>1, <2>9 DEF JoinMonitor, StepsLeft
  <2>10. CASE Opening
    <3>1. CASE OpenFile
      <4>1. started + 1 \in Recs /\ ~stopFlag[started + 1]
        BY <1>3, <2>1, <3>1, Bounds DEF OpenFile, Control, Unflagged, Recs, Tasks
      <4> QED BY <1>3, <2>1, <3>1, <4>1 DEF OpenFile
    <3>2. CASE OpenFileFails
      BY <3>2 DEF OpenFileFails, taskVars
    <3> QED BY <2>10, <3>1, <3>2 DEF Opening
  <2>11. CASE StopReturns \/ OpenDevice \/ OpenDeviceFails \/ StartDevice
    BY <2>11 DEF StopReturns, OpenDevice, OpenDeviceFails, StartDevice, taskVars
  <2>12. CASE MonitorTask
    BY <2>1, <2>3, <2>4, <2>12 DEF MonitorTask
  <2>13. ASSUME NEW r \in Recs, Capture(r)
         PROVE  StepsLeft(t)' < StepsLeft(t) \/ task'[t] = task[t]
    BY <2>1, <2>3, <2>5, <2>6, <2>13 DEF Capture
  <2> QED BY <1>3, <2>2, <2>7, <2>8, <2>9, <2>10, <2>11, <2>12, <2>13 DEF Next, Update
<1>4. IInv /\ Unflagged /\ MonitorNotRacing' /\ [Next]_vars => [A]_vars
  BY <1>3 DEF IInv
<1>5. RivalsLeave <=> [][A]_vars
  BY PTL DEF RivalsLeave
<1> QED BY <1>1, <1>2, <1>4, <1>5, RecorderInvariance, MonitorStaysAway, PTL DEF Spec
=============================================================================
