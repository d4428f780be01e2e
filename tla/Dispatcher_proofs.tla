-------------------------- MODULE Dispatcher_proofs --------------------------
(***************************************************************************)
(* Proofs about Dispatcher for every capacity of its queues and any number *)
(* of recordings.  None of the three properties is inductive: they need    *)
(* that a generation not yet started is untouched, that the counter counts *)
(* the tasks, and where the connection stands when a verdict is there.     *)
(***************************************************************************)
EXTENDS Dispatcher, TLAPS

Ended == shut \in {"waiting", "over", "panicked"}

One(b) == IF b THEN 1 ELSE 0

\* How many of the counted tasks of g have not finished.
Busy(g) == One(pipe[g] \notin {"none", "done"}) + One(reader[g] = "reading")
             + One(stats[g] = "ticking")

\* A generation that StartRecording has not made yet.
Untouched(g) ==
  /\ pipe[g] = "none" /\ encoder[g] = "none" /\ reader[g] = "none"
  /\ stats[g] = "none" /\ active[g] = 0 /\ counted[g] = 0

Fresh == \A g \in Generations : g > cur => Untouched(g)

\* The counter is the number of running tasks, until they are cancelled.
Counter ==
  \A g \in Generations : IF Ended THEN Busy(g) = 0 ELSE active[g] = Busy(g)

\* A wait has a generation to wait for and no verdict; no command comes after
\* a verdict.
Verdict ==
  /\ shut \in {"check", "arming", "parked"} => cur # 0
  /\ verdict # "none" => shut = "dropping" \/ Ended

\* A generation that was replaced has been told to end.
Replaced == \A g \in Generations : g < cur => signal[g] = "raised"

\* What was captured since StartRecording includes the recording's own frames.
Covers == cur # 0 => captured >= framesAtStart + counted[cur]

IInv == TypeOK /\ Fresh /\ Counter /\ Verdict /\ Replaced /\ Covers
              /\ CompletedMeansDone

\* Every initial state satisfies the invariant.
LEMMA Start == Init => IInv
  BY DispatcherAssumption
     DEF DispatcherAssumption, Init, IInv, TypeOK, Fresh, Untouched, Counter, Verdict, Replaced,
         Covers, CompletedMeansDone, Generations, Ended, Busy, One

\* An idle counter is one without tasks.
LEMMA NoTasks ==
  ASSUME NEW g \in Generations
  PROVE  Tasks(g) = {} <=> Busy(g) = 0
<1>1. Tasks(g) = {} <=> /\ pipe[g] \in {"none", "done"}
                        /\ reader[g] # "reading" /\ stats[g] # "ticking"
  BY DEF Tasks
<1> QED BY <1>1 DEF Busy, One

\* A task that has not finished is counted, and was not cancelled.
LEMMA Counted ==
  ASSUME IInv, NEW g \in Generations,
         \/ pipe[g] \notin {"none", "done"}
         \/ reader[g] = "reading"
         \/ stats[g] = "ticking"
  PROVE  ~Ended /\ active[g] = Busy(g) /\ active[g] \in 1 .. 3
<1>1. Busy(g) \in 1 .. 3
  BY DEF Busy, One
<1> QED BY <1>1 DEF IInv, Counter

\* What the end of a counted task does to the counter and its waiter.
LEMMA TaskEnds ==
  ASSUME IInv, NEW g \in Generations, active[g] \in 1 .. 3, TaskDone(g)
  PROVE  /\ active' = [active EXCEPT ![g] = @ - 1]
         /\ active' \in [Generations -> 0 .. 3]
         /\ notified' \in {"yes", "no"}
BY DEF IInv, TypeOK, TaskDone

\* The types: a task that ends is one the counter counts, and a queue is sent to
\* when it has room.
LEMMA KeepsTypes == IInv /\ [Next]_vars => TypeOK'
<1> SUFFICES ASSUME IInv, [Next]_vars PROVE TypeOK'
  OBVIOUS
<1>0. TypeOK
  BY DEF IInv
<1> USE DispatcherAssumption, <1>0
    DEF DispatcherAssumption, TypeOK, RaiseSignal, commandVars, taskVars, shutVars
<1>1. CASE UNCHANGED vars
  BY <1>1 DEF vars
<1>2. CASE StartRecording
  BY SMTT(30), <1>2 DEF StartRecording, Generations
<1>3. CASE StopRecording \/ PauseRecording \/ ResumeRecording \/ ShutdownCommand
  <2>1. CASE StopRecording
    BY <2>1 DEF StopRecording
  <2>2. CASE PauseRecording \/ ResumeRecording
    BY <2>2 DEF PauseRecording, ResumeRecording
  <2>3. CASE ShutdownCommand
    BY <2>3 DEF ShutdownCommand
  <2> QED BY <1>3, <2>1, <2>2, <2>3
<1>4. CASE BeginShutdown
  BY <1>4 DEF BeginShutdown
<1>5. CASE AllTasksDone \/ FindsTasks \/ Park \/ Wake \/ RuntimeDropped
  BY <1>5 DEF AllTasksDone, FindsTasks, Park, Wake, RuntimeDropped
<1>6. CASE Expire
  BY <1>6 DEF Expire
<1>7. CASE DropRuntime \/ ConnectionEnds
  <2>1. CancelTasks /\ shut' \in {"waiting", "over", "panicked"}
        /\ UNCHANGED <<os, commandVars, captured, active, counted, notified, verdict>>
    BY <1>7 DEF DropRuntime, ConnectionEnds, AfterDrop
  <2>2. /\ pipe' \in [Generations -> {"none", "done"}]
        /\ encoder' \in [Generations -> {"none", "done"}]
        /\ reader' \in [Generations -> {"none", "done"}]
        /\ stats' \in [Generations -> {"none", "done"}]
    BY <2>1 DEF CancelTasks
  <2>3. /\ pcm' \in [Generations -> 0 .. PcmCap]
        /\ pkt' \in [Generations -> 0 .. PktCap]
        /\ signal' \in [Generations -> {"quiet", "raised"}]
        /\ left' \subseteq Generations
    BY <2>1 DEF CancelTasks
  <2> QED BY <2>1, <2>2, <2>3
<1>8. ASSUME NEW g \in Generations,
             PipelineOpens(g) \/ PipelineShutdown(g) \/ DeviceAnswers(g)
      PROVE TypeOK'
  BY <1>8 DEF PipelineOpens, PipelineShutdown, DeviceAnswers
<1>9. ASSUME NEW g \in Generations, Send(g)
      PROVE TypeOK'
  <2>1. CASE PipelineSends(g)
    <3>1. pcm' \in [Generations -> 0 .. PcmCap]
      BY <2>1 DEF PipelineSends
    <3>2. pipe' \in [Generations ->
            {"none", "opening", "reading", "sending", "stopping", "done"}]
      BY <2>1 DEF PipelineSends
    <3> QED BY <2>1, <3>1, <3>2 DEF PipelineSends
  <2>2. CASE PipelineSendFails(g)
    BY <2>2 DEF PipelineSendFails
  <2> QED BY <1>9, <2>1, <2>2 DEF Send
<1>10. ASSUME NEW g \in Generations, NextFrame(g)
       PROVE TypeOK'
  <2>1. pipe' \in [Generations ->
          {"none", "opening", "reading", "sending", "stopping", "done"}]
    BY <1>10 DEF NextFrame
  <2>2. captured' \in 0 .. MaxFrames /\ framesAtStart \in 0 .. captured'
    BY <1>10 DEF NextFrame
  <2>3. counted' \in [Generations -> Nat]
    BY <1>10 DEF NextFrame
  <2> QED BY <1>10, <2>1, <2>2, <2>3 DEF NextFrame
<1>11. ASSUME NEW g \in Generations, StreamEnds(g) \/ PipelineStops(g)
       PROVE TypeOK'
  <2>1. active[g] \in 1 .. 3 /\ TaskDone(g)
    BY <1>11, Counted DEF StreamEnds, PipelineStops
  <2>2. pipe' \in [Generations ->
          {"none", "opening", "reading", "sending", "stopping", "done"}]
    BY <1>11 DEF StreamEnds, PipelineStops
  <2> QED BY <1>11, <2>1, <2>2, TaskEnds DEF StreamEnds, PipelineStops
<1>12. ASSUME NEW g \in Generations, ReaderShutdown(g)
       PROVE TypeOK'
  <2>1. active[g] \in 1 .. 3 /\ TaskDone(g)
    BY <1>12, Counted DEF ReaderShutdown
  <2>2. /\ reader' \in [Generations -> {"none", "reading", "done"}]
        /\ pkt' \in [Generations -> 0 .. PktCap]
    BY <1>12 DEF ReaderShutdown
  <2> QED BY <1>12, <2>1, <2>2, TaskEnds DEF ReaderShutdown
<1>13. ASSUME NEW g \in Generations, StatsShutdown(g)
       PROVE TypeOK'
  <2>1. active[g] \in 1 .. 3 /\ TaskDone(g)
    BY <1>13, Counted DEF StatsShutdown
  <2>2. stats' \in [Generations -> {"none", "ticking", "done"}]
    BY <1>13 DEF StatsShutdown
  <2> QED BY <1>13, <2>1, <2>2, TaskEnds DEF StatsShutdown
<1>14. ASSUME NEW g \in Generations, ReaderReads(g) \/ Encoder(g)
       PROVE TypeOK'
  <2>1. CASE ReaderReads(g)
    BY <2>1 DEF ReaderReads
  <2>2. CASE EncoderTakes(g)
    BY <2>2 DEF EncoderTakes
  <2>3. CASE EncoderShutdown(g) \/ EncoderSendFails(g)
    BY <2>3 DEF EncoderShutdown, EncoderSendFails
  <2>4. CASE EncoderSends(g)
    <3>1. pkt' \in [Generations -> 0 .. PktCap]
      BY <2>4 DEF EncoderSends
    <3>2. encoder' \in [Generations -> {"none", "recv", "send", "done"}]
      BY <2>4 DEF EncoderSends
    <3> QED BY <2>4, <3>1, <3>2 DEF EncoderSends
  <2> QED BY <1>14, <2>1, <2>2, <2>3, <2>4 DEF Encoder
<1> QED BY <1>1, <1>2, <1>3, <1>4, <1>5, <1>6, <1>7, <1>8, <1>9, <1>10, <1>11, <1>12,
           <1>13, <1>14 DEF Next, Command, Wait

\* Only StartRecording moves on to another generation, a signal once raised stays
\* so, and only NextFrame counts frames.
LEMMA Steps ==
  ASSUME IInv, [Next]_vars
  PROVE  \/ StartRecording
         \/ /\ cur' = cur /\ framesAtStart' = framesAtStart
            /\ \A g \in Generations : signal[g] = "raised" => signal'[g] = "raised"
            /\ \/ captured' = captured /\ counted' = counted
               \/ \E g \in Generations : NextFrame(g)
<1> DEFINE Other ==
      /\ cur' = cur /\ framesAtStart' = framesAtStart
      /\ \A g \in Generations : signal[g] = "raised" => signal'[g] = "raised"
      /\ captured' = captured /\ counted' = counted
<1> USE DEF RaiseSignal, CancelTasks, commandVars, taskVars
<1>1. UNCHANGED vars => Other
  BY DEF vars
<1>2. StopRecording \/ PauseRecording \/ ResumeRecording \/ ShutdownCommand => Other
  BY DEF StopRecording, PauseRecording, ResumeRecording, ShutdownCommand
<1>3. BeginShutdown \/ ConnectionEnds => Other
  BY DEF BeginShutdown, ConnectionEnds
<1>4. Wait \/ Expire => Other
  BY DEF Wait, Expire, AllTasksDone, FindsTasks, Park, Wake, DropRuntime,
         RuntimeDropped
<1>5. ASSUME NEW g \in Generations, NextFrame(g)
      PROVE cur' = cur /\ framesAtStart' = framesAtStart /\ signal' = signal
  BY <1>5 DEF NextFrame
<1>6. ASSUME NEW g \in Generations,
             \/ PipelineOpens(g) \/ StreamEnds(g) \/ PipelineShutdown(g)
             \/ PipelineStops(g) \/ DeviceAnswers(g)
      PROVE Other
  BY <1>6 DEF PipelineOpens, StreamEnds, PipelineShutdown, PipelineStops, DeviceAnswers
<1>7. ASSUME NEW g \in Generations, Send(g) \/ Encoder(g)
      PROVE Other
  BY <1>7 DEF Send, PipelineSends, PipelineSendFails, Encoder, EncoderTakes,
              EncoderShutdown, EncoderSends, EncoderSendFails
<1>8. ASSUME NEW g \in Generations,
             ReaderReads(g) \/ ReaderShutdown(g) \/ StatsShutdown(g)
      PROVE Other
  BY <1>8 DEF ReaderReads, ReaderShutdown, StatsShutdown
<1> QED BY <1>1, <1>2, <1>3, <1>4, <1>5, <1>6, <1>7, <1>8 DEF Next, Command

\* Tasks are made by StartRecording and for the next generation only; a task
\* that was not made takes no step.
LEMMA KeepsFresh == IInv /\ [Next]_vars => Fresh'
<1> SUFFICES ASSUME IInv, [Next]_vars, NEW h \in Generations, h > cur'
             PROVE Untouched(h)'
  BY DEF Fresh
<1>0. cur \in Nat /\ h \in Nat /\ (h > cur => Untouched(h))
  BY DEF IInv, TypeOK, Fresh, Generations
<1>1. /\ pipe = [g \in Generations |-> pipe[g]]
      /\ encoder = [g \in Generations |-> encoder[g]]
      /\ reader = [g \in Generations |-> reader[g]]
      /\ stats = [g \in Generations |-> stats[g]]
      /\ active = [g \in Generations |-> active[g]]
      /\ counted = [g \in Generations |-> counted[g]]
  BY DEF IInv, TypeOK
<1> USE DEF Untouched, taskVars
<1>2. CASE StartRecording
  <2>1. h > cur /\ h # cur + 1
    BY <1>0, <1>2 DEF StartRecording
  <2> QED BY <1>0, <1>1, <1>2, <2>1 DEF StartRecording
<1>3. CASE ~StartRecording
  <2>1. Untouched(h)
    BY <1>0, <1>3, Steps
  <2> USE <1>1, <2>1
  <2>2. CASE UNCHANGED taskVars \/ UNCHANGED vars
    BY <2>2 DEF vars
  <2>3. CASE DropRuntime \/ ConnectionEnds
    BY <2>3 DEF DropRuntime, ConnectionEnds, CancelTasks
  <2>4. ASSUME NEW g \in Generations, PipelineOpens(g) \/ PipelineShutdown(g) \/ Send(g)
        PROVE Untouched(h)'
    <3>1. /\ g # h /\ UNCHANGED <<encoder, reader, stats, active, counted>>
          /\ \E s : pipe' = [pipe EXCEPT ![g] = s]
      BY <2>4 DEF PipelineOpens, PipelineShutdown, Send, PipelineSends, PipelineSendFails
    <3> QED BY <3>1
  <2>5. ASSUME NEW g \in Generations, NextFrame(g)
        PROVE Untouched(h)'
    BY <2>5 DEF NextFrame
  <2>6. ASSUME NEW g \in Generations, StreamEnds(g) \/ PipelineStops(g)
        PROVE Untouched(h)'
    BY <2>6 DEF StreamEnds, PipelineStops, TaskDone
  <2>7. ASSUME NEW g \in Generations, ReaderShutdown(g) \/ StatsShutdown(g)
        PROVE Untouched(h)'
    BY <2>7 DEF ReaderShutdown, StatsShutdown, TaskDone
  <2>8. ASSUME NEW g \in Generations, ReaderReads(g) \/ Encoder(g)
        PROVE Untouched(h)'
    BY <2>8 DEF ReaderReads, Encoder, EncoderTakes, EncoderShutdown, EncoderSends,
                EncoderSendFails
  <2>9. \/ StopRecording \/ PauseRecording \/ ResumeRecording \/ ShutdownCommand
        \/ BeginShutdown \/ AllTasksDone \/ FindsTasks \/ Park \/ Wake \/ Expire
        \/ RuntimeDropped \/ (\E g \in Generations : DeviceAnswers(g))
        => UNCHANGED taskVars
    BY DEF StopRecording, PauseRecording, ResumeRecording, ShutdownCommand,
           BeginShutdown, AllTasksDone, FindsTasks, Park, Wake, Expire,
           RuntimeDropped, DeviceAnswers
  <2> QED BY <1>3, <2>2, <2>3, <2>4, <2>5, <2>6, <2>7, <2>8, <2>9
          DEF Next, Command, Wait
<1> QED BY <1>2, <1>3

\* A replaced generation was current until StartRecording dropped its sender.
LEMMA KeepsReplaced == IInv /\ [Next]_vars => Replaced'
<1> SUFFICES ASSUME IInv, [Next]_vars PROVE Replaced'
  OBVIOUS
<1>0. TypeOK /\ Replaced
  BY DEF IInv
<1>1. CASE StartRecording
  BY <1>0, <1>1 DEF StartRecording, RaiseSignal, Replaced, TypeOK, Generations
<1>2. CASE ~StartRecording
  BY <1>0, <1>2, Steps DEF Replaced, TypeOK, Generations
<1> QED BY <1>1, <1>2

\* What a recording counts is captured after it has noted the count.
LEMMA KeepsCovers == IInv /\ [Next]_vars => Covers'
<1> SUFFICES ASSUME IInv, [Next]_vars PROVE Covers'
  OBVIOUS
<1>0. TypeOK /\ Fresh /\ Covers
  BY DEF IInv
<1> USE <1>0, DispatcherAssumption DEF DispatcherAssumption, TypeOK, Covers, Generations
<1>1. CASE StartRecording
  BY <1>1 DEF StartRecording, Fresh, Untouched, shutVars
<1>2. ASSUME NEW g \in Generations, NextFrame(g)
      PROVE Covers'
  <2>1. cur' = cur /\ framesAtStart' = framesAtStart
    BY <1>2 DEF NextFrame, commandVars
  <2>2. CASE UNCHANGED <<captured, counted>>
    BY <2>1, <2>2
  <2>3. CASE captured' = captured + 1 /\ counted' = [counted EXCEPT ![g] = @ + 1]
    <3> SUFFICES ASSUME cur # 0
                 PROVE captured + 1 >= framesAtStart + counted'[cur]
      BY <2>1, <2>3
    <3>1. cur \in 1 .. MaxStarts /\ counted[cur] \in Nat
      OBVIOUS
    <3>2. counted'[cur] = counted[cur] \/ counted'[cur] = counted[cur] + 1
      BY <2>3, <3>1
    <3> QED BY SMTT(30), <3>1, <3>2
  <2> QED BY <1>2, <2>2, <2>3 DEF NextFrame
<1>3. CASE ~StartRecording /\ ~(\E g \in Generations : NextFrame(g))
  BY <1>3, Steps
<1> QED BY <1>1, <1>2, <1>3

\* The counter goes down with each task that ends, and with no other step; the
\* cancelled tasks leave it, but nothing runs then.
LEMMA KeepsCounter == IInv /\ [Next]_vars => Counter'
<1> DEFINE Counts(h) == IF Ended THEN Busy(h) = 0 ELSE active[h] = Busy(h)
<1> SUFFICES ASSUME IInv, [Next]_vars, NEW h \in Generations
             PROVE Counts(h)'
  BY DEF Counter
<1>0. TypeOK /\ Fresh /\ Counts(h)
  BY DEF IInv, Counter
<1> USE DEF commandVars, taskVars, shutVars
<1>1. CASE UNCHANGED <<pipe, reader, stats, active, shut>>
  BY <1>0, <1>1 DEF Busy, Ended
<1>2. CASE UNCHANGED vars
  BY <1>1, <1>2 DEF vars
<1>3. CASE StartRecording
  <2>1. shut = "serving" /\ shut' = "serving"
    BY <1>3 DEF StartRecording
  <2>2. CASE h = cur + 1
    <3>1. /\ pipe'[h] = "opening" /\ reader'[h] = "reading" /\ stats'[h] = "ticking"
          /\ active'[h] = 3
      BY <1>0, <1>3, <2>2 DEF StartRecording, TypeOK
    <3> QED BY <2>1, <3>1 DEF Ended, Busy, One
  <2>3. CASE h # cur + 1
    <3>1. /\ pipe'[h] = pipe[h] /\ reader'[h] = reader[h] /\ stats'[h] = stats[h]
          /\ active'[h] = active[h]
      BY <1>0, <1>3, <2>3 DEF StartRecording, TypeOK
    <3> QED BY <1>0, <2>1, <3>1 DEF Ended, Busy
  <2> QED BY <2>2, <2>3
<1>4. CASE \/ StopRecording \/ PauseRecording \/ ResumeRecording \/ ShutdownCommand
  BY <1>1, <1>4 DEF StopRecording, PauseRecording, ResumeRecording, ShutdownCommand
<1>5. CASE BeginShutdown \/ AllTasksDone \/ FindsTasks \/ Park \/ Wake \/ Expire
  <2>1. ~Ended /\ ~Ended' /\ UNCHANGED <<pipe, reader, stats, active>>
    BY <1>5 DEF BeginShutdown, AllTasksDone, FindsTasks, Park, Wake, Expire, Ended
  <2> QED BY <1>0, <2>1 DEF Busy
<1>6. CASE DropRuntime \/ ConnectionEnds
  <2>1. Ended' /\ CancelTasks
    BY <1>6 DEF DropRuntime, ConnectionEnds, AfterDrop, Ended
  <2>2. pipe'[h] \in {"none", "done"} /\ reader'[h] # "reading" /\ stats'[h] # "ticking"
    BY <2>1 DEF CancelTasks
  <2> QED BY <2>1, <2>2 DEF Busy, One
<1>7. ASSUME NEW g \in Generations,
             \/ PipelineOpens(g) \/ PipelineShutdown(g) \/ Send(g) \/ NextFrame(g)
      PROVE Counts(h)'
  <2>1. /\ pipe[g] \notin {"none", "done"}
        /\ \E s \in {"reading", "sending", "stopping"} : pipe' = [pipe EXCEPT ![g] = s]
        /\ UNCHANGED <<reader, stats, active, shut>>
    BY <1>7 DEF PipelineOpens, PipelineShutdown, Send, PipelineSends, PipelineSendFails,
                NextFrame
  <2>2. pipe'[h] \in {"none", "done"} <=> pipe[h] \in {"none", "done"}
    BY <1>0, <2>1 DEF TypeOK
  <2> QED BY <1>0, <2>1, <2>2 DEF Ended, Busy
<1>8. ASSUME NEW g \in Generations,
             StreamEnds(g) \/ PipelineStops(g) \/ ReaderShutdown(g) \/ StatsShutdown(g)
      PROVE Counts(h)'
  <2>1. /\ ~Ended /\ active[g] \in 1 .. 3 /\ TaskDone(g) /\ UNCHANGED shut
    BY <1>8, Counted DEF StreamEnds, PipelineStops, ReaderShutdown, StatsShutdown
  <2>2. active' = [active EXCEPT ![g] = @ - 1]
    BY <2>1, TaskEnds
  <2>3. CASE h # g
    <3>1. /\ pipe'[h] = pipe[h] /\ reader'[h] = reader[h] /\ stats'[h] = stats[h]
          /\ active'[h] = active[h]
      BY <1>0, <1>8, <2>2, <2>3
         DEF TypeOK, StreamEnds, PipelineStops, ReaderShutdown, StatsShutdown
    <3> QED BY <1>0, <2>1, <3>1 DEF Ended, Busy
  <2>4. CASE h = g
    <3>1. active'[h] = active[h] - 1 /\ active[h] = Busy(h)
      BY <1>0, <2>1, <2>2, <2>4 DEF TypeOK
    <3>2. CASE StreamEnds(g) \/ PipelineStops(g)
      <4>1. /\ pipe[h] \notin {"none", "done"} /\ pipe'[h] = "done"
            /\ UNCHANGED <<reader, stats>>
        BY <1>0, <2>4, <3>2 DEF TypeOK, StreamEnds, PipelineStops
      <4> QED BY <2>1, <3>1, <4>1 DEF Ended, Busy, One
    <3>3. CASE ReaderShutdown(g)
      <4>1. reader[h] = "reading" /\ reader'[h] = "done" /\ UNCHANGED <<pipe, stats>>
        BY <1>0, <2>4, <3>3 DEF TypeOK, ReaderShutdown
      <4> QED BY <2>1, <3>1, <4>1 DEF Ended, Busy, One
    <3>4. CASE StatsShutdown(g)
      <4>1. stats[h] = "ticking" /\ stats'[h] = "done" /\ UNCHANGED <<pipe, reader>>
        BY <1>0, <2>4, <3>4 DEF TypeOK, StatsShutdown
      <4> QED BY <2>1, <3>1, <4>1 DEF Ended, Busy, One
    <3> QED BY <1>8, <3>2, <3>3, <3>4
  <2> QED BY <2>3, <2>4
<1>9. ASSUME NEW g \in Generations, ReaderReads(g) \/ Encoder(g)
      PROVE Counts(h)'
  BY <1>1, <1>9 DEF ReaderReads, Encoder, EncoderTakes, EncoderShutdown, EncoderSends,
                    EncoderSendFails
<1>10. CASE RuntimeDropped \/ \E g \in Generations : DeviceAnswers(g)
  <2>1. UNCHANGED <<pipe, reader, stats, active>> /\ Ended' = Ended
    BY <1>10 DEF RuntimeDropped, DeviceAnswers, Ended
  <2> QED BY <1>0, <2>1 DEF Busy
<1> QED BY <1>2, <1>3, <1>4, <1>5, <1>6, <1>7, <1>8, <1>9, <1>10 DEF Next, Command, Wait

\* The connection takes a verdict only over a generation, and the command loop
\* is left for good.  A verdict of true is that no task runs: none begins later.
LEMMA KeepsVerdict == IInv /\ [Next]_vars => Verdict' /\ CompletedMeansDone'
<1> SUFFICES ASSUME IInv, [Next]_vars PROVE Verdict' /\ CompletedMeansDone'
  OBVIOUS
<1>0. TypeOK /\ Counter /\ Verdict /\ CompletedMeansDone
  BY DEF IInv
<1> USE DEF commandVars, taskVars, shutVars
<1>1. CASE shut = "serving" /\ shut' = "serving" /\ verdict' = verdict
  BY <1>0, <1>1 DEF Verdict, CompletedMeansDone, Ended
<1>2. CASE StartRecording \/ StopRecording \/ PauseRecording \/ ResumeRecording
             \/ ShutdownCommand
  BY <1>1, <1>2 DEF StartRecording, StopRecording, PauseRecording, ResumeRecording,
                    ShutdownCommand
<1>3. CASE BeginShutdown
  BY <1>0, <1>3 DEF BeginShutdown, Verdict, CompletedMeansDone, Ended
<1>4. CASE AllTasksDone
  <2>1. /\ cur' = cur /\ cur \in Generations /\ shut' = "dropping"
        /\ UNCHANGED <<pipe, reader, stats>>
    BY <1>0, <1>4 DEF AllTasksDone, Verdict, TypeOK, Generations
  <2>2. Tasks(cur) = {}
    BY <1>0, <1>4, <2>1, NoTasks DEF AllTasksDone, Counter, Ended
  <2>3. Tasks(cur)' = {}
    BY <2>1, <2>2 DEF Tasks
  <2> QED BY <2>1, <2>3 DEF Verdict, CompletedMeansDone, Ended
<1>5. CASE FindsTasks \/ Park \/ Wake
  BY <1>0, <1>5 DEF FindsTasks, Park, Wake, Verdict, CompletedMeansDone, Ended
<1>6. CASE Expire
  BY <1>0, <1>6 DEF Expire, Verdict, CompletedMeansDone, Ended
<1>7. CASE DropRuntime \/ ConnectionEnds
  <2>1. /\ cur' = cur /\ shut' \in {"waiting", "over", "panicked"}
        /\ CancelTasks /\ verdict' = verdict
    BY <1>7 DEF DropRuntime, ConnectionEnds, AfterDrop
  <2>2. cur # 0 => Tasks(cur)' = {}
    BY <1>0, <2>1 DEF CancelTasks, Tasks, TypeOK, Generations
  <2> QED BY <2>1, <2>2 DEF Verdict, CompletedMeansDone, Ended
<1>8. CASE /\ cur' = cur /\ shut' = shut /\ verdict' = verdict
           /\ cur # 0 => (Tasks(cur) = {} => Tasks(cur)' = {})
  BY <1>0, <1>8 DEF Verdict, CompletedMeansDone, Ended
<1>9. CASE UNCHANGED vars
  BY <1>8, <1>9 DEF vars, Tasks
<1>10. ASSUME NEW g \in Generations,
              \/ PipelineOpens(g) \/ NextFrame(g) \/ PipelineShutdown(g) \/ Send(g)
              \/ StreamEnds(g) \/ PipelineStops(g)
       PROVE Verdict' /\ CompletedMeansDone'
  <2>1. /\ cur' = cur /\ shut' = shut /\ verdict' = verdict
        /\ UNCHANGED <<reader, stats>>
        /\ pipe[g] \notin {"none", "done"}
        /\ \E s : pipe' = [pipe EXCEPT ![g] = s]
    BY <1>10 DEF PipelineOpens, NextFrame, PipelineShutdown, Send, PipelineSends,
                 PipelineSendFails, StreamEnds, PipelineStops
  <2>2. ASSUME cur # 0, Tasks(cur) = {}
        PROVE  Tasks(cur)' = {}
    <3>1. cur # g
      BY <2>1, <2>2 DEF Tasks
    <3>2. pipe'[cur] = pipe[cur]
      BY <1>0, <2>1, <2>2, <3>1 DEF TypeOK, Generations
    <3> QED BY <2>1, <2>2, <3>2 DEF Tasks
  <2> QED BY <1>8, <2>1, <2>2
<1>11. ASSUME NEW g \in Generations, ReaderShutdown(g) \/ StatsShutdown(g)
       PROVE Verdict' /\ CompletedMeansDone'
  <2>1. /\ cur' = cur /\ shut' = shut /\ verdict' = verdict /\ pipe' = pipe
        /\ reader' \in {reader, [reader EXCEPT ![g] = "done"]}
        /\ stats' \in {stats, [stats EXCEPT ![g] = "done"]}
    BY <1>11 DEF ReaderShutdown, StatsShutdown
  <2>2. ASSUME cur # 0, Tasks(cur) = {}
        PROVE  Tasks(cur)' = {}
    <3>1. pipe[cur] \in {"none", "done"} /\ reader[cur] # "reading" /\ stats[cur] # "ticking"
      BY <2>2 DEF Tasks
    <3>2. cur \in Generations
      BY <1>0, <2>2 DEF TypeOK, Generations
    <3>3. reader'[cur] # "reading"
      BY <1>0, <2>1, <3>1, <3>2 DEF TypeOK
    <3>4. stats'[cur] # "ticking"
      BY <1>0, <2>1, <3>1, <3>2 DEF TypeOK
    <3> QED BY <2>1, <3>1, <3>3, <3>4 DEF Tasks
  <2> QED BY <1>8, <2>1, <2>2
<1>12. ASSUME NEW g \in Generations, ReaderReads(g) \/ Encoder(g)
       PROVE Verdict' /\ CompletedMeansDone'
  BY <1>8, <1>12 DEF ReaderReads, Encoder, EncoderTakes, EncoderShutdown, EncoderSends,
                     EncoderSendFails, Tasks
<1>13. ASSUME NEW g \in Generations, DeviceAnswers(g)
       PROVE Verdict' /\ CompletedMeansDone'
  BY <1>8, <1>13 DEF DeviceAnswers, Tasks
<1>14. CASE RuntimeDropped
  <2>1. /\ cur' = cur /\ verdict' = verdict /\ shut' = "over"
        /\ UNCHANGED <<pipe, reader, stats>>
    BY <1>14 DEF RuntimeDropped
  <2> QED BY <1>0, <2>1 DEF Verdict, CompletedMeansDone, Tasks, Ended
<1> QED BY <1>2, <1>3, <1>4, <1>5, <1>6, <1>7, <1>9, <1>10, <1>11, <1>12, <1>13, <1>14
        DEF Next, Command, Wait

\* The invariant holds in every reachable state.
THEOREM DispatcherInvariance == Spec => []IInv
<1>1. IInv /\ [Next]_vars => IInv'
  BY KeepsTypes, KeepsFresh, KeepsCounter, KeepsVerdict, KeepsReplaced, KeepsCovers
     DEF IInv
<1> QED BY Start, <1>1, PTL DEF Spec

\* Every queue keeps to its channel's capacity and the counter never wraps below
\* zero (dispatcher.rs: fetch_sub at the end of each task).
THEOREM DispatcherTypes == Spec => []TypeOK
<1>1. IInv => TypeOK
  BY DEF IInv
<1> QED BY DispatcherInvariance, <1>1, PTL

\* Whatever number of recordings was started over one another, tasks whose
\* handles the dispatcher no longer has were told to end (spawn_background_tasks
\* replaces shutdown_tx).
THEOREM NoTaskIsOrphaned == Spec => []NoOrphan
<1>1. IInv => NoOrphan
  <2> SUFFICES ASSUME IInv, NEW g \in Generations, Running(g), g # cur
               PROVE signal[g] = "raised"
    BY DEF NoOrphan
  <2>1. ~(g > cur)
    BY DEF IInv, Fresh, Untouched, Running, Tasks
  <2> QED BY <2>1 DEF IInv, TypeOK, Replaced, Generations
<1> QED BY DispatcherInvariance, <1>1, PTL

\* A shutdown that answers true left no counted task of its generation running
\* (shutdown_with_timeout, shutdown_blocking_with_timeout).
THEOREM CompletionIsReal == Spec => []CompletedMeansDone
<1>1. IInv => CompletedMeansDone
  BY DEF IInv
<1> QED BY DispatcherInvariance, <1>1, PTL

\* The reported total covers the recording however many overlap it (the total of
\* StopRecording is a difference of one shared count).
THEOREM TotalsCover == Spec => []TotalCoversRecording
<1>1. IInv => TotalCoversRecording
  BY DEF IInv, TypeOK, Covers, TotalCoversRecording, TotalFrames, Generations
<1> QED BY DispatcherInvariance, <1>1, PTL
=============================================================================
