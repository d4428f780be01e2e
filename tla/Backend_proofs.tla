--------------------------- MODULE Backend_proofs ---------------------------
(***************************************************************************)
(* Proofs about Backend for any number of opens, frames and abandoned      *)
(* calls, any capacity, any devices and formats: what next_frame returns   *)
(* of a device is in order, and only abandoned calls take frames away; and *)
(* the rate that is negotiated is near the rate asked for.                 *)
(***************************************************************************)
EXTENDS Backend, FiniteSetTheorems, WellFoundedInduction, TLAPS

\* The types of what the frames pass through.  (The formats are those of
\* Negotiation, and play no part here.)
Types ==
  /\ thread \in [Opens -> {"none", "check", "capture", "send", "wait", "done"}]
  /\ captured \in [Opens -> Nat]
  /\ frames \in [Opens -> Seq(Nat)] /\ seen \in [Opens -> Seq(Nat)]
  /\ orphans \in [Opens -> Nat] /\ cancelled \in [Opens -> Nat]
  /\ opens \in 0 .. MaxOpens /\ rx \in 0 .. opens
  /\ caller = "receiving" => rx # 0

\* An open that is still to come has a channel that nobody has used.
Unused ==
  \A g \in Opens : g > opens =>
    /\ thread[g] = "none" /\ captured[g] = 0 /\ frames[g] = <<>> /\ seen[g] = <<>>
    /\ orphans[g] = 0 /\ cancelled[g] = 0

\* The frames that were put into the channel of an open.
Sent(g) == IF thread[g] = "send" THEN captured[g] - 1 ELSE captured[g]

\* Of n frames that were sent, those in channel f are the last; the others were
\* returned, in s, or taken by k calls at most that were abandoned and came to
\* their end.
InLine(n, f, s, k) ==
  /\ n - Len(f) \in Nat
  /\ \A i \in 1 .. Len(f) : f[i] = n - Len(f) + i
  /\ \A i \in 1 .. Len(s) : s[i] <= n - Len(f)
  /\ n - Len(f) <= Len(s) + k

\* What was returned is in order, and misses c frames at most.
InOrder(s, c) ==
  /\ \A i, j \in 1 .. Len(s) : i < j => s[i] < s[j]
  /\ s # <<>> => s[Len(s)] <= Len(s) + c

Channel(g) ==
  /\ rx = g => InLine(Sent(g), frames[g], seen[g], cancelled[g] - orphans[g])
  /\ orphans[g] <= cancelled[g]
  /\ InOrder(seen[g], cancelled[g])

IInv == Types /\ Unused /\ \A g \in Opens : Channel(g)
-----------------------------------------------------------------------------
(* What the operations of a channel do to its frames.                      *)

\* A frame is sent.
LEMMA Put ==
  ASSUME NEW n \in Int, NEW f \in Seq(Nat), NEW s \in Seq(Nat), NEW k \in Int,
         NEW m \in Nat, m = n + 1, InLine(n, f, s, k)
  PROVE  InLine(m, Append(f, m), s, k)
<1> DEFINE ff == Append(f, m)
<1>1. /\ Len(f) \in Nat /\ Len(ff) = Len(f) + 1 /\ ff[Len(f) + 1] = m
      /\ \A i \in 1 .. Len(f) : ff[i] = f[i]
  OBVIOUS
<1> HIDE DEF ff
<1>2. m - Len(ff) = n - Len(f) /\ n - Len(f) \in Nat
  BY <1>1 DEF InLine
<1>3. ASSUME NEW i \in 1 .. Len(ff) PROVE ff[i] = m - Len(ff) + i
  <2>1. CASE i = Len(f) + 1
    BY <1>1, <1>2, <2>1
  <2>2. CASE i \in 1 .. Len(f)
    BY <1>1, <1>2, <2>2 DEF InLine
  <2> QED BY <1>1, <2>1, <2>2
<1>4. InLine(m, ff, s, k)
  BY <1>2, <1>3 DEF InLine
<1> QED BY <1>4 DEF ff

\* The first frame of a channel.
LEMMA First ==
  ASSUME NEW f \in Seq(Nat), f # <<>>
  PROVE  /\ Head(f) = f[1] /\ Head(f) \in Nat /\ Len(f) \in Nat \ {0}
         /\ Tail(f) \in Seq(Nat) /\ Len(Tail(f)) = Len(f) - 1
         /\ \A i \in 1 .. Len(f) - 1 : Tail(f)[i] = f[i + 1]
OBVIOUS

\* A sequence with one more frame.
LEMMA Appended ==
  ASSUME NEW s \in Seq(Nat), NEW h \in Nat
  PROVE  /\ Len(s) \in Nat /\ Len(Append(s, h)) = Len(s) + 1 /\ Append(s, h) # <<>>
         /\ Append(s, h)[Len(s) + 1] = h
         /\ \A i \in 1 .. Len(s) : Append(s, h)[i] = s[i] /\ s[i] \in Nat
OBVIOUS

\* An abandoned call takes the first frame.
LEMMA Lose ==
  ASSUME NEW n \in Int, NEW f \in Seq(Nat), NEW s \in Seq(Nat), NEW k \in Int,
         f # <<>>, InLine(n, f, s, k)
  PROVE  InLine(n, Tail(f), s, k + 1)
<1> DEFINE t == Tail(f)
<1>1. /\ Len(f) \in Nat \ {0} /\ Len(t) = Len(f) - 1
      /\ \A i \in 1 .. Len(f) - 1 : t[i] = f[i + 1]
  BY First
<1> HIDE DEF t
<1>2. n - Len(t) = n - Len(f) + 1 /\ n - Len(f) \in Nat /\ Len(s) \in Nat
  BY <1>1 DEF InLine
<1>3. ASSUME NEW i \in 1 .. Len(t) PROVE t[i] = n - Len(t) + i
  <2>1. i \in 1 .. Len(f) - 1 /\ i + 1 \in 1 .. Len(f)
    BY <1>1
  <2>2. t[i] = f[i + 1] /\ f[i + 1] = n - Len(f) + (i + 1)
    BY <1>1, <2>1 DEF InLine
  <2> QED BY <1>1, <1>2, <2>2
<1>4. ASSUME NEW i \in 1 .. Len(s) PROVE s[i] <= n - Len(t)
  <2>1. s[i] <= n - Len(f) /\ s[i] \in Nat
    BY DEF InLine
  <2> QED BY <1>2, <2>1
<1>5. n - Len(t) <= Len(s) + (k + 1)
  BY <1>2 DEF InLine
<1>6. InLine(n, t, s, k + 1)
  BY <1>2, <1>3, <1>4, <1>5 DEF InLine
<1> QED BY <1>6 DEF t

\* The first frame is returned.
LEMMA Take ==
  ASSUME NEW n \in Int, NEW f \in Seq(Nat), NEW s \in Seq(Nat), NEW k \in Int,
         NEW c \in Nat, f # <<>>, k <= c, InLine(n, f, s, k), InOrder(s, c)
  PROVE  /\ InLine(n, Tail(f), Append(s, Head(f)), k)
         /\ InOrder(Append(s, Head(f)), c)
<1> DEFINE h == Head(f)
           a == Append(s, h)
<1>1. h = f[1] /\ h \in Nat /\ Len(f) \in Nat \ {0} /\ Len(Tail(f)) = Len(f) - 1
  BY First
<1>2. /\ Len(s) \in Nat /\ Len(a) = Len(s) + 1 /\ a[Len(s) + 1] = h /\ a # <<>>
      /\ \A i \in 1 .. Len(s) : a[i] = s[i] /\ s[i] \in Nat
  BY <1>1, Appended
<1>3. Len(s) \in Nat /\ Len(a) = Len(s) + 1
  BY <1>2
<1> HIDE DEF h, a
<1>4. h = n - Len(f) + 1 /\ n - Len(f) \in Nat
  BY <1>1 DEF InLine
<1>5. \A i \in 1 .. Len(s) : s[i] < h
  BY SMTT(30), <1>2, <1>4 DEF InLine
<1>6. InLine(n, Tail(f), a, k)
  <2>1. InLine(n, Tail(f), s, k + 1)
    BY Lose
  <2>2. n - Len(Tail(f)) = h
    BY <1>1, <1>4
  <2>3. ASSUME NEW i \in 1 .. Len(a) PROVE a[i] <= n - Len(Tail(f))
    <3>1. CASE i = Len(s) + 1
      BY <1>1, <1>2, <2>2, <3>1
    <3>2. CASE i \in 1 .. Len(s)
      BY <1>1, <1>2, <1>5, <2>2, <3>2
    <3> QED BY <1>3, <3>1, <3>2
  <2>4. n - Len(Tail(f)) <= Len(a) + k
    BY <1>2, <2>1 DEF InLine
  <2> QED BY <2>1, <2>3, <2>4 DEF InLine
<1>7. ASSUME NEW i \in 1 .. Len(a), NEW j \in 1 .. Len(a), i < j
      PROVE  a[i] < a[j]
  <2>1. i \in 1 .. Len(s) /\ (j \in 1 .. Len(s) \/ j = Len(s) + 1)
    BY SMTT(30), <1>7, <1>3
  <2>2. CASE j \in 1 .. Len(s)
    BY <1>2, <1>7, <2>1, <2>2 DEF InOrder
  <2>3. CASE j = Len(s) + 1
    BY <1>2, <1>5, <2>1, <2>3
  <2> QED BY <2>1, <2>2, <2>3
<1>8. a[Len(a)] <= Len(a) + c
  <2>1. h <= Len(s) + 1 + k
    BY <1>2, <1>4 DEF InLine
  <2> QED BY <1>1, <1>2, <2>1
<1>9. InOrder(a, c)
  BY <1>7, <1>8 DEF InOrder
<1> QED BY <1>6, <1>9 DEF a, h

\* An abandoned call finds the channel empty and its sender gone.
LEMMA LoseNothing ==
  ASSUME NEW n \in Int, NEW s \in Seq(Nat), NEW k \in Int, InLine(n, <<>>, s, k)
  PROVE  InLine(n, <<>>, s, k + 1)
BY DEF InLine
-----------------------------------------------------------------------------
\* Every initial state satisfies the invariant.
LEMMA Initially == Init => IInv
<1> SUFFICES ASSUME Init PROVE IInv
  OBVIOUS
<1> USE DEF Init
<1>1. MaxOpens \in Nat
  BY BackendAssumption DEF BackendAssumption
<1>2. Types
  BY <1>1 DEF Types
<1>3. Unused
  BY DEF Unused
<1>4. \A g \in Opens : Channel(g)
  BY DEF Channel, InOrder, Opens
<1> QED BY <1>2, <1>3, <1>4 DEF IInv

\* What the invariant says of one open.
LEMMA Known ==
  ASSUME IInv, NEW g \in Opens
  PROVE  /\ g \in Nat \ {0} /\ rx \in Nat
         /\ captured[g] \in Nat /\ Sent(g) \in Int
         /\ frames[g] \in Seq(Nat) /\ seen[g] \in Seq(Nat)
         /\ orphans[g] \in Nat /\ cancelled[g] \in Nat
         /\ cancelled[g] - orphans[g] \in Int /\ cancelled[g] - orphans[g] <= cancelled[g]
         /\ Channel(g)
         /\ g > opens => orphans[g] = 0 /\ thread[g] = "none" /\ rx # g
<1>1. /\ captured[g] \in Nat /\ frames[g] \in Seq(Nat) /\ seen[g] \in Seq(Nat)
      /\ orphans[g] \in Nat /\ cancelled[g] \in Nat /\ Channel(g)
      /\ g \in Nat \ {0} /\ rx \in Nat /\ rx <= opens /\ opens \in Nat
      /\ g > opens => orphans[g] = 0 /\ thread[g] = "none"
  BY BackendAssumption DEF BackendAssumption, IInv, Types, Unused, Opens
<1>2. Sent(g) \in Int
  BY <1>1 DEF Sent
<1> QED BY <1>1, <1>2

\* A step of the thread of open g that leaves the channels alone.
LEMMA ThreadSteps ==
  ASSUME IInv, NEW g \in Opens, NEW to \in {"check", "capture", "send", "wait", "done"},
         thread[g] # "none", thread' = [thread EXCEPT ![g] = to],
         UNCHANGED <<frames, orphans, cancelled, seen, rx, opens, caller>>,
         captured' = captured \/ captured' = [captured EXCEPT ![g] = @ + 1],
         rx = g => Sent(g)' = Sent(g)
  PROVE  IInv'
<1>1. Types'
  <2>1. captured' \in [Opens -> Nat]
    BY SMTT(30) DEF IInv, Types
  <2> QED BY <2>1 DEF IInv, Types
<1>2. g <= opens /\ opens \in Nat
  BY SMTT(30), Known, BackendAssumption DEF IInv, Types, BackendAssumption, Opens
<1>3. Unused'
  <2> SUFFICES ASSUME NEW x \in Opens, x > opens' PROVE
        /\ thread'[x] = "none" /\ captured'[x] = 0 /\ frames'[x] = <<>> /\ seen'[x] = <<>>
        /\ orphans'[x] = 0 /\ cancelled'[x] = 0
    BY DEF Unused
  <2>1. x # g /\ x > opens
    BY <1>2, Known
  <2>2. thread'[x] = thread[x] /\ captured'[x] = captured[x]
    BY <2>1 DEF IInv, Types
  <2> QED BY <2>1, <2>2 DEF IInv, Unused
<1>4. ASSUME NEW x \in Opens PROVE Channel(x)'
  <2>1. Channel(x)
    BY DEF IInv
  <2>2. rx = x => Sent(x)' = Sent(x)
    <3>1. CASE x = g
      BY <3>1
    <3>2. CASE x # g
      BY <3>2 DEF Sent, IInv, Types
    <3> QED BY <3>1, <3>2
  <2> QED BY <2>1, <2>2 DEF Channel
<1> QED BY <1>1, <1>3, <1>4 DEF IInv

\* An open begins an unused channel, and the receiver of the one before is
\* dropped.
LEMMA OpenKeeps ==
  ASSUME IInv, NEW f \in Requests, OpenMonitor(f) \/ OpenLoopback(f) \/ OpenInput(f)
  PROVE  IInv'
<1>1. opens < MaxOpens /\ caller # "receiving" /\ caller' = caller
      /\ UNCHANGED <<captured, orphans, cancelled, seen>>
  BY DEF OpenMonitor, OpenLoopback, OpenInput, readVars
<1>2. PICK source \in Sources, first \in {"check", "capture", "wait"} :
        Spawn(opens + 1, source, first)
  BY DEF OpenMonitor, OpenLoopback, OpenInput, Sources, System
<1>3. opens \in Nat /\ opens + 1 \in Opens /\ MaxOpens \in Nat
  BY <1>1, BackendAssumption DEF BackendAssumption, IInv, Types, Opens
<1>4. PICK g \in Opens : g = opens + 1
  BY <1>3
<1>5. /\ opens' = g /\ rx' = g /\ thread' = [thread EXCEPT ![g] = first]
      /\ frames' = [x \in Opens |-> IF x = rx /\ orphans[x] = 0 THEN <<>> ELSE frames[x]]
  BY <1>2, <1>4 DEF Spawn
<1>6. Types'
  <2>1. frames' \in [Opens -> Seq(Nat)]
    BY <1>5, Known
  <2>2. thread' \in [Opens -> {"none", "check", "capture", "send", "wait", "done"}]
    BY <1>5 DEF IInv, Types
  <2>3. opens' \in 0 .. MaxOpens /\ rx' \in 0 .. opens'
    BY <1>1, <1>3, <1>4, <1>5
  <2> QED BY <1>1, <2>1, <2>2, <2>3 DEF IInv, Types
<1>7. ASSUME NEW x \in Opens, x > opens
      PROVE  /\ captured'[x] = 0 /\ frames'[x] = <<>> /\ seen'[x] = <<>>
             /\ orphans'[x] = 0 /\ cancelled'[x] = 0
  BY <1>1, <1>5, <1>7 DEF IInv, Unused
<1>8. Unused'
  <2> SUFFICES ASSUME NEW x \in Opens, x > opens' PROVE
        /\ thread'[x] = "none" /\ captured'[x] = 0 /\ frames'[x] = <<>> /\ seen'[x] = <<>>
        /\ orphans'[x] = 0 /\ cancelled'[x] = 0
    BY DEF Unused
  <2>1. x > opens /\ x # g
    BY <1>3, <1>4, <1>5, Known
  <2>2. thread'[x] = "none"
    BY <1>5, <2>1 DEF IInv, Types, Unused
  <2> QED BY <1>7, <2>1, <2>2
<1>9. ASSUME NEW x \in Opens PROVE Channel(x)'
  <2>1. orphans'[x] <= cancelled'[x] /\ InOrder(seen'[x], cancelled'[x])
    BY <1>1, Known DEF Channel
  <2>2. CASE x # g
    BY <1>5, <2>1, <2>2 DEF Channel
  <2>3. CASE x = g
    <3>1. /\ captured'[x] = 0 /\ frames'[x] = <<>> /\ seen'[x] = <<>>
          /\ orphans'[x] = 0 /\ cancelled'[x] = 0
      BY <1>3, <1>4, <1>7, <2>3
    <3>2. thread'[x] # "send"
      BY <1>5, <2>3 DEF IInv, Types
    <3>3. InLine(0, <<>>, <<>>, 0 - 0)
      BY DEF InLine
    <3>4. Sent(x)' = 0
      BY <3>1, <3>2 DEF Sent
    <3>5. InLine(Sent(x)', frames'[x], seen'[x], cancelled'[x] - orphans'[x])
      BY <3>1, <3>3, <3>4
    <3> QED BY <2>1, <3>5 DEF Channel
  <2> QED BY <2>2, <2>3
<1> QED BY <1>6, <1>8, <1>9 DEF IInv

\* A call is abandoned.
LEMMA CancelKeeps ==
  ASSUME IInv, Cancel
  PROVE  IInv'
<1>1. PICK g \in Opens : g = rx
  BY BackendAssumption DEF BackendAssumption, Cancel, IInv, Types, Opens
<1>2. /\ orphans' = [orphans EXCEPT ![g] = @ + 1] /\ caller' = "idle"
      /\ cancelled' = [cancelled EXCEPT ![g] = @ + 1]
      /\ UNCHANGED <<thread, captured, frames, seen, rx, opens>>
  BY <1>1 DEF Cancel, threadVars, openVars
<1>3. Types'
  BY <1>2 DEF IInv, Types
<1>4. Unused'
  <2>1. ASSUME NEW x \in Opens, x > opens PROVE x # g
    BY <1>1, <2>1, Known
  <2>2. ASSUME NEW x \in Opens, x > opens PROVE orphans'[x] = 0 /\ cancelled'[x] = 0
    BY <1>2, <2>1, <2>2 DEF IInv, Types, Unused
  <2> QED BY <1>2, <2>2 DEF IInv, Unused
<1>5. ASSUME NEW x \in Opens PROVE Channel(x)'
  <2>1. /\ orphans[x] \in Nat /\ cancelled[x] \in Nat /\ seen[x] \in Seq(Nat) /\ Channel(x)
    BY Known
  <2>2. CASE x # g
    <3>1. orphans'[x] = orphans[x] /\ cancelled'[x] = cancelled[x]
      BY <1>2, <2>2 DEF IInv, Types
    <3> QED BY <1>2, <2>1, <3>1 DEF Channel, Sent
  <2>3. CASE x = g
    <3>1. orphans'[x] = orphans[x] + 1 /\ cancelled'[x] = cancelled[x] + 1
      BY <1>2, <2>3 DEF IInv, Types
    <3>2. cancelled'[x] - orphans'[x] = cancelled[x] - orphans[x]
      <4>1. \A o, c \in Nat : (c + 1) - (o + 1) = c - o
        OBVIOUS
      <4> QED BY <2>1, <3>1, <4>1
    <3>3. Sent(x)' = Sent(x)
      BY <1>2 DEF Sent
    <3>4. orphans'[x] <= cancelled'[x]
      BY <2>1, <3>1 DEF Channel
    <3>5. InOrder(seen[x], cancelled[x] + 1)
      <4>1. seen[x] # <<>> => seen[x][Len(seen[x])] \in Nat /\ Len(seen[x]) \in Nat
        BY <2>1
      <4> QED BY <2>1, <4>1 DEF Channel, InOrder
    <3> QED BY <1>2, <2>1, <3>1, <3>2, <3>3, <3>4, <3>5 DEF Channel
  <2> QED BY <2>2, <2>3
<1> QED BY <1>3, <1>4, <1>5 DEF IInv

\* The pipeline is dropped.
LEMMA DropKeeps ==
  ASSUME IInv, Drop
  PROVE  IInv'
<1>1. /\ rx' = 0 /\ caller' = "dropped"
      /\ UNCHANGED <<thread, captured, orphans, cancelled, seen, opens>>
      /\ frames' = [g \in Opens |-> IF g = rx /\ orphans[g] = 0 THEN <<>> ELSE frames[g]]
  BY DEF Drop, readVars
<1>2. Types'
  <2>1. frames' \in [Opens -> Seq(Nat)]
    BY <1>1, Known
  <2>2. 0 \in 0 .. opens
    BY BackendAssumption DEF IInv, Types, BackendAssumption
  <2> QED BY <1>1, <2>1, <2>2 DEF IInv, Types
<1>3. Unused'
  BY <1>1 DEF IInv, Unused
<1>4. ASSUME NEW x \in Opens PROVE Channel(x)'
  BY <1>1, Known DEF Channel
<1> QED BY <1>2, <1>3, <1>4 DEF IInv

\* next_frame returns the first frame of the channel.
LEMMA ReturnFrameKeeps ==
  ASSUME IInv, ReturnFrame
  PROVE  IInv'
<1>1. PICK g \in Opens : g = rx
  BY BackendAssumption DEF BackendAssumption, ReturnFrame, IInv, Types, Opens
<1>2. /\ frames[g] # <<>> /\ caller' = "idle"
      /\ frames' = [frames EXCEPT ![g] = Tail(frames[g])]
      /\ seen' = [seen EXCEPT ![g] = Append(seen[g], Head(frames[g]))]
      /\ UNCHANGED <<thread, captured, orphans, cancelled, rx, opens>>
  BY <1>1 DEF ReturnFrame, openVars
<1>3. Tail(frames[g]) \in Seq(Nat) /\ Head(frames[g]) \in Nat
  BY <1>2, First, Known
<1>4. Append(seen[g], Head(frames[g])) \in Seq(Nat)
  BY <1>3, Known
<1>5. Types'
  <2>1. frames' \in [Opens -> Seq(Nat)] /\ seen' \in [Opens -> Seq(Nat)]
    BY <1>2, <1>3, <1>4 DEF IInv, Types
  <2> QED BY <1>2, <2>1 DEF IInv, Types
<1>6. \A x \in Opens : x # g => frames'[x] = frames[x] /\ seen'[x] = seen[x]
  BY <1>2 DEF IInv, Types
<1>7. Unused'
  <2>1. ASSUME NEW x \in Opens, x > opens PROVE x # g
    BY <1>1, <2>1, Known
  <2> QED BY <1>2, <1>6, <2>1 DEF IInv, Unused
<1>8. ASSUME NEW x \in Opens PROVE Channel(x)'
  <2>1. CASE x # g
    BY <1>2, <1>6, <2>1, Known DEF Channel, Sent
  <2>2. CASE x = g
    <3>1. /\ InLine(Sent(g), frames[g], seen[g], cancelled[g] - orphans[g])
          /\ InOrder(seen[g], cancelled[g]) /\ orphans[g] <= cancelled[g]
      BY <1>1, Known DEF Channel
    <3>2. /\ InLine(Sent(g), Tail(frames[g]), Append(seen[g], Head(frames[g])),
                    cancelled[g] - orphans[g])
          /\ InOrder(Append(seen[g], Head(frames[g])), cancelled[g])
      BY <1>2, <3>1, Known, Take
    <3>3. /\ frames'[g] = Tail(frames[g])
          /\ seen'[g] = Append(seen[g], Head(frames[g]))
          /\ Sent(g)' = Sent(g)
      BY <1>2 DEF IInv, Types, Sent
    <3> QED BY <1>2, <2>2, <3>1, <3>2, <3>3 DEF Channel
  <2> QED BY <2>1, <2>2
<1> QED BY <1>5, <1>7, <1>8 DEF IInv

\* An abandoned call comes to its end.
LEMMA OrphanReturnsKeeps ==
  ASSUME IInv, NEW g \in Opens, OrphanReturns(g)
  PROVE  IInv'
<1>1. /\ orphans[g] > 0 /\ orphans' = [orphans EXCEPT ![g] = orphans[g] - 1]
      /\ frames' = [frames EXCEPT ![g] =
           IF frames[g] = <<>> \/ (orphans[g] = 1 /\ rx # g) THEN <<>> ELSE Tail(frames[g])]
      /\ UNCHANGED <<thread, captured, cancelled, seen, rx, opens, caller>>
  BY DEF OrphanReturns, openVars
<1>2. /\ orphans[g] \in Nat /\ frames[g] \in Seq(Nat)
      /\ frames[g] # <<>> => Tail(frames[g]) \in Seq(Nat)
  BY Known, First
<1>3. Types'
  <2>1. orphans' \in [Opens -> Nat]
    BY <1>1, <1>2 DEF IInv, Types
  <2>2. frames' \in [Opens -> Seq(Nat)]
    BY <1>1, <1>2 DEF IInv, Types
  <2> QED BY <1>1, <2>1, <2>2 DEF IInv, Types
<1>4. /\ \A x \in Opens : x # g => frames'[x] = frames[x] /\ orphans'[x] = orphans[x]
      /\ orphans'[g] = orphans[g] - 1
      /\ rx = g => frames'[g] = IF frames[g] = <<>> THEN <<>> ELSE Tail(frames[g])
  BY <1>1 DEF IInv, Types
<1>5. Unused'
  <2>1. ASSUME NEW x \in Opens, x > opens PROVE x # g
    BY <1>1, <2>1, Known
  <2> QED BY <1>1, <1>4, <2>1 DEF IInv, Unused
<1>6. ASSUME NEW x \in Opens PROVE Channel(x)'
  <2>1. CASE x # g
    BY <1>1, <1>4, <2>1, Known DEF Channel, Sent
  <2>2. CASE x = g
    <3> DEFINE k == cancelled[g] - orphans[g]
    <3>1. orphans'[g] <= cancelled'[g] /\ InOrder(seen'[g], cancelled'[g])
      BY <1>1, <1>2, <1>4, Known DEF Channel
    <3>2. cancelled'[g] - orphans'[g] = k + 1 /\ Sent(g)' = Sent(g)
      BY <1>1, <1>2, <1>4, Known DEF Sent
    <3>3. CASE rx = g
      <4>1. InLine(Sent(g), frames[g], seen[g], k)
        BY <3>3, Known DEF Channel
      <4>2. InLine(Sent(g), frames'[g], seen[g], k + 1)
        <5>1. CASE frames[g] = <<>>
          BY <1>4, <3>3, <4>1, <5>1, LoseNothing, Known
        <5>2. CASE frames[g] # <<>>
          BY SMTT(30), <1>4, <3>3, <4>1, <5>2, Lose, Known
        <5> QED BY <5>1, <5>2
      <4>3. InLine(Sent(g)', frames'[g], seen'[g], cancelled'[g] - orphans'[g])
        BY <1>1, <3>2, <4>2
      <4> QED BY <2>2, <3>1, <4>3 DEF Channel
    <3>4. CASE rx # g
      BY <1>1, <2>2, <3>1, <3>4 DEF Channel
    <3> QED BY <3>3, <3>4
  <2> QED BY <2>1, <2>2
<1> QED BY <1>3, <1>5, <1>6 DEF IInv

\* A frame is put into the channel.
LEMMA SendFrameKeeps ==
  ASSUME IInv, NEW g \in Opens, SendFrame(g)
  PROVE  IInv'
<1>1. PICK to \in {"check", "capture"} : thread' = [thread EXCEPT ![g] = to]
  BY DEF SendFrame, Again
<1>2. /\ thread[g] = "send" /\ frames' = [frames EXCEPT ![g] = Append(frames[g], captured[g])]
      /\ UNCHANGED <<captured, orphans, cancelled, seen, rx, opens, caller>>
  BY DEF SendFrame, readVars, openVars
<1>3. Append(frames[g], captured[g]) \in Seq(Nat)
  BY Known
<1>4. Types'
  <2>1. frames' \in [Opens -> Seq(Nat)]
    BY <1>2, <1>3 DEF IInv, Types
  <2>2. thread' \in [Opens -> {"none", "check", "capture", "send", "wait", "done"}]
    BY <1>1 DEF IInv, Types
  <2> QED BY <1>2, <2>1, <2>2 DEF IInv, Types
<1>5. \A x \in Opens : x # g => frames'[x] = frames[x] /\ thread'[x] = thread[x]
  BY <1>1, <1>2 DEF IInv, Types
<1>6. Unused'
  <2>1. ASSUME NEW x \in Opens, x > opens PROVE x # g
    BY <1>2, <2>1, Known
  <2> QED BY <1>2, <1>5, <2>1 DEF IInv, Unused
<1>7. ASSUME NEW x \in Opens PROVE Channel(x)'
  <2>1. CASE x # g
    BY <1>2, <1>5, <2>1, Known DEF Channel, Sent
  <2>2. CASE x = g
    <3> DEFINE k == cancelled[g] - orphans[g]
    <3>1. /\ frames'[g] = Append(frames[g], captured[g])
          /\ Sent(g)' = captured[g] /\ captured[g] = Sent(g) + 1
      <4>1. thread'[g] # "send" /\ frames'[g] = Append(frames[g], captured[g])
        BY <1>1, <1>2 DEF IInv, Types
      <4>2. captured[g] = Sent(g) + 1
        BY <1>2, Known DEF Sent
      <4> QED BY <1>2, <4>1, <4>2 DEF Sent
    <3>2. CASE rx = g
      <4>1. InLine(Sent(g), frames[g], seen[g], k)
        BY <3>2, Known DEF Channel
      <4>2. InLine(captured[g], Append(frames[g], captured[g]), seen[g], k)
        BY <3>1, <4>1, Known, Put
      <4>3. InLine(Sent(g)', frames'[g], seen'[g], cancelled'[g] - orphans'[g])
        BY <1>2, <3>1, <4>2
      <4> QED BY <1>2, <2>2, <4>3, Known DEF Channel
    <3>3. CASE rx # g
      BY <1>2, <2>2, <3>3, Known DEF Channel
    <3> QED BY <3>2, <3>3
  <2> QED BY <2>1, <2>2
<1> QED BY <1>4, <1>6, <1>7 DEF IInv

\* The invariant is kept by every step.
LEMMA Keeps == IInv /\ [Next]_vars => IInv'
<1> SUFFICES ASSUME IInv, [Next]_vars PROVE IInv'
  OBVIOUS
<1>1. CASE UNCHANGED vars \/ Start \/ NextFrame \/ Stop \/ ReturnNone
  <2>1. /\ UNCHANGED <<thread, captured, frames, orphans, cancelled, seen, rx, opens>>
        /\ caller' = "receiving" => rx # 0
    BY <1>1 DEF vars, Start, NextFrame, Stop, ReturnNone, threadVars, readVars, openVars,
       IInv, Types
  <2>2. Types'
    BY <2>1 DEF IInv, Types
  <2>3. Unused'
    BY <2>1 DEF IInv, Unused
  <2>4. ASSUME NEW x \in Opens PROVE Channel(x)'
    BY <2>1, Known DEF Channel, Sent
  <2> QED BY <2>2, <2>3, <2>4 DEF IInv
<1>2. ASSUME NEW g \in Opens,
             Checks(g) \/ DropStream(g) \/ InputStops(g) \/ ReadFails(g) \/ NoPacket(g)
      PROVE  IInv'
  <2>1. PICK to \in {"check", "capture", "wait", "done"} : thread' = [thread EXCEPT ![g] = to]
    BY <1>2 DEF Checks, DropStream, InputStops, ReadFails, NoPacket
  <2>2. /\ thread[g] \in {"check", "capture", "wait"}
        /\ UNCHANGED <<captured, frames, orphans, cancelled, seen, rx, opens, caller>>
    BY <1>2 DEF Checks, DropStream, InputStops, ReadFails, NoPacket, readVars, openVars
  <2>3. Sent(g)' = Sent(g)
    BY <2>1, <2>2 DEF Sent, IInv, Types
  <2> QED BY <2>1, <2>2, <2>3, ThreadSteps
<1>3. ASSUME NEW g \in Opens, CaptureChunk(g)
      PROVE  IInv'
  <2>1. /\ thread[g] = "capture" /\ thread' = [thread EXCEPT ![g] = "send"]
        /\ \/ captured' = [captured EXCEPT ![g] = @ + 1]
           \/ rx # g /\ captured' = captured
        /\ UNCHANGED <<frames, orphans, cancelled, seen, rx, opens, caller>>
    BY <1>3 DEF CaptureChunk, readVars, openVars
  <2>2. rx = g => Sent(g)' = Sent(g)
    <3>1. thread'[g] = "send" /\ (rx = g => captured'[g] = captured[g] + 1)
      BY <2>1 DEF IInv, Types
    <3> QED BY <2>1, <3>1, Known DEF Sent
  <2> QED BY <2>1, <2>2, ThreadSteps
<1>4. ASSUME NEW g \in Opens, SendFails(g)
      PROVE  IInv'
  <2>1. PICK to \in {"done", "capture"} : thread' = [thread EXCEPT ![g] = to]
    BY <1>4 DEF SendFails
  <2>2. /\ thread[g] = "send" /\ rx # g
        /\ UNCHANGED <<captured, frames, orphans, cancelled, seen, rx, opens, caller>>
    BY <1>4 DEF SendFails, HasReceiver, readVars, openVars
  <2> QED BY <2>1, <2>2, ThreadSteps
<1> QED
  BY <1>1, <1>2, <1>3, <1>4, OpenKeeps, CancelKeeps, DropKeeps, ReturnFrameKeeps,
     OrphanReturnsKeeps, SendFrameKeeps
  DEF Next, Call, Return, Send

\* The invariant holds in every reachable state.
THEOREM BackendInvariance == Spec => []IInv
<1>1. IInv /\ [Next]_vars => IInv'
  BY Keeps
<1> QED BY Initially, <1>1, PTL DEF Spec

\* For any number of opens, frames and abandoned calls, next_frame returns the
\* frames of a thread in order, none twice, and misses only as many as calls
\* were abandoned (wasapi.rs: one channel per open, a blocking send).
THEOREM NothingIsLost == Spec => []FramesInOrder
<1>1. ASSUME IInv PROVE FramesInOrder
  <2> SUFFICES ASSUME NEW g \in Opens
      PROVE /\ \A i \in 1 .. Len(seen[g]) - 1 : seen[g][i] < seen[g][i + 1]
            /\ seen[g] # <<>> => seen[g][Len(seen[g])] - Len(seen[g]) <= cancelled[g]
    BY DEF FramesInOrder
  <2>1. InOrder(seen[g], cancelled[g]) /\ seen[g] \in Seq(Nat) /\ cancelled[g] \in Nat
    BY <1>1, Known DEF Channel
  <2>2. Len(seen[g]) \in Nat
    BY <2>1
  <2>3. ASSUME NEW i \in 1 .. Len(seen[g]) - 1
        PROVE  seen[g][i] < seen[g][i + 1]
    <3>1. i \in 1 .. Len(seen[g]) /\ i + 1 \in 1 .. Len(seen[g]) /\ i < i + 1
      BY <2>2
    <3> QED BY <2>1, <3>1 DEF InOrder
  <2>4. seen[g] # <<>> => seen[g][Len(seen[g])] - Len(seen[g]) <= cancelled[g]
    <3>1. seen[g] # <<>> => seen[g][Len(seen[g])] \in Nat
      BY <2>1
    <3> QED BY <2>1, <2>2, <3>1 DEF InOrder
  <2> QED BY <2>3, <2>4
<1> QED BY BackendInvariance, <1>1, PTL
-----------------------------------------------------------------------------
(* The choice of a format.                                                 *)

\* A set of naturals has a least element.
LEMMA LeastNatural ==
  ASSUME NEW T, T \subseteq Nat, T # {}
  PROVE  \E x \in T : \A y \in T : x <= y
<1> DEFINE R == {ss \in Nat \X Nat : ss[1] < ss[2]}
<1>1. IsWellFoundedOn(R, Nat)
  BY NatLessThanWellFounded DEF OpToRel
<1>2. PICK x \in T : \A y \in T : ~ (<<y, x>> \in R)
  BY <1>1, WFMin
<1>3. ASSUME NEW y \in T PROVE x <= y
  <2>1. <<y, x>> \in Nat \X Nat /\ <<y, x>>[1] = y /\ <<y, x>>[2] = x
    OBVIOUS
  <2>2. ~ (y < x)
    BY <1>2, <2>1
  <2> QED BY <2>2
<1> QED BY <1>3

\* What a device offers, place by place.
LEMMA Offered ==
  ASSUME NEW device \in Seq(Configs), NEW f \in Formats, NEW i \in DOMAIN device
  PROVE  /\ i \in Nat /\ device[i] \in Configs
         /\ Distance(device[i], f.rate) \in Nat /\ Score(device[i], f) \in Nat
<1>1. i \in Nat /\ device[i] \in Configs
  OBVIOUS
<1>2. device[i].low \in Nat /\ device[i].high \in Nat /\ f.rate \in Nat
  BY <1>1 DEF Configs, Formats
<1>3. Distance(device[i], f.rate) \in Nat
  BY <1>2 DEF Distance
<1>4. Score(device[i], f) \in Nat
  BY <1>3 DEF Score
<1> QED BY <1>1, <1>3, <1>4

\* The choice of a format is one of the candidates, and no candidate comes
\* before it.
LEMMA ChosenIsBest ==
  ASSUME NEW device \in Seq(Configs), device # <<>>, NEW f \in Formats
  PROVE  \E i \in Candidates(device, f) :
           /\ i \in DOMAIN device /\ Chosen(device, f) = device[i]
           /\ \A j \in Candidates(device, f) : Before(device, f, i, j)
<1> DEFINE C == Candidates(device, f)
           scores == {Score(device[i], f) : i \in C}
<1>1. C # {} /\ C \subseteq DOMAIN device
  <2>1. 1 \in DOMAIN device
    OBVIOUS
  <2> QED BY <2>1 DEF Candidates
<1>2. scores \subseteq Nat /\ scores # {}
  BY <1>1, Offered
<1>3. PICK s \in scores : \A t \in scores : s <= t
  BY <1>2, LeastNatural
<1> DEFINE firsts == {i \in C : Score(device[i], f) = s}
<1>4. firsts \subseteq Nat /\ firsts # {}
  BY <1>1, <1>3, Offered
<1>5. PICK k \in firsts : \A j \in firsts : k <= j
  BY <1>4, LeastNatural
<1>6. ASSUME NEW j \in C PROVE Before(device, f, k, j)
  <2>1. s <= Score(device[j], f) /\ Score(device[k], f) = s
    BY <1>3, <1>5
  <2>2. s \in Nat /\ Score(device[j], f) \in Nat
    BY <1>1, <1>2, Offered
  <2>3. CASE Score(device[j], f) = s
    BY <1>5, <2>1, <2>3 DEF Before
  <2>4. CASE Score(device[j], f) # s
    BY <2>1, <2>2, <2>4 DEF Before
  <2> QED BY <2>3, <2>4
<1>7. k \in C
  OBVIOUS
<1> HIDE DEF C, scores, firsts
<1>8. \E i \in C : \A j \in C : Before(device, f, i, j)
  BY <1>6, <1>7
<1> DEFINE i == CHOOSE x \in C : \A j \in C : Before(device, f, x, j)
<1>9. i \in C /\ \A j \in C : Before(device, f, i, j)
  BY <1>8
<1>10. Chosen(device, f) = device[i]
  BY DEF Chosen, C
<1> QED BY <1>1, <1>9, <1>10 DEF C

\* Taking the nearest rate of a range changes it by its distance.
LEMMA Clamped ==
  ASSUME NEW config \in Configs, NEW rate \in Nat, Distance(config, rate) <= 1000
  PROVE  /\ Clamp(config, rate) \in Nat
         /\ Clamp(config, rate) <= rate + 1000 /\ rate <= Clamp(config, rate) + 1000
<1> DEFINE low  == config.low
           high == config.high
<1>1. low \in Nat /\ high \in Nat
  BY DEF Configs
<1>2. (IF rate < low THEN low - rate ELSE IF rate > high THEN rate - high ELSE 0) <= 1000
  BY DEF Distance
<1>3. Clamp(config, rate) = IF rate < low THEN low ELSE IF rate > high THEN high ELSE rate
  BY SMTT(30) DEF Clamp
<1> HIDE DEF low, high
<1> QED BY <1>1, <1>2, <1>3

\* If a candidate contains the rate asked for, the rate of the stream is off by
\* no more than the bonus of the bit depth.
NearRate(device, f) ==
  (\E i \in DOMAIN device : /\ device[i].channels = f.channels
                            /\ f.rate \in device[i].low .. device[i].high)
    => Stream(device, f).rate - f.rate \in -1000 .. 1000

LEMMA Near ==
  ASSUME NEW device \in Seq(Configs), device # <<>>, NEW f \in Formats
  PROVE  NearRate(device, f)
<1> DEFINE fits(j) == /\ device[j].channels = f.channels
                     /\ f.rate \in device[j].low .. device[j].high
           near == Stream(device, f).rate - f.rate \in -1000 .. 1000
<1> SUFFICES (\E j \in DOMAIN device : fits(j)) => near
  BY Zenon DEF NearRate
<1> HIDE DEF fits, near
<1> SUFFICES ASSUME NEW k \in DOMAIN device, fits(k) PROVE near
  OBVIOUS
<1> USE DEF fits, near
<1>1. k \in Candidates(device, f)
  BY DEF Candidates
<1>2. PICK i \in DOMAIN device :
        Chosen(device, f) = device[i] /\ Before(device, f, i, k)
  BY <1>1, ChosenIsBest
<1>3. /\ device[i].low \in Nat /\ device[i].high \in Nat /\ f.rate \in Nat
      /\ device[k].low \in Nat /\ device[k].high \in Nat
  BY Offered DEF Configs, Formats
<1>4. Score(device[k], f) = 0
  BY SMTT(30), <1>3 DEF Score, Distance
<1>5. Score(device[i], f) = 0
  BY <1>2, <1>4, Offered DEF Before
<1>6. Distance(device[i], f.rate) <= 1000
  <2> DEFINE d == Distance(device[i], f.rate)
  <2>1. d \in Nat
    BY Offered
  <2>2. (IF Bits(device[i]) # f.bits THEN d ELSE IF d < 1000 THEN 0 ELSE d - 1000) = 0
    BY <1>5 DEF Score
  <2> HIDE DEF d
  <2>3. d <= 1000
    BY <2>1, <2>2
  <2> QED BY <2>3 DEF d
<1>7. Clamp(device[i], f.rate) - f.rate \in -1000 .. 1000
  <2>1. device[i] \in Configs /\ f.rate \in Nat
    BY <1>3, Offered
  <2> DEFINE r == f.rate
             c == Clamp(device[i], r)
  <2>2. c \in Nat /\ c <= r + 1000 /\ r <= c + 1000 /\ r \in Nat
    BY <1>6, <2>1, Clamped
  <2> HIDE DEF r, c
  <2>3. c - r \in -1000 .. 1000
    BY <2>2
  <2> QED BY <2>3 DEF r, c
<1> QED BY <1>2, <1>7 DEF Stream

\* The format that is reported is a format.
LEMMA ActualIsFormat ==
  ASSUME NEW device \in Seq(Configs), device # <<>>, NEW f \in Formats
  PROVE  Actual(device, f) \in Formats
<1>1. PICK i \in DOMAIN device : Chosen(device, f) = device[i]
  BY ChosenIsBest
<1>2. device[i] \in Configs /\ f.rate \in Nat /\ f.channels \in Nat
  BY Offered DEF Formats
<1>3. Clamp(device[i], f.rate) \in Nat
  BY <1>2 DEF Clamp, Configs
<1>4. Bits(device[i]) \in Nat
  BY DEF Bits
<1> QED BY <1>1, <1>2, <1>3, <1>4 DEF Actual, Formats
-----------------------------------------------------------------------------
(* Types.                                                                  *)

\* A thread that sends has captured something.
Sending == \A g \in Opens : thread[g] = "send" => captured[g] # 0

Sound == TypeOK /\ Sending

\* A channel of at most c numbers of a set S.
Holds(f, S, c) == f \in Seq(S) /\ Len(f) <= c

\* An empty one, and one whose first frame is taken.
LEMMA HoldsLess ==
  ASSUME NEW S, NEW c \in Nat
  PROVE  /\ Holds(<<>>, S, c)
         /\ \A f : f # <<>> /\ Holds(f, S, c) => Holds(Tail(f), S, c) /\ Head(f) \in S
<1>1. ASSUME NEW f \in Seq(S), f # <<>>, Len(f) <= c
      PROVE  Tail(f) \in Seq(S) /\ Len(Tail(f)) <= c /\ Head(f) \in S
  <2>1. Tail(f) \in Seq(S) /\ Len(Tail(f)) = Len(f) - 1 /\ Head(f) \in S /\ Len(f) \in Nat
    BY <1>1
  <2> QED BY <1>1, <2>1
<1> QED BY <1>1 DEF Holds

\* One with a number more.
LEMMA HoldsMore ==
  ASSUME NEW S, NEW c \in Nat, NEW x \in S
  PROVE  /\ \A f : Holds(f, S, c) /\ Len(f) < c => Holds(Append(f, x), S, c)
         /\ \A f \in Seq(S) : Append(f, x) \in Seq(S)
<1>1. ASSUME NEW f \in Seq(S), Len(f) < c
      PROVE  Append(f, x) \in Seq(S) /\ Len(Append(f, x)) <= c
  <2>1. Append(f, x) \in Seq(S) /\ Len(Append(f, x)) = Len(f) + 1 /\ Len(f) \in Nat
    OBVIOUS
  <2> QED BY <1>1, <2>1
<1> QED BY <1>1 DEF Holds

\* What the types say of the channels.
LEMMA ChannelTypes ==
  ASSUME Sound, NEW g \in Opens
  PROVE  /\ Holds(frames[g], 1 .. MaxFrames, Cap) /\ seen[g] \in Seq(1 .. MaxFrames)
         /\ Cap \in Nat
BY BackendAssumption DEF BackendAssumption, Sound, TypeOK, Holds

\* A format that is reported is one element.
LEMMA OneFormat ==
  ASSUME NEW x \in Formats
  PROVE  {x} \subseteq Formats /\ Cardinality({x}) <= 1
BY SMTT(30), FS_Singleton

\* The initial states have the types.
LEMMA SoundInitially == Init => Sound
<1> SUFFICES ASSUME Init PROVE Sound
  OBVIOUS
<1> USE DEF Init
<1>1. PICK machine \in Machines : plugged = machine[1] /\ system = machine[2]
  OBVIOUS
<1>2. <<plugged, system>> \in Machines
  BY <1>1, BackendAssumption DEF BackendAssumption
<1>3. asked \in [Opens -> Requests]
  BY BackendAssumption DEF BackendAssumption
<1>4. actual \subseteq Formats /\ Cardinality(actual) <= 1
  BY FS_EmptySet
<1>5. MaxOpens \in Nat /\ MaxFrames \in Nat /\ Cap \in Nat
  BY BackendAssumption DEF BackendAssumption
<1>6. \A g \in Opens :
        /\ frames[g] \in Seq(1 .. MaxFrames) /\ Len(frames[g]) <= Cap
        /\ seen[g] \in Seq(1 .. MaxFrames)
  BY <1>5, HoldsLess DEF Holds
<1>7. /\ captured \in [Opens -> 0 .. MaxFrames] /\ orphans \in [Opens -> Nat]
      /\ cancelled \in [Opens -> Nat] /\ rx \in 0 .. MaxOpens /\ opens \in 0 .. MaxOpens
  BY <1>5
<1>8. TypeOK
  BY <1>2, <1>3, <1>4, <1>6, <1>7 DEF TypeOK
<1> QED BY <1>8 DEF Sound, Sending

\* The device that is plugged in, and the bounds.
LEMMA Plugged ==
  ASSUME Sound
  PROVE  /\ plugged \in Seq(Configs) /\ plugged # <<>> /\ Requests \subseteq Formats
         /\ MixRate \in Nat /\ Cap \in Nat \ {0} /\ MaxOpens \in Nat \ {0}
         /\ MaxFrames \in Nat \ {0}
<1>1. <<plugged, system>> \in Machines
  BY DEF Sound, TypeOK
<1>2. <<plugged, system>>[1] = plugged
  OBVIOUS
<1> QED BY <1>1, <1>2, BackendAssumption DEF BackendAssumption

\* The new open has its types.
LEMMA OpenSound ==
  ASSUME Sound, IInv, NEW f \in Requests, OpenMonitor(f) \/ OpenLoopback(f) \/ OpenInput(f)
  PROVE  Sound'
<1>1. /\ opens < MaxOpens /\ caller' = caller
      /\ UNCHANGED <<plugged, system, captured, stopMsg, orphans, cancelled, seen, active>>
      /\ asked' = [asked EXCEPT ![opens + 1] = f]
  BY DEF OpenMonitor, OpenLoopback, OpenInput, readVars
<1>2. PICK source \in Sources, first \in {"check", "capture", "wait"} :
        Spawn(opens + 1, source, first)
  BY DEF OpenMonitor, OpenLoopback, OpenInput, Sources, System
<1>3. actual' \subseteq Formats /\ Cardinality(actual') <= 1
  <2>1. f \in Formats /\ f.rate \in Nat /\ f.channels \in Nat /\ MixRate \in Nat
    BY Plugged DEF Formats
  <2>2. PICK x \in Formats : actual' = {x}
    <3>1. CASE OpenMonitor(f)
      BY <2>1, <3>1 DEF OpenMonitor, Formats
    <3>2. CASE OpenLoopback(f)
      BY <2>1, <3>2 DEF OpenLoopback, Formats
    <3>3. CASE OpenInput(f)
      BY <2>1, <3>3, Plugged, ActualIsFormat DEF OpenInput
    <3> QED BY <3>1, <3>2, <3>3
  <2> QED BY <2>2, OneFormat
<1>4. opens \in Nat /\ opens + 1 \in Opens /\ opens + 1 \in 0 .. MaxOpens
  BY <1>1, Plugged DEF Sound, TypeOK, Opens
<1>5. /\ opens' = opens + 1 /\ rx' = opens + 1 /\ stopTx' = opens + 1
      /\ kind' = [kind EXCEPT ![opens + 1] = source]
      /\ thread' = [thread EXCEPT ![opens + 1] = first]
      /\ frames' = [h \in Opens |-> IF h = rx /\ orphans[h] = 0 THEN <<>> ELSE frames[h]]
  BY <1>2 DEF Spawn
<1>6. \A g \in Opens : frames'[g] \in Seq(1 .. MaxFrames) /\ Len(frames'[g]) <= Cap
  BY <1>5, ChannelTypes, HoldsLess DEF Holds
<1>7. /\ kind' \in [Opens -> {"none"} \cup Sources]
      /\ thread' \in [Opens -> {"none", "check", "capture", "send", "wait", "done"}]
      /\ asked' \in [Opens -> Requests]
  BY <1>1, <1>5 DEF Sound, TypeOK
<1>8. TypeOK'
  BY <1>1, <1>3, <1>4, <1>5, <1>6, <1>7 DEF Sound, TypeOK
<1>9. Sending'
  BY <1>1, <1>5 DEF Sound, TypeOK, Sending
<1> QED BY <1>8, <1>9 DEF Sound

\* The other calls, and what they return.
LEMMA CallSound ==
  ASSUME Sound, IInv,
         Start \/ Stop \/ NextFrame \/ Cancel \/ Drop \/ ReturnFrame \/ ReturnNone
  PROVE  Sound'
<1>1. CASE Start \/ NextFrame \/ ReturnNone
  BY <1>1 DEF Start, NextFrame, ReturnNone, threadVars, readVars, openVars, Sound, TypeOK,
     Sending
<1>2. CASE Stop
  BY <1>2 DEF Stop, readVars, openVars, Sound, TypeOK, Sending
<1>3. CASE Cancel
  <2>1. PICK g \in Opens : g = rx
    BY <1>3, BackendAssumption DEF BackendAssumption, Cancel, IInv, Types, Opens
  <2>2. /\ orphans' = [orphans EXCEPT ![g] = orphans[g] + 1]
        /\ cancelled' = [cancelled EXCEPT ![g] = cancelled[g] + 1]
    BY <1>3, <2>1 DEF Cancel
  <2>3. orphans' \in [Opens -> Nat] /\ cancelled' \in [Opens -> Nat]
    BY <2>2 DEF Sound, TypeOK
  <2> QED BY <1>3, <2>3 DEF Cancel, threadVars, openVars, Sound, TypeOK, Sending
<1>4. CASE Drop
  <2>1. \A g \in Opens : frames'[g] \in Seq(1 .. MaxFrames) /\ Len(frames'[g]) <= Cap
    BY <1>4, ChannelTypes, HoldsLess DEF Drop, Holds
  <2> QED BY SMTT(30), <1>4, <2>1, Plugged DEF Drop, readVars, Sound, TypeOK, Sending
<1>5. CASE ReturnFrame
  <2>1. PICK g \in Opens : g = rx
    BY <1>5, BackendAssumption DEF BackendAssumption, ReturnFrame, IInv, Types, Opens
  <2>2. /\ frames[g] # <<>> /\ caller' = "idle"
        /\ frames' = [frames EXCEPT ![g] = Tail(frames[g])]
        /\ seen' = [seen EXCEPT ![g] = Append(seen[g], Head(frames[g]))]
        /\ UNCHANGED <<thread, captured, stopMsg, orphans, cancelled, plugged, system, asked,
                       kind, rx, actual, opens, stopTx, active>>
    BY <1>5, <2>1 DEF ReturnFrame, openVars
  <2>3. Holds(Tail(frames[g]), 1 .. MaxFrames, Cap) /\ Head(frames[g]) \in 1 .. MaxFrames
    BY <2>2, ChannelTypes, HoldsLess
  <2>4. Append(seen[g], Head(frames[g])) \in Seq(1 .. MaxFrames)
    BY <2>3, ChannelTypes, HoldsMore
  <2>5. \A x \in Opens :
          /\ frames'[x] = IF x = g THEN Tail(frames[g]) ELSE frames[x]
          /\ seen'[x] = IF x = g THEN Append(seen[g], Head(frames[g])) ELSE seen[x]
    BY <2>2, Known DEF IInv, Types
  <2>6. /\ \A x \in Opens : frames'[x] \in Seq(1 .. MaxFrames) /\ Len(frames'[x]) <= Cap
        /\ \A x \in Opens : seen'[x] \in Seq(1 .. MaxFrames)
    BY <2>3, <2>4, <2>5, ChannelTypes DEF Holds
  <2> QED BY <2>2, <2>6 DEF Sound, TypeOK, Sending
<1> QED BY <1>1, <1>2, <1>3, <1>4, <1>5

\* The threads and the abandoned calls.
LEMMA ThreadSound ==
  ASSUME Sound, IInv, NEW g \in Opens,
         \/ OrphanReturns(g) \/ Checks(g) \/ DropStream(g) \/ InputStops(g)
         \/ CaptureChunk(g) \/ ReadFails(g) \/ NoPacket(g) \/ Send(g)
  PROVE  Sound'
<1>1. CASE Checks(g) \/ DropStream(g) \/ InputStops(g) \/ ReadFails(g) \/ NoPacket(g) \/ SendFails(g)
  <2>1. PICK to \in {"done", "capture", "wait", "check"} : thread' = [thread EXCEPT ![g] = to]
    BY <1>1 DEF Checks, DropStream, InputStops, ReadFails, NoPacket, SendFails
  <2>2. /\ stopMsg' = [stopMsg EXCEPT ![g] = FALSE] \/ stopMsg' = stopMsg
        /\ UNCHANGED <<captured, frames, readVars, openVars, stopTx, active, caller>>
    BY <1>1 DEF Checks, DropStream, InputStops, ReadFails, NoPacket, SendFails
  <2>3. thread' \in [Opens -> {"none", "check", "capture", "send", "wait", "done"}] /\ Sending'
    BY <2>1, <2>2 DEF Sound, TypeOK, Sending
  <2> QED BY <2>2, <2>3 DEF Sound, TypeOK, readVars, openVars
<1>2. CASE CaptureChunk(g)
  <2>1. /\ thread' = [thread EXCEPT ![g] = "send"]
        /\ IF captured[g] < MaxFrames THEN captured' = [captured EXCEPT ![g] = captured[g] + 1]
           ELSE captured' = captured
        /\ UNCHANGED <<frames, stopMsg, readVars, openVars, stopTx, active, caller>>
    BY <1>2 DEF CaptureChunk
  <2>2. captured[g] \in 0 .. MaxFrames /\ MaxFrames \in Nat \ {0}
    BY Plugged DEF Sound, TypeOK
  <2>3. captured' \in [Opens -> 0 .. MaxFrames] /\ captured'[g] # 0
    <3>1. CASE captured[g] < MaxFrames
      <4>1. captured[g] + 1 \in 0 .. MaxFrames /\ captured[g] + 1 # 0
        BY <2>2, <3>1
      <4> QED BY <2>1, <3>1, <4>1 DEF Sound, TypeOK
    <3>2. CASE ~ (captured[g] < MaxFrames)
      BY <2>1, <2>2, <3>2 DEF Sound, TypeOK
    <3> QED BY <3>1, <3>2
  <2>4. Sending'
    BY <2>1, <2>3 DEF Sound, TypeOK, Sending
  <2> QED BY <2>1, <2>3, <2>4 DEF Sound, TypeOK, readVars, openVars
<1>3. CASE SendFrame(g)
  <2>1. PICK to \in {"check", "capture"} : thread' = [thread EXCEPT ![g] = to]
    BY <1>3 DEF SendFrame, Again
  <2>2. /\ thread[g] = "send" /\ frames' = [frames EXCEPT ![g] = Append(frames[g], captured[g])]
        /\ Len(frames[g]) < Cap
        /\ UNCHANGED <<captured, stopMsg, readVars, openVars, stopTx, active, caller>>
    BY <1>3 DEF SendFrame
  <2>3. captured[g] \in 1 .. MaxFrames
    BY <2>2, Plugged DEF Sound, TypeOK, Sending
  <2>4. Holds(Append(frames[g], captured[g]), 1 .. MaxFrames, Cap)
    BY <2>2, <2>3, ChannelTypes, HoldsMore
  <2>5. \A x \in Opens : frames'[x] = IF x = g THEN Append(frames[g], captured[g]) ELSE frames[x]
    BY <2>2 DEF IInv, Types
  <2>6. \A x \in Opens : frames'[x] \in Seq(1 .. MaxFrames) /\ Len(frames'[x]) <= Cap
    BY <2>4, <2>5, ChannelTypes DEF Holds
  <2>7. thread' \in [Opens -> {"none", "check", "capture", "send", "wait", "done"}] /\ Sending'
    BY <2>1, <2>2 DEF Sound, TypeOK, Sending
  <2> QED BY <2>2, <2>6, <2>7 DEF Sound, TypeOK, readVars, openVars
<1>4. CASE OrphanReturns(g)
  <2>1. /\ orphans[g] > 0 /\ orphans' = [orphans EXCEPT ![g] = orphans[g] - 1]
        /\ frames' = [frames EXCEPT ![g] =
             IF frames[g] = <<>> \/ (orphans[g] = 1 /\ rx # g) THEN <<>> ELSE Tail(frames[g])]
        /\ UNCHANGED <<thread, captured, stopMsg, cancelled, seen, openVars, stopTx, active, caller>>
    BY <1>4 DEF OrphanReturns
  <2>2. orphans' \in [Opens -> Nat]
    BY <2>1 DEF Sound, TypeOK
  <2>3. frames'[g] \in {<<>>, frames[g], Tail(frames[g])} /\ (frames[g] = <<>> => frames'[g] = <<>>)
    BY <2>1 DEF IInv, Types
  <2>4. Holds(frames'[g], 1 .. MaxFrames, Cap)
    BY <2>3, ChannelTypes, HoldsLess
  <2>5. \A x \in Opens : x # g => frames'[x] = frames[x]
    BY <2>1 DEF IInv, Types
  <2>6. \A x \in Opens : frames'[x] \in Seq(1 .. MaxFrames) /\ Len(frames'[x]) <= Cap
    BY <2>4, <2>5, ChannelTypes DEF Holds
  <2> QED BY <2>1, <2>2, <2>6 DEF Sound, TypeOK, Sending, openVars
<1> QED BY <1>1, <1>2, <1>3, <1>4 DEF Send

\* Every step keeps the types.
LEMMA SoundKeeps == Sound /\ IInv /\ [Next]_vars => Sound'
<1> SUFFICES ASSUME Sound, IInv, [Next]_vars PROVE Sound'
  OBVIOUS
<1>1. CASE UNCHANGED vars
  BY <1>1 DEF vars, threadVars, readVars, openVars, Sound, TypeOK, Sending
<1>2. CASE Next
  BY <1>2, OpenSound, CallSound, ThreadSound DEF Next, Call, Return
<1> QED BY <1>1, <1>2

\* Every reachable state is type correct, frame numbers within what was captured
\* and channels within their capacity; a stop sender is of the open whose frames
\* are received.
THEOREM BackendTypes == Spec => []TypeOK
<1>1. Sound /\ IInv /\ [Next]_vars => Sound'
  BY SoundKeeps
<1>2. Sound => TypeOK
  BY DEF Sound
<1> QED BY SoundInitially, BackendInvariance, <1>1, <1>2, PTL DEF Spec

\* For any device and any format that is asked for: if a configuration with the
\* channels asked for contains the rate, the stream's rate is at most 1000 Hz off
\* (the selection of wasapi.rs, which prefers the bit depth by a bonus).
THEOREM NegotiationIsNear == Spec => []NegotiatedNear
<1>1. ASSUME Sound PROVE NegotiatedNear
  <2> SUFFICES \A g \in Opens : kind[g] = "input" => NearRate(plugged, asked[g])
    BY Zenon DEF NegotiatedNear, NearRate
  <2> TAKE g \in Opens
  <2>1. asked[g] \in Formats
    BY <1>1, Plugged DEF Sound, TypeOK
  <2> QED BY <1>1, <2>1, Plugged, Near
<1>2. Sound /\ IInv /\ [Next]_vars => Sound'
  BY SoundKeeps
<1> QED BY SoundInitially, BackendInvariance, <1>1, <1>2, PTL DEF Spec
=============================================================================
