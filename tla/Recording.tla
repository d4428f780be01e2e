----------------------------- MODULE Recording -----------------------------
(***************************************************************************)
(* What a recording promises, whatever tasks, queues and buffers stand     *)
(* behind it.                                                              *)
(*                                                                         *)
(* Frames are accepted one at a time; number k is the k-th frame accepted. *)
(* They are taken in order, until one fails: that ends the recording.      *)
(* What was taken reaches the file in order, sooner or later.  The file is *)
(* closed once, well formed ("final") or not ("broken"), and then never    *)
(* changes; only behind a failed write may it have a hole.  The summary    *)
(* counts what was taken and what failed.                                  *)
(*                                                                         *)
(* A frame is in the file once its last sample is: behind a hole the first *)
(* one may have lost its beginning.                                        *)
(***************************************************************************)
EXTENDS Naturals, Sequences

VARIABLES
  container,  \* "wav" | "mp3" | "flac": what the file is
  accepted,   \* how many frames the recording has been given
  taken,      \* how many of them were taken for the file
  failed,     \* 1 once the next one failed, else 0
  file,       \* the numbers of the frames in the file, in file order
  status,     \* "none" | "writing" | "final" | "broken"
  summary     \* what was reported to the caller: nothing yet, or one summary

rvars == <<container, accepted, taken, failed, file, status, summary>>

Init ==
  /\ container \in {"wav", "mp3", "flac"}
  /\ accepted = 0 /\ taken = 0 /\ failed = 0
  /\ file = <<>>
  /\ status = "none"
  /\ summary = {}

\* n frames, the first m from the start on, the others behind a hole.
Frames(m, hole, n) == [i \in 1 .. n |-> IF i <= m THEN i ELSE i + hole]

\* The first n frames, when n is no less than what the file has.
Reaches(n) ==
  /\ n >= Len(file)
  /\ file' = Frames(n, 0, n)

Accept ==
  /\ accepted' = accepted + 1
  /\ UNCHANGED <<container, taken, failed, file, status, summary>>

\* Opening may fail halfway and leave a file that holds no frame.
Open ==
  /\ status = "none"
  /\ status' \in {"writing", "broken"}
  /\ UNCHANGED <<container, accepted, taken, failed, file, summary>>

\* The next frame is taken, and some of what was taken is in the file.
Take ==
  /\ status = "writing" /\ failed = 0 /\ taken < accepted
  /\ taken' = taken + 1
  /\ \E n \in 0 .. taken + 1 : Reaches(n)
  /\ UNCHANGED <<container, accepted, failed, status, summary>>

\* The next frame fails: nothing is taken any more.
Fail ==
  /\ status = "writing" /\ failed = 0 /\ taken < accepted
  /\ failed' = 1
  /\ \E n \in 0 .. taken : Reaches(n)
  /\ UNCHANGED <<container, accepted, taken, status, summary>>

\* The file is closed, and the rest of what was taken is written before.  It has
\* no hole unless a frame failed.  A WAV file never has one, and has all that was
\* taken when it is well formed; a FLAC file, when none failed.  Behind the hole
\* of a FLAC file there is only what is left of the frame that failed.
Close ==
  /\ status = "writing"
  /\ status' \in {"final", "broken"}
  /\ \E n \in 0 .. taken + failed :
     \E m \in 0 .. n, hole \in 0 .. taken + failed - n :
       /\ m >= Len(file) /\ file' = Frames(m, hole, n)
       /\ failed = 0 \/ container = "wav" => m = n /\ n <= taken
       /\ container = "flac" => n <= m + 1
       /\ status' = "final" /\ container = "wav" => n = taken
       /\ status' = "final" /\ container = "flac" /\ failed = 0 => n = taken
  /\ UNCHANGED <<container, accepted, taken, failed, summary>>

Report ==
  /\ status = "final"
  /\ summary = {}
  /\ summary' = {[captured |-> taken, dropped |-> failed]}
  /\ UNCHANGED <<container, accepted, taken, failed, file, status>>

Next == Accept \/ Open \/ Take \/ Fail \/ Close \/ Report

Spec == Init /\ [][Next]_rvars
=============================================================================
