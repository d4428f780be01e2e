----------------------------- MODULE MCRecorder -----------------------------
(* Two recordings and a clock that may or may not tick between them; queues *)
(* of one place, so that full and empty are one step apart.  One format is  *)
(* enough where formats play no part.                                       *)
EXTENDS Recorder

CONSTANTS hz48, hz44

OneFormat  == {hz48}
TwoFormats == {hz48, hz44}
=============================================================================
