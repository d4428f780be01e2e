--------------------------- MODULE MCRecorderHeader ---------------------------
(* Files that were begun with a device that was open and gave what was asked *)
(* of it, and that was not opened again while they were written: for those   *)
(* the header should describe the frames.                                    *)
EXTENDS MCRecorder

VARIABLES
  asked,  \* history: the device was opened with the format that was requested then
  steady  \* history: the seconds whose file began with such a device, still open

hvars == <<vars, asked, steady>>

HInit == Init /\ asked = FALSE /\ steady = {}

OpensDevice == ui = "opening" /\ ui' = "activating"
BeginsFile  == started' # started

HNext ==
  /\ Next
  /\ asked' = IF OpensDevice THEN devFmt' = requested ELSE asked
  /\ steady' = CASE OpensDevice -> {}
                 [] BeginsFile  -> IF dev = "live" /\ active /\ asked
                                   THEN steady \cup {now} ELSE steady \ {now}
                 [] OTHER       -> steady

HSpec == HInit /\ [][HNext]_hvars

\* "Change the requested format ... This will be used on next open"
\* (pipeline.rs:25): a rate that is selected while a device is open changes
\* nothing until the next open, so the header of a file that is begun then must
\* still describe the frames the device gives.
HeaderDescribesFrames ==
  \A s \in steady : \A i \in DOMAIN files[s].frames :
    files[s].frames[i].fmt = files[s].header
=============================================================================
