------------------------------ MODULE MCBackend ------------------------------
(* Two opens of either kind, a channel of one frame, and two frames per      *)
(* thread, so that a send can block.  Two machines: one with the monitor and *)
(* an input whose second range has the bit depth asked for and is a little   *)
(* off its rate, one with the loopback and an input with mono before stereo  *)
(* in the same sample format.                                                *)
EXTENDS Backend

Config(s, c, l, h) == [sample |-> s, channels |-> c, low |-> l, high |-> h]
MCNear == <<Config("i16", 2, 22050, 32000), Config("i16", 2, 44500, 96000),
            Config("f32", 2, 44100, 48000)>>
MCMono == <<Config("i16", 1, 44100, 44100), Config("f32", 2, 48000, 96000),
            Config("i16", 2, 44500, 96000)>>

MCMachines == {<<MCNear, "monitor">>, <<MCMono, "loopback">>}
MCRequests == {[rate |-> 44100, channels |-> 2, bits |-> 16]}
=============================================================================
