------------------------------- MODULE MCMuxer -------------------------------
(* Samples of 4 bits and blocks of 3, so that two residuals can differ by as *)
(* much as the width allows: every way to encode a block is taken.  Two full *)
(* blocks and a shorter one; the first goes through all combinations of the  *)
(* extremes and two small values.  The rates take every kind of code, and    *)
(* the sizes of a WAV file wrap.                                             *)
EXTENDS Muxer

Recording(c, ch, r, s) == [container |-> c, channels |-> ch, rate |-> r, samples |-> s]

Mono == {Recording("flac", 1, 48000, first \o <<-8, 7, 7, 5>>) :
           first \in [1 .. 3 -> {-8, -1, 0, 7}]}

Stereo == {Recording("flac", 2, c[1], <<c[2], 0, c[3], 0, -3, 0, 7, c[2], -8, c[3], 1, 1, -5, 2>>) :
             c \in {<<11025, -8, 7>>, <<64000, 7, -8>>, <<352800, 7, 7>>}}

Others == {Recording(c, 2, 44100, <<1, -1, 2, -2, 3, -3, 4, -4, 5, -5, 6, -6>>) :
             c \in {"wav", "mp3"}}

MCInputs  == Mono \cup Stereo \cup Others
MCHeaders == {<<0, 1>>, <<127, 192>>, <<128, 255>>, <<2047, 256>>, <<2048, 257>>,
              <<65535, 576>>, <<65536, 4095>>, <<2097151, 4096>>, <<2097152, 4096>>,
              <<16777216, 4096>>, <<67108863, 4096>>}
=============================================================================
