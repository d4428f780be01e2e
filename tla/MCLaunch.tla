------------------------------- MODULE MCLaunch -------------------------------
(* Three processes, one of which may find a lock that passed between the      *)
(* others, and two values of the settings next to the defaults.  Both sets    *)
(* are symmetric.                                                             *)
EXTENDS Launch, TLC

CONSTANTS p1, p2, p3, v1, v2

MCProcs    == {p1, p2, p3}
MCValues   == {"default", v1, v2}
MCSymmetry == Permutations(MCProcs) \cup Permutations({v1, v2})
=============================================================================
