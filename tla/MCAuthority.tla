---------------------------- MODULE MCAuthority ----------------------------
(* Authority on a small instance, for TLC. *)
EXTENDS Authority, TLC

CONSTANTS s1, s2, t1, t2, mail, run, other

OneSender == {s1}
TwoSenders == {s1, s2}
OneThread == {t1}
TwoThreads == {t1, t2}
OneClass == {mail}
OneCommand == {run}
TwoCommands == {run, other}

ThreadSymmetry == Permutations(TwoThreads)
=============================================================================
