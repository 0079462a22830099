---------------------------- MODULE MCServerPool ----------------------------
(* ServerPool on two servers. *)
EXTENDS ServerPool, TLC

CONSTANTS s1, s2, t1, t2, t3, t4

MCServers == {s1, s2}
MCConfig == <<s1, s2>>
MCFirstOnly == <<s1>>
MCThreads == {t1, t2, t3, t4}
ThreadSymmetry == Permutations(MCThreads)
=============================================================================
