----------------------------- MODULE MCShutdown -----------------------------
(* Shutdown on two servers and the threads to read and reopen them. *)
EXTENDS Shutdown

CONSTANTS s1, s2, t1, t2, t3

MCServers == {s1, s2}
MCConfig == <<s1, s2>>
MCThreads == {t1, t2, t3}
=============================================================================
