----------------------------- MODULE MCChannels -----------------------------
(* Channels with two servers. *)
EXTENDS Channels

CONSTANTS r1, r2, a, b, n

MCReaders == {r1, r2}
MCNames == {a, b}
MCNicks == {n}
=============================================================================
