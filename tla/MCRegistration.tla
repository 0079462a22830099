--------------------------- MODULE MCRegistration ---------------------------
(* Registration with a nick, an alternative one and one channel. *)
EXTENDS Registration

CONSTANT chan

MCFirst == [base |-> "nick", tail |-> 0]
MCAlt == [base |-> "alt", tail |-> 0]
MCAutojoin == <<chan>>
=============================================================================
