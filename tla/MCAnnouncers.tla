---------------------------- MODULE MCAnnouncers ----------------------------
(* Two readers, a plain message with a link, commands with one in either      *)
(* place and without one, a list of two lines, none, and no file.             *)
EXTENDS Announcers

CONSTANTS r1, r2

MCReaders == {r1, r2}
MCMessages ==
    {[command |-> "none", link |-> "later", line |-> "c"],
     [command |-> "weather", link |-> "first", line |-> "c"],
     [command |-> "weather", link |-> "later", line |-> "c"],
     [command |-> "addurl", link |-> "none", line |-> "c"]}
MCFiles == {Null, <<>>, <<"a", "b">>}
=============================================================================
