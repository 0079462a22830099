----------------------------- MODULE MCAutoload -----------------------------
(* Autoload with the plugins of MCPluginHandler, one of each kind written. *)
EXTENDS Autoload, MCPluginHandler

MCWritten == {"events", "autoload"}
MCBroken == {"events"}    \* half written when it is opened
=============================================================================
