-------------------------- MODULE MCPluginHandler ---------------------------
(***************************************************************************)
(* Plugins of the repository with the callbacks, events, priorities and    *)
(* results of their source, in one order in which readdir may name them.   *)
(* get_privmsg, which goes the way of get_numeric, is left out, so that    *)
(* title is a plugin whose callback is not called.                         *)
(***************************************************************************)
EXTENDS PluginHandler

CONSTANT r1

MCPlugins == {"core", "events", "title", "channels", "python", "autoload"}
MCDirectory == <<"events", "core", "title", "channels", "python",
                 "autoload">>
MCRegisters ==
    [p \in MCPlugins |->
        CASE p = "events"   -> <<"get_numeric", "get_chan_event">>
          [] p = "core"     -> <<"got_in", "handle_nick">>
          [] p = "title"    -> <<"check_for_url">>
          [] p = "channels" -> <<"get_channel_info", "remove_user">>
          [] p = "python"   -> <<"py_execute_callbacks">>
          [] p = "autoload" -> <<>>]
MCMayFail == {"autoload"}    \* pthread_create
MCNames == {"server_recv", "got_privmsg", "got_numeric", "channel_quit", "executed"}
MCCallbacks == UNION {{MCRegisters[p][i] : i \in DOMAIN MCRegisters[p]} : p \in MCPlugins}
MCOwner == [c \in MCCallbacks |->
                CHOOSE p \in MCPlugins : \E i \in DOMAIN MCRegisters[p] : MCRegisters[p][i] = c]
MCEvent ==
    [c \in MCCallbacks |->
        CASE c \in {"get_numeric", "get_chan_event"} -> "server_recv"
          [] c \in {"got_in", "handle_nick", "get_channel_info"} -> "got_numeric"
          [] c = "check_for_url" -> "got_privmsg"
          [] c = "remove_user" -> "channel_quit"
          [] c = "py_execute_callbacks" -> "executed"]
MCPriority ==
    [c \in MCCallbacks |->
        CASE c = "get_chan_event" -> 2
          [] c = "get_numeric" -> 3
          [] c \in {"got_in", "handle_nick"} -> 5
          [] c \in {"get_channel_info", "remove_user"} -> 10
          [] OTHER -> 20]
MCResults ==
    [c \in MCCallbacks |->
        CASE c = "get_chan_event" -> {"ok", "stop"}      \* motd_sent == 0
          [] c = "get_channel_info" -> {"ok", "fail"}    \* RPL_ENDOFNAMES
          [] c = "remove_user" -> {"ok", "break"}        \* no channel
          [] OTHER -> {"ok"}]
MCRaises ==
    [c \in MCCallbacks |->
        CASE c = "get_chan_event" -> {"channel_quit"}
          [] c = "get_numeric" -> {"got_numeric"}
          [] OTHER -> {}]
MCRoots == {"server_recv"}
OneReader == {r1}
=============================================================================
