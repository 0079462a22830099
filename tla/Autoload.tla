------------------------------ MODULE Autoload ------------------------------
(***************************************************************************)
(* The thread of the autoload plugin on top of the plugin table: it        *)
(* watches the plugin directory, takes the first event of what it reads,   *)
(* reloads that plugin, and drops the watch with everything that is still  *)
(* pending before it sets up a new one.                                    *)
(*                                                                         *)
(* The thread is PluginHandler's Loader once get_plugins is done.  That    *)
(* hook_change calls itself after every event, with a buffer of 32 KB on   *)
(* each level of the stack, is not modelled.                               *)
(***************************************************************************)
EXTENDS PluginHandler

CONSTANTS
    Written,     \* the plugin files that are written while the bot runs
    Directories  \* directories that are moved into the plugin directory

ASSUME WrittenAssumption ==
    Written \subseteq Plugins /\ Directories \cap Plugins = {}

VARIABLES
    hook,      \* where hook_change is
    events,    \* the names in the inotify queue, oldest first
    behind,    \* the plugins whose file was written since it was loaded
    changes    \* how many files were written or directories moved

hookVars == <<hook, events, behind, changes>>
allVars == <<vars, hookVars>>

Watching == hook \in {"read", "load"}
-----------------------------------------------------------------------------
InitAutoload ==
    /\ Init
    /\ hook = "init"
    /\ events = <<>>
    /\ behind = {}
    /\ changes = 0

\* A file is written and closed, or moved into the directory: an event is
\* queued while the directory is watched, and nobody hears of it otherwise.
FileWritten(p) ==
    /\ Booted /\ ~undefined /\ changes < MaxReloads
    /\ changes' = changes + 1
    /\ behind' = behind \cup {p}
    /\ events' = IF Watching THEN Append(events, p) ELSE events
    /\ UNCHANGED <<vars, hook>>

\* A directory is moved in: an event with IN_ISDIR.
DirectoryMoved(d) ==
    /\ Booted /\ ~undefined /\ changes < MaxReloads /\ Watching
    /\ changes' = changes + 1
    /\ events' = Append(events, d)
    /\ UNCHANGED <<vars, hook, behind>>

\* The thread that plugin_init started runs, unless its code was unmapped.
Runs(step) ==
    /\ hook = step /\ todo = <<>> /\ job[Loader] = Idle /\ ~undefined
    /\ Contains(pluginList, Autoload) /\ Autoload \in mapped

\* inotify_init and inotify_add_watch.
AddWatch ==
    /\ Runs("init")
    /\ hook' = "read"
    /\ UNCHANGED <<vars, events, behind, changes>>

\* The loop goes on to the last event of the buffer.
BugTaken == Last(events)

\* The loop breaks after the first event, whatever it is.
Taken == Head(events)

\* read() empties the queue into the buffer.  A file's event is handled by
\* load_new_plugin; a directory's by nothing.
ReadEvents ==
    /\ Runs("read") /\ events # <<>>
    /\ IF Taken \in Directories
       THEN UNCHANGED vars
       ELSE LoadNewPlugin(Taken)
    /\ hook' = "load"
    /\ events' = <<>>
    /\ UNCHANGED <<behind, changes>>

\* inotify_rm_watch without close(): the queue stays.
BugDropWatch ==
    /\ Runs("load")
    /\ hook' = "init"
    /\ UNCHANGED <<vars, events, behind, changes>>

\* load_new_plugin returned: inotify_rm_watch and close drop what was queued
\* meanwhile, and hook_change begins again.
DropWatch ==
    /\ Runs("load")
    /\ hook' = "init"
    /\ events' = <<>>
    /\ UNCHANGED <<vars, behind, changes>>

\* remove_plugin was called for the autoload plugin: its thread, once it is
\* not blocked in read() any more, runs into code that is gone.
RunsNowhere ==
    /\ Booted /\ ~undefined
    /\ Autoload \notin mapped
    /\ hook # "read" \/ events # <<>>
    /\ Undefined
    /\ UNCHANGED hookVars

\* get_plugins and load_new_plugin: dlopen reads the file as it is now.
Load ==
    /\ LoaderStep
    /\ behind' = IF todo' # todo THEN behind \ {Head(todo)} ELSE behind
    /\ UNCHANGED <<hook, events, changes>>

Removal(t) == RemoveStep(t) /\ UNCHANGED hookVars
Dispatch(t) == DispatchStep(t) /\ UNCHANGED hookVars
Raise(t, n) == RaiseRoot(t, n) /\ UNCHANGED hookVars

HookStep == AddWatch \/ ReadEvents \/ DropWatch \/ RunsNowhere

NextAutoload ==
    \/ Load
    \/ HookStep
    \/ \E p \in Written : FileWritten(p)
    \/ \E d \in Directories : DirectoryMoved(d)
    \/ \E t \in Threads : Removal(t)
    \/ \E t \in Readers : Dispatch(t) \/ \E n \in Names : Raise(t, n)

\* The threads run, as in PluginHandler; nobody need write a file.
FairAutoload ==
    /\ WF_allVars(Load)
    /\ WF_allVars(HookStep)
    /\ \A t \in Threads : WF_allVars(Removal(t))
    /\ \A t \in Readers : WF_allVars(Dispatch(t))

SpecAutoload == InitAutoload /\ [][NextAutoload]_allVars /\ FairAutoload
-----------------------------------------------------------------------------
(***************************************************************************)
(* Properties, beside those of PluginHandler.                              *)
(***************************************************************************)

\* The hook is where hook_change can be, and watches only as long as there
\* is a thread; events are queued only while it watches.
HookTypeOK ==
    /\ TypeOK
    /\ hook \in {"init", "read", "load"}
    /\ events \in Seq(Written \cup Directories)
    /\ events # <<>> => Watching
    /\ behind \subseteq Written
    /\ changes \in 0..MaxReloads

\* A plugin whose file is written while hook_change waits in read() and
\* nothing else is pending is passed to load_plugin as it then is, whatever
\* the readers do meanwhile and whatever is written after it; dlopen, dlsym
\* and plugin_init may refuse it.  (Of the files written before
\* hook_change waits again, only the first is promised that.)
NoticedIsLoaded ==
    \A p \in Written :
        (hook = "read" /\ events = <<p>>) ~> (p \notin behind \/ undefined)
=============================================================================
