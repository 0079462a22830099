---------------------------- MODULE PluginHandler ----------------------------
(***************************************************************************)
(* The plugin table and the callback index of plugin_handler.c: loading    *)
(* and removing plugins, and execute_callbacks, which runs the callbacks   *)
(* registered for an event in order of priority.  A callback may itself    *)
(* raise an event, so that every thread has a stack of dispatches.         *)
(*                                                                         *)
(* The threads are the server_recv threads that raise events and Loader,   *)
(* which stands for the main thread while get_plugins runs and for the     *)
(* thread of the autoload plugin afterwards.  Nothing here takes a lock.   *)
(* A step is a visit to the shared tables: a lookup, the reading of one    *)
(* callback, the jump to it, the two ends of a change of the index, one    *)
(* dlclose.                                                                *)
(***************************************************************************)
EXTENDS Integers, SequencesExt

CONSTANTS
    Plugins,     \* the files of the plugin directory
    Directory,   \* the order in which readdir names them
    Registers,   \* what plugin_init of each plugin registers, in order
    MayFail,     \* the plugins whose plugin_init may refuse to run
    Broken,      \* the plugins whose file dlopen or dlsym may refuse
    Autoload,    \* the plugin whose thread watches the directory
    Callbacks,   \* the callback functions
    Names,       \* the events
    Event,       \* the event each callback is registered for
    Priority,    \* and its priority
    Owner,       \* and the plugin its code is in
    Results,     \* what each callback may return: "ok" stands for every code
                 \* execute_callbacks does nothing about
    Raises,      \* the events a callback may raise while it runs
    Roots,       \* the events server.c and main.c raise
    Executed,    \* CALLBACK_CALLBACKS_EXECUTED
    Readers,     \* the threads that raise events
    Loader,      \* the thread that loads plugins
    MaxReloads,  \* how many files the autoload plugin finds replaced
    None         \* no callback, no plugin

ASSUME PluginsAssumption ==
    /\ Directory \in Seq(Plugins) /\ IsInjective(Directory)
    /\ Registers \in [Plugins -> Seq(Callbacks)]
    /\ \A p \in Plugins : IsInjective(Registers[p])  \* each call makes a new record
    /\ \A p \in Plugins : \A i \in DOMAIN Registers[p] : Owner[Registers[p][i]] = p
    /\ MayFail \subseteq Plugins /\ Broken \subseteq Plugins
    /\ Autoload \in Plugins
    /\ None \notin Plugins \cup Callbacks

ASSUME CallbacksAssumption ==
    /\ Event \in [Callbacks -> Names]
    /\ Priority \in [Callbacks -> Int]
    /\ Owner \in [Callbacks -> Plugins]
    /\ Results \in [Callbacks -> SUBSET {"ok", "stop", "break", "fail"}]
    /\ Raises \in [Callbacks -> SUBSET Names]
    /\ Roots \subseteq Names
    /\ Executed \in Names

ASSUME ThreadsAssumption == Loader \notin Readers /\ MaxReloads \in Nat

VARIABLES
    pluginList,   \* plugin_list[0 .. plugin_count-1]
    status,       \* the status field of each plugin
    registered,   \* the callback_list of each plugin, empty once it is freed
    indexList,    \* the names of index_list[0 .. index_count-1]
    index,        \* and the callbacks under each name
    nameOwner,    \* the plugin whose string literal cb_name points to
    mapped,       \* the plugins whose code is in memory
    stack,        \* the dispatches each reader is in, innermost first
    job,          \* the load or removal each thread is in
    todo,         \* the files Loader has to load
    reloads,      \* the files found replaced so far
    undefined     \* undefined behaviour was met: nothing is promised any more

tables == <<pluginList, status, registered, indexList, index, nameOwner, mapped>>
loading == <<todo, reloads>>
vars == <<tables, stack, job, loading, undefined>>

Threads == Readers \cup {Loader}
Idle == [do |-> "nothing", plugin |-> None, at |-> 0, list |-> <<>>]
Frame(name, count) ==
    [name |-> name, i |-> 1, count |-> count, cb |-> None, inside |-> FALSE,
     raised |-> FALSE, gone |-> FALSE, called |-> {}]

Alone(t) == \A u \in Threads \ {t} : job[u] = Idle
InCallback(t) == stack[t] # <<>> /\ Head(stack[t]).cb # None /\ Head(stack[t]).inside
\* cb was read and not called yet.
Fetched(t) == stack[t] # <<>> /\ Head(stack[t]).cb # None /\ ~Head(stack[t]).inside
Dispatching(t) ==
    stack[t] # <<>> /\ Head(stack[t]).cb = None /\ job[t] = Idle /\ ~undefined

\* Two threads change the tables at once, or an access goes through a pointer
\* to memory that was freed or unmapped.  The process may die here or go on
\* with whatever it finds; the model ends.
Undefined == undefined' = TRUE /\ UNCHANGED <<tables, stack, job, loading>>
-----------------------------------------------------------------------------
Init ==
    /\ pluginList = <<>>
    /\ status = [p \in Plugins |-> "RUNNING"]
    /\ registered = [p \in Plugins |-> <<>>]
    /\ indexList = <<>>
    /\ index = [n \in Names |-> <<>>]
    /\ nameOwner = [n \in Names |-> None]
    /\ mapped = {}
    /\ stack = [t \in Readers |-> <<>>]
    /\ job = [t \in Threads |-> Idle]
    /\ todo = Directory
    /\ reloads = 0
    /\ undefined = FALSE

\* get_cb_index compares the name with those in index_list, in order; the
\* strings belong to the plugins that registered a callback for them first.
GetCbIndex(n) == Contains(indexList, n)
Compared(n) ==
    {indexList[i] : i \in {j \in DOMAIN indexList :
        \A k \in 1..(j - 1) : indexList[k] # n}}
Dangling(n) == \E m \in Compared(n) : nameOwner[m] \notin mapped

\* qsort with the comparison turned round.
BugIndexed(c, list) ==
    InsertAt(list, Min({i \in DOMAIN list : Priority[list[i]] < Priority[c]}
                            \cup {Len(list) + 1}), c)

\* Where compare_index and qsort, a stable merge sort for arrays of this
\* size, put a callback appended to a sorted array: before the first one
\* with a higher number.
Indexed(c, list) ==
    InsertAt(list, Min({i \in DOMAIN list : Priority[list[i]] > Priority[c]}
                            \cup {Len(list) + 1}), c)

\* remove_plugin, and remove_index, copy every other entry; the one left out
\* is there once at most.
Without(x, list) ==
    IF Contains(list, x)
    THEN RemoveAt(list, CHOOSE i \in DOMAIN list : list[i] = x)
    ELSE list

Unindexed(c, list) == Without(c, list)

\* The callback that is being put into the index or taken out of it.
InHand(t) ==
    CASE job[t].do = "index" -> Registers[job[t].plugin][job[t].at]
      [] job[t].do = "freed" -> registered[job[t].plugin][job[t].at]
      [] OTHER -> None

\* index_callback extends the array of n, so that a realloc may have freed
\* the one the index still names.
Growing(n) == job[Loader].do = "index" /\ Event[InHand(Loader)] = n
\* It extends index_list itself, for an event that has no entry yet.
ListMoves == \E n \in Names : Growing(n) /\ ~GetCbIndex(n)
\* remove_index freed the record of c, which the array still names.
RecordFreed(c) == \E t \in Threads : job[t].do = "freed" /\ InHand(t) = c

\* What cb_count may be: it changes before the array does.
Counts(n) ==
    {Len(index[n])}
        \cup (IF Growing(n) THEN {Len(index[n]) + 1} ELSE {})
        \cup (IF \E c \in ToSet(index[n]) : RecordFreed(c)
              THEN {Len(index[n]) - 1} ELSE {})

\* A lookup of n reads memory that is gone.
Astray(n) == Dangling(n) \/ ListMoves
-----------------------------------------------------------------------------
(***************************************************************************)
(* Loading.                                                                *)
(***************************************************************************)

\* get_plugins, or load_new_plugin, passes the next file to load_plugin:
\* dlopen, dlsym and plugin_init.  When one of the last two fails the plugin
\* is freed and its code stays mapped.
LoadPlugin ==
    /\ ~undefined /\ job[Loader] = Idle /\ todo # <<>> /\ Alone(Loader)
    /\ LET p == Head(todo) IN
          \/ /\ mapped' = mapped \cup {p}
             /\ job' = [job EXCEPT ![Loader] =
                          [Idle EXCEPT !.do = "register", !.plugin = p, !.at = 1]]
             /\ status' = [status EXCEPT ![p] = "RUNNING"]
             /\ registered' = [registered EXCEPT ![p] = <<>>]
          \/ /\ \/ p \in Broken /\ mapped' = mapped
                \/ p \in Broken \cup MayFail /\ mapped' = mapped \cup {p}
             /\ UNCHANGED <<job, status, registered>>
    /\ todo' = Tail(todo)
    /\ UNCHANGED <<pluginList, indexList, index, nameOwner, stack, reloads, undefined>>

\* A reader is removing a plugin when the load or the reload begins.
LoaderClashes ==
    /\ ~undefined /\ job[Loader] = Idle /\ todo # <<>> /\ ~Alone(Loader)
    /\ Undefined

\* register_callback for the next callback of the plugin: index_callback
\* looks the event up and begins to extend its array, or index_list.
RegisterCallback ==
    /\ ~undefined /\ job[Loader].do = "register"
    /\ LET p == job[Loader].plugin IN
       /\ job[Loader].at <= Len(Registers[p])
       /\ \/ Dangling(Event[Registers[p][job[Loader].at]]) /\ Undefined
          \/ /\ job' = [job EXCEPT ![Loader].do = "index"]
             /\ UNCHANGED <<tables, stack, loading, undefined>>

\* The sorted array, or the new entry, is there, and callback_list has the
\* callback.
IndexCallback ==
    /\ ~undefined /\ job[Loader].do = "index"
    /\ LET p == job[Loader].plugin
           c == Registers[p][job[Loader].at]
           n == Event[c]
       IN /\ registered' = [registered EXCEPT ![p] = Append(@, c)]
          /\ index' = [index EXCEPT ![n] = Indexed(c, @)]
          /\ indexList' = IF GetCbIndex(n) THEN indexList ELSE Append(indexList, n)
          /\ nameOwner' = IF GetCbIndex(n) THEN nameOwner ELSE [nameOwner EXCEPT ![n] = p]
    /\ job' = [job EXCEPT ![Loader].do = "register", ![Loader].at = @ + 1]
    /\ UNCHANGED <<pluginList, status, mapped, stack, loading, undefined>>

\* The rest of load_plugin, after plugin_init returned BCIRC_PLUGIN_OK.
AppendPlugin ==
    /\ ~undefined /\ job[Loader].do = "register"
    /\ job[Loader].at > Len(Registers[job[Loader].plugin])
    /\ pluginList' = Append(pluginList, job[Loader].plugin)
    /\ job' = [job EXCEPT ![Loader] = Idle]
    /\ UNCHANGED <<status, registered, indexList, index, nameOwner, mapped,
                   stack, loading, undefined>>

\* dlclose before the callbacks are taken out of the index.
BugRemovalOf(p) == [Idle EXCEPT !.do = "unindex", !.plugin = p, !.at = Len(registered[p]) + 1]

\* The loop over callback_list starts with its first entry.
RemovalOf(p) == [Idle EXCEPT !.do = "unindex", !.plugin = p, !.at = 1]

\* hook_change: a plugin's file was written; load_new_plugin removes the
\* plugin if it is in the list and loads the file.  The watching thread
\* exists once the autoload plugin was loaded, and still when its code is gone.
LoadNewPlugin(p) ==
    /\ ~undefined /\ job[Loader] = Idle /\ todo = <<>>
    /\ reloads < MaxReloads
    /\ Contains(pluginList, Autoload) \/ Autoload \notin mapped
    /\ IF Alone(Loader) /\ Autoload \in mapped
       THEN /\ reloads' = reloads + 1
            /\ todo' = <<p>>
            /\ job' = IF Contains(pluginList, p)
                      THEN [job EXCEPT ![Loader] = RemovalOf(p)]
                      ELSE job
            /\ UNCHANGED <<tables, stack, undefined>>
       ELSE Undefined
-----------------------------------------------------------------------------
(***************************************************************************)
(* remove_plugin, by whichever thread called it.                           *)
(***************************************************************************)

Removes(t, p) == job[t].do \in {"unindex", "freed"} /\ job[t].plugin = p

\* One remove_index for each entry of the plugin's callback_list: the record
\* is freed while the arrays are copied without it ...
FreeRecord(t) ==
    /\ ~undefined /\ job[t].do = "unindex"
    /\ job[t].at <= Len(registered[job[t].plugin])
    /\ job' = [job EXCEPT ![t].do = "freed"]
    /\ UNCHANGED <<tables, stack, loading, undefined>>

\* ... and the copy takes the place of the array, which is never freed.
RemoveIndex(t) ==
    /\ ~undefined /\ job[t].do = "freed"
    /\ LET c == registered[job[t].plugin][job[t].at] IN
          index' = [n \in Names |-> Unindexed(c, index[n])]
    /\ job' = [job EXCEPT ![t].do = "unindex", ![t].at = @ + 1]
    /\ UNCHANGED <<pluginList, status, registered, indexList, nameOwner,
                   mapped, stack, loading, undefined>>

\* dlclose, the frees, and the copying of the other plugins to new_list.
\* A dispatch that is inside the plugin's code has nowhere to return to, and
\* one that has just read a callback of it nothing to call.
Unload(t) ==
    /\ ~undefined /\ job[t].do = "unindex"
    /\ LET p == job[t].plugin IN
       /\ job[t].at > Len(registered[p])
       /\ ~(t = Loader /\ p = Autoload)
       /\ mapped' = mapped \ {p}
       /\ registered' = [registered EXCEPT ![p] = <<>>]
       /\ job' = [job EXCEPT ![t].do = "install",
                             ![t].list = Without(p, pluginList)]
       /\ stack' = [u \in Readers |->
                      [k \in DOMAIN stack[u] |->
                          [stack[u][k] EXCEPT !.gone =
                              @ \/ (stack[u][k].cb # None /\ Owner[stack[u][k].cb] = p)]]]
    /\ UNCHANGED <<pluginList, status, indexList, index, nameOwner, loading, undefined>>

\* The autoload thread closes the plugin its own code is in.
UnloadItself ==
    /\ ~undefined
    /\ Removes(Loader, Autoload)
    /\ job[Loader].at > Len(registered[Autoload])
    /\ Undefined

\* plugin_list = new_list.
InstallList(t) ==
    /\ ~undefined /\ job[t].do = "install"
    /\ pluginList' = job[t].list
    /\ job' = [job EXCEPT ![t] = Idle]
    /\ UNCHANGED <<status, registered, indexList, index, nameOwner, mapped,
                   stack, loading, undefined>>
-----------------------------------------------------------------------------
(***************************************************************************)
(* execute_callbacks.                                                      *)
(***************************************************************************)

\* What the frames of a thread may be when it calls execute_callbacks for
\* event n: none is added when the event has no index entry.
Entered(n, frames) ==
    IF GetCbIndex(n) THEN {<<Frame(n, count)>> \o frames : count \in Counts(n)}
    ELSE {frames}

\* main calls load_servers when get_plugins is done.
Booted == reloads > 0 \/ (todo = <<>> /\ job[Loader] = Idle)

\* server_recv, server_connect and the like raise an event.
RaiseRoot(t, n) ==
    /\ ~undefined /\ stack[t] = <<>> /\ n \in Roots
    /\ Booted
    /\ \/ Astray(n) /\ Undefined
       \/ /\ \E frames \in Entered(n, stack[t]) : stack' = [stack EXCEPT ![t] = frames]
          /\ UNCHANGED <<tables, job, loading, undefined>>

\* A callback raises an event, such as get_numeric CALLBACK_GOT_NUMERIC.
RaiseNested(t, n) ==
    /\ ~undefined /\ InCallback(t)
    /\ LET f == Head(stack[t]) IN
       /\ ~f.gone /\ ~f.raised /\ n \in Raises[f.cb]
       /\ \/ Astray(n) /\ Undefined
          \/ /\ \E frames \in Entered(n, <<[f EXCEPT !.raised = TRUE]>> \o Tail(stack[t])) :
                   stack' = [stack EXCEPT ![t] = frames]
             /\ UNCHANGED <<tables, job, loading, undefined>>

\* The loop stays where it is after BCIRC_PLUGIN_FAIL, as if the array had
\* moved up by the callback that failed.
BugNextAt(f) == IF "fail" \in Results[f.cb] THEN f.i ELSE f.i + 1

\* i++, whatever the callback did to the array.
NextAt(f) == f.i + 1

\* i < cb_count, the number of callbacks when the dispatch began.
More(f) == f.i <= f.count

\* callbacks[i] can be read: it is still there, although callbacks may have
\* been removed since cb_count was read, and neither it nor the arrays on
\* the way to it are being replaced by another thread.
Readable(f) ==
    /\ f.i <= Len(index[f.name])
    /\ ~Growing(f.name) /\ ~ListMoves
    /\ ~RecordFreed(index[f.name][f.i])

\* The next turn of the loop reads callbacks[i]->cb_func.
ReadCallback(t) ==
    /\ Dispatching(t)
    /\ LET f == Head(stack[t]) IN
       /\ More(f)
       /\ IF Readable(f)
          THEN /\ stack' = [stack EXCEPT ![t][1].cb = index[f.name][f.i],
                                         ![t][1].inside = FALSE,
                                         ![t][1].raised = FALSE,
                                         ![t][1].called = @ \cup {index[f.name][f.i]}]
               /\ UNCHANGED <<tables, job, loading, undefined>>
          ELSE Undefined

\* And calls it: a jump to nowhere when another thread has closed the plugin
\* in between.
CallCallback(t) ==
    /\ ~undefined /\ Fetched(t)
    /\ IF Head(stack[t]).gone
       THEN Undefined
       ELSE /\ stack' = [stack EXCEPT ![t][1].inside = TRUE]
            /\ UNCHANGED <<tables, job, loading, undefined>>

\* A callback returns to code that dlclose took away.
ReturnToNowhere(t) ==
    /\ ~undefined /\ InCallback(t) /\ Head(stack[t]).gone
    /\ Undefined

Returns(t, res) ==
    /\ ~undefined /\ InCallback(t)
    /\ ~Head(stack[t]).gone
    /\ res \in Results[Head(stack[t]).cb]

Proceed(t) ==
    stack' = [stack EXCEPT ![t][1].cb = None, ![t][1].i = NextAt(Head(stack[t]))]

\* BCIRC_PLUGIN_OK, and the codes nothing is done about.
ReturnOk(t) ==
    /\ Returns(t, "ok")
    /\ Proceed(t)
    /\ UNCHANGED <<tables, job, loading, undefined>>

\* BCIRC_PLUGIN_BREAK: the rest of the callbacks is not called, nor is
\* CALLBACK_CALLBACKS_EXECUTED raised.
ReturnBreak(t) ==
    /\ Returns(t, "break")
    /\ stack' = [stack EXCEPT ![t] = Tail(@)]
    /\ UNCHANGED <<tables, job, loading, undefined>>

\* BCIRC_PLUGIN_STOP: pause_plugin(plugin_list[i]), whichever plugin that is,
\* marks it and has no other effect: nothing reads the status.  The list may
\* have been freed, or a plugin of it, when another thread removes one.
ReturnStop(t) ==
    /\ Returns(t, "stop")
    /\ LET i == Head(stack[t]).i IN
       IF i \in DOMAIN pluginList /\ \A u \in Threads : job[u].do # "install"
       THEN /\ status' = [status EXCEPT ![pluginList[i]] = "PAUSED"]
            /\ Proceed(t)
            /\ UNCHANGED <<pluginList, registered, indexList, index, nameOwner,
                           mapped, job, loading, undefined>>
       ELSE Undefined

\* BCIRC_PLUGIN_FAIL: remove_plugin(plugin_list[i]), i being the place of the
\* callback among those of its event.  Past the end of the list it removes
\* nothing: the pointer read there is only compared.
ReturnFail(t) ==
    /\ Returns(t, "fail")
    /\ LET i == Head(stack[t]).i IN
       IF ~Alone(t)
       THEN Undefined
       ELSE /\ job' = IF i \in DOMAIN pluginList
                      THEN [job EXCEPT ![t] = RemovalOf(pluginList[i])]
                      ELSE job
            /\ Proceed(t)
            /\ UNCHANGED <<tables, loading, undefined>>

\* The comparison with CALLBACK_CALLBACKS_EXECUTED is missing.
BugAnnounced(n) == TRUE

\* The events whose end is announced: every event but that one.
Announced(n) == n # Executed

\* The loop is over: CALLBACK_CALLBACKS_EXECUTED is raised and
\* execute_callbacks returns.
FinishDispatch(t) ==
    /\ Dispatching(t)
    /\ LET f == Head(stack[t]) IN
       /\ ~More(f)
       /\ IF Announced(f.name)
          THEN \/ Astray(Executed) /\ Undefined
               \/ /\ \E frames \in Entered(Executed, Tail(stack[t])) :
                        stack' = [stack EXCEPT ![t] = frames]
                  /\ UNCHANGED <<tables, job, loading, undefined>>
          ELSE /\ stack' = [stack EXCEPT ![t] = Tail(@)]
               /\ UNCHANGED <<tables, job, loading, undefined>>
-----------------------------------------------------------------------------
LoaderStep ==
    \/ LoadPlugin
    \/ LoaderClashes
    \/ RegisterCallback
    \/ IndexCallback
    \/ AppendPlugin
    \/ UnloadItself

RemoveStep(t) ==
    \/ FreeRecord(t)
    \/ RemoveIndex(t)
    \/ Unload(t)
    \/ InstallList(t)

\* What a reader inside execute_callbacks does next.
DispatchStep(t) ==
    \/ \E n \in Names : RaiseNested(t, n)
    \/ ReadCallback(t)
    \/ CallCallback(t)
    \/ ReturnToNowhere(t)
    \/ ReturnOk(t)
    \/ ReturnBreak(t)
    \/ ReturnStop(t)
    \/ ReturnFail(t)
    \/ FinishDispatch(t)

Next ==
    \/ LoaderStep
    \/ \E p \in Plugins : LoadNewPlugin(p)
    \/ \E t \in Threads : RemoveStep(t)
    \/ \E t \in Readers : DispatchStep(t) \/ \E n \in Names : RaiseRoot(t, n)

\* The threads run; nothing obliges a server to send, or a file to change.
Fairness ==
    /\ WF_vars(LoaderStep)
    /\ \A t \in Threads : WF_vars(RemoveStep(t))
    /\ \A t \in Readers : WF_vars(DispatchStep(t))

Spec == Init /\ [][Next]_vars
FairSpec == Spec /\ Fairness
-----------------------------------------------------------------------------
(***************************************************************************)
(* Properties.                                                             *)
(***************************************************************************)
Frames ==
    [name: Names, i: Nat \ {0}, count: Nat, cb: Callbacks \cup {None},
     inside: BOOLEAN, raised: BOOLEAN, gone: BOOLEAN, called: SUBSET Callbacks]
Jobs ==
    [do: {"nothing", "register", "index", "unindex", "freed", "install"},
     plugin: Plugins \cup {None}, at: Nat, list: Seq(Plugins)]

\* Every variable holds a value of its range, and only the loop of
\* execute_callbacks that has a callback to call is at one.
TypeOK ==
    /\ pluginList \in Seq(Plugins)
    /\ status \in [Plugins -> {"RUNNING", "PAUSED"}]
    /\ registered \in [Plugins -> Seq(Callbacks)]
    /\ indexList \in Seq(Names)
    /\ index \in [Names -> Seq(Callbacks)]
    /\ nameOwner \in [Names -> Plugins \cup {None}]
    /\ mapped \in SUBSET Plugins
    /\ stack \in [Readers -> Seq(Frames)]
    /\ job \in [Threads -> Jobs]
    /\ todo \in Seq(Plugins)
    /\ reloads \in 0..MaxReloads
    /\ undefined \in BOOLEAN
    /\ \A t \in Readers : \A k \in DOMAIN stack[t] :
          stack[t][k].cb # None => stack[t][k].i <= stack[t][k].count

Removing(p) == \E t \in Threads : Removes(t, p)

\* However the dispatches interleave with the one load or removal that goes
\* on, and with the loads and removals that follow it, the callbacks under an
\* event are in order of priority, none is there twice, all belong to a
\* plugin that registered them, and those of a plugin nobody is removing are
\* all there.  (Two loads or removals at once end the model.)
IndexExact ==
    \A n \in Names :
        /\ \A i, j \in DOMAIN index[n] :
              i < j => /\ index[n][i] # index[n][j]
                       /\ Priority[index[n][i]] <= Priority[index[n][j]]
        /\ \A p \in Plugins :
              LET here  == {c \in ToSet(index[n]) : Owner[c] = p}
                  there == {c \in ToSet(registered[p]) : Event[c] = n}
              IN  here \subseteq there /\ (Removing(p) \/ here = there)

Reads(t) ==
    /\ stack[t] # <<>> /\ Len(stack'[t]) = Len(stack[t])
    /\ Head(stack[t]).cb = None /\ Head(stack'[t]).cb # None

\* What execute_callbacks reads out of the index for a call is code in
\* memory, also while another thread removes or reloads plugins: a callback
\* leaves the index before its plugin leaves memory.  Until it is called
\* only another thread can take that code away, never a removal that the
\* dispatch itself or one around it asked for.  (Nothing keeps the other
\* thread from doing so: the jump then goes nowhere, see CallCallback.)
ReadsLoadedCode ==
    [][\A t \in Readers :
          /\ Reads(t) => Owner[Head(stack'[t]).cb] \in mapped
          /\ Fetched(t) /\ Owner[Head(stack[t]).cb] \in mapped \ mapped'
                => \E u \in Threads \ {t} : Removes(u, Owner[Head(stack[t]).cb])]_vars

\* As long as no plugin is loaded meanwhile, no dispatch reads a callback for
\* a call twice, although callbacks are taken out of the array it walks through.
NoCallTwice ==
    [][\A t \in Readers :
          Reads(t) /\ reloads = 0
              => Head(stack'[t]).cb \notin Head(stack[t]).called]_vars

\* Every event that was raised has been dealt with in the end, the events
\* its callbacks raised and the announcement of its end included.
DispatchReturns ==
    \A t \in Readers : stack[t] # <<>> ~> (stack[t] = <<>> \/ undefined)

\* README.md:19-25 lists what the bot does ("URL title announcing", ...): the
\* plugins whose callbacks never fail stay loaded while the bot runs.
Reliable == {p \in Plugins : \A c \in Callbacks : Owner[c] = p => "fail" \notin Results[c]}
FeaturesStay ==
    [][\A p \in Reliable :
          Contains(pluginList, p) => Contains(pluginList', p)]_vars
=============================================================================
