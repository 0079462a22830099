# BCIRC in TLA+

BCIRC is an IRC bot in C: a core with one thread per server connection and
plugins that register callbacks for events. This directory models the parts of
it that keep shared state or hold a dialogue, checks them with TLC, and proves
their safety properties with TLAPS for every value of the constants (section 4). `PROJECT.json` lists every run, theorem, hazard and finding, and, for each definition, the source lines it
stands for; paths there begin at the repository's root as `src/`.

## 1. The system

| Part | Source | State | Operations |
|---|---|---|---|
| Server connections | `src/server.c`, `main.c`, `plugins/src/core/core.c` | `server_list`, `server_count` (under `servers_global_mutex`); per server `s`, `motd_sent`, `rejoin_tries`, `thread` (mostly unlocked); the descriptors of the process | `load_servers`, `server_connect`, `server_disconnect`, `server_send`, `server_recv`, `add_to_serverpool`, `remove_from_serverpool`, `server_rejoin`, `try_rejoin` |
| Registration | `core.c`, `src/irc_cmds.c`, plugins `nick`, `autojoin` | `nick`, `motd_sent` of a server | `handle_registeration`, `handle_nick`, `got_in`, `autojoin_channels`, `handle_ping`, `!nick`, INVITE |
| Outgoing queue | `src/irc.c` | `msg_list`, `msg_count`, `handler_started`, two mutexes, a condition, the history of sending times | `add_to_privmsg_queue`, `handle_privmsg_queue` |
| Plugin table and callback index | `src/plugin_handler.c`, plugin `autoload` | `plugin_list`, `index_list`, the `callback_list` of each plugin | `load_plugin`, `remove_plugin`, `register_callback`, `execute_callbacks`, `load_new_plugin` |
| Channel list | `src/channel.c`, plugins `channel-handler`, `events-handler` | `channel_list`, `channel_count`, `users` and topic of each channel | `get_channel`, `create_channel`, `add_user`, `remove_user`, `get_channel_users` |
| Event handlers | `plugins/src/events-handler/events.c` | none | `get_privmsg`, `get_numeric`, `get_chan_event` |
| Signals | `core.c` (`sig_handler`), `server.c` (`free_server`) | the pool | shutdown on SIGINT and SIGTERM |
| Autoload | `plugins/src/autoload/autoload.c` | an inotify watch | `hook_change`, `load_new_plugin` |
| Title | `plugins/src/title/` | `urls` and `urls.txt`; per message: retries, `found` | `check_for_url`, `http_request`, `write_callback`, `check_url`, `add_url`, `get_urls` |
| Weather | `plugins/src/weather/` | a static time of the last request, never set | `on_privmsg`, `http_request`, `write_callback` |
| Python bridge | `plugins/src/python/` | the interpreter | `py_execute_callbacks`, the `bcirc` module |
| Logging, logger | `src/log.c`, `plugins/src/logger/` | files | `bcirc_printf`, `bcirc_log`, `bcirc_escape_buf`, callbacks for most events |
| benis, `misc.c` | `plugins/src/benis/`, `src/misc.c` | none | text substitution, call stack printer |

**How they interact.** `main` loads the plugins, then the servers, then waits
for input. Each server has a `server_recv` thread. It raises
`CALLBACK_SERVER_RECV` for each line; `events.c` turns the line into further
events (numeric, PRIVMSG, channel event) by calling `execute_callbacks` again
from within a callback, and `execute_callbacks` itself raises
`CALLBACK_CALLBACKS_EXECUTED` at its end, which is how Python scripts hear of
everything. When a connection is lost the same thread runs `server_disconnect`,
whose event makes the core plugin start a `try_rejoin` thread, which makes a new
reader and ends. Messages go out directly (`server_send`) or through the queue,
which one handler thread empties. The autoload plugin has a thread that reloads
a plugin whose file changed, while readers are running callbacks. Title and weather
are callbacks for PRIVMSG that fetch something on the reader's own thread; they
share the message with every other callback, and the list of URLs with the other
readers. SIGINT and SIGTERM run `sig_handler` on whichever thread they interrupt.

**What is hard.** Several readers share the channel list, the pool, the plugin
table and the queue, partly without locks; a rejoin hands the fields of a server
from thread to thread; descriptors are reused; a callback may remove the plugin
whose loop is running it; the queue's handler waits on a condition without its
mutex; the bot writes down nicks the server has not confirmed; connections are
lost at any point and lines are cut by chunks; a signal handler takes locks and
reads the pool in the middle of what the other threads do; files change while
nobody watches; requests fail after their answer was used. The `hazards` of `PROJECT.json` list these at their lines.

**What makes each part correct.**

- Connections: one thread at a time works for a server, the pool lists exactly
  the servers that are read, a descriptor that is used is open to the server it
  is used for, lost servers come back.
- Registration: the bot settles on the nick the server has, joins its channels
  after the welcome, drops no channel event, answers PING.
- Queue: the count fits the array, messages keep their order and are sent once,
  calls return, what is accepted is sent.
- Plugins: the index holds what the loaded plugins registered, in order, and nothing
  of an unloaded one; dispatches end; a failing callback costs its own plugin.
- Channels: no duplicates, no lost creation, each reader works on its own.
- Received lines: what is handled is part of one line, in order, nothing lost but
  what a chunk cuts off; the log has the text as it was sent.
- Shutdown: every connected server is sent its QUIT, and the process ends.
- Autoload: a changed plugin that is noticed gets loaded.
- Title, weather: one answer to a message; the list of URLs is not lost.

## 2. The modules

| Module | Models | Run with |
|---|---|---|
| `ServerPool` | the threads of all servers, the pool, the descriptors | `MCServerPool` |
| `ServerLink` | abstract specification: the links of the servers as the rest of the bot sees them | refined by `ServerPool` |
| `ServerPoolProofs` | theorems about `ServerPool` | TLAPS |
| `Registration` | the dialogue of the bot with one server | `MCRegistration` |
| `PrivmsgQueue` | the outgoing queue | `MCPrivmsgQueue` |
| `PrivmsgQueueProofs` | theorems about `PrivmsgQueue` | TLAPS |
| `PluginHandler` | plugin table, index, dispatch, reload | `MCAutoload`, `MCPluginHandler` |
| `Channels` | channel list and channel events | `MCChannels` |
| `LineStream` | `server_recv`'s chunks, escaping, splitting into lines, logging | `MCLineStream` |
| `Shutdown` | composition: `sig_handler` over the threads of `ServerPool` | `MCShutdown` |
| `Autoload` | composition: the inotify thread over `PluginHandler` | `MCAutoload` |
| `Announcers` | title and weather on the messages of several readers | `MCAnnouncers` |
| `RegistrationProofs`, `ChannelsProofs`, `AnnouncersProofs`, `LineStreamProofs` | theorems about the module of that name | TLAPS |
| `ShutdownProofs` | theorems about `Shutdown`, on those of `ServerPoolProofs` | TLAPS |
| `AutoloadProofs` | theorems about `PluginHandler` and `Autoload` | TLAPS |

In all of them variables are named after the C variables, actions after the
functions (or the step of a function), and each action is one step between two
points where another thread can be seen.

**ServerPool.** `serverList` is `server_list`; `sock`, `motdSent`,
`rejoinTries`, `thread` are the fields of `server`; `conn` says what the other
end of each descriptor is, so that a stale `srv->s` can be told from a good one;
`pc`/`srv` say where each thread is and for whom; `detached` and the steps `free`
and `zombie` account for threads. `ServerConnect` takes the lowest free
descriptor, as the kernel does. `ConnectRefused` keeps it open, as the code does.
`AddToServerpool`, `SpawnReader` and `DetachReader` are three steps because the
new reader runs before `pthread_detach`. The result of `getaddrinfo` is not
checked in the code (`server.c:46`); the model takes the lookup to succeed. The
setting `autorejoin` is read by `load_servers` and never used, so that it is not
in the model. The refinement to `ServerLink` maps a link to "up" when a
thread is in the loop of `server_recv` for it.

**Registration.** One queue of lines each way. The bot's handlers are the
actions `HandleNick`, `NickCommand`, `GotIn`, `HandlePing`, `ChanEvent`; the
server and its users are an environment (marked external in the map): a taken
nick is refused, the first accepted one is welcomed, a JOIN of a registered
client is echoed, other users take and give up nicks. A nick is a base and a
number of underscores; no string is built. `Connect` has the effect of
`server_connect` together with what its caller writes before the reader starts:
`motd_sent` is 0 the first time and 1 after `try_rejoin`.

**PrivmsgQueue.** `msg_count++` and `msg_count--` are a load and a store, since
the handler may do them without the mutex. A mutex does not know its owner
(`PTHREAD_MUTEX_DEFAULT` of glibc), so that `pthread_cond_wait` and
`pthread_mutex_unlock` free whoever holds it.

**PluginHandler.** Each reader has a stack of dispatches. A dispatch remembers
`cb_count` from its start and reads `callbacks[i]` afresh, as the loop does
(`ReadCallback`); the jump is a step of its own (`CallCallback`), since another thread
may close the plugin in between. The changes of the index have two ends, between which
dispatches go on: `RegisterCallback` and `IndexCallback` are the beginning and the end of
`index_callback`, `FreeRecord` and `RemoveIndex` those of `remove_index`. Meanwhile an
array may have been freed by `realloc` (`Growing`, `ListMoves`), a record be freed but
still listed (`RecordFreed`), and `cb_count` be what it was or what it will be (`Counts`).
`LoadPlugin` stands for `dlopen`, `dlsym` and `plugin_init`, each of which may refuse the
file; what the last two refuse stays mapped, as its handle is thrown away. (When the same
file was loaded before, `dlclose` only gives back one of two references; the model takes
the code to be unmapped all the same.)
`undefined` is a terminal state entered where C promises nothing (reading past
the array or in one that is being replaced, comparing with an unmapped name, jumping to
unmapped code, two threads changing the tables at once). `register_callback` puts a callback behind those of the same or a lower priority
(`Indexed`); `remove_plugin` copies the list without the plugin (`Without`). The
instance `MCPluginHandler` takes plugins, events, priorities and
return codes from the source of the plugins.

**Channels.** A reader stands for its server. `get_channel` reads the count
without the mutex, compares under it, and reads the entry again after releasing
it; `create_channel` reallocates and stores under it. `stale` records the readers
that read the array while it was being reallocated. `remove_user`'s endless loop
when the nick comes first, and its uses of uninitialised memory, are choices over
their outcomes.

**LineStream.** A byte is a pair of a line's number and a place in it, so that what is
handled can be compared with what was sent. `stream` is what the socket still holds,
`buf` is `to_tokenized` from `strtok_r`'s save pointer on. `Receive` takes a chunk of
any length up to `sizeof tmpbuf` and passes it through `Escaped`, which doubles every
percent sign and loses the last character, as `bcirc_escape_buf` does; `HandleLine`
raises one piece and logs it, formatted once more as `bcirc_log` does. Both copy in a
loop that sometimes passes over a character (`Loop`): the escaping doubles the first of
two percent signs in a row and leaves out the second, the formatting writes the pair as
one, so that the log has one where two were sent (`Singled`). `Garbled` stands in the log where a
conversion has no argument, and for whatever follows it. `LoseConnection`
drops what was not received. The byte `tmpbuf[512]`, to which a full chunk writes its
terminator, is not part of the array; the model takes that write to do no harm.

**Shutdown.** Each step of `ServerPool` is one of `PoolStep`, taken only by threads that
are not interrupted, and waiting for the pool's mutex where a signal hit its holder (`locked`).
`sending` are the threads that were hit inside their server's mutex: in `server_connect`,
or in a `server_send` that a callback of their server made. `quit`'s own `server_send`
locks it to count the bytes (`CountSent`, `server.c:111`) and waits for ever if the server
is that thread's.
`handler[t]` says where `sig_handler` is on thread `t`; each of the four calls reads
`server_list[0]` (`ReadFirst`) before it acts, since other threads run in between.
`ended` is "exit" for `exit(EXIT_SUCCESS)`, "crash" for reading through a NULL list, and
"rejoin" for `try_rejoin` on another thread reading the strings `free_server` has freed: with one server in the pool and nobody else changing it, `free_server`
always meets a NULL list. `due` holds who is owed a QUIT.

**Autoload.** `hook` is the place in `hook_change`, `events` the kernel's queue, `behind`
the plugins whose file is newer than what was loaded. The thread is `PluginHandler`'s
`Loader`, once `get_plugins` is done: `ReadEvents` gives it the first file, `Load` are
its steps, `DropWatch` loses what was queued meanwhile.

**Announcers.** A message passes through `on_privmsg`, `check_for_url` and `add_url` in
load order (`weatherFirst`), with `text` the shared parameters of that dispatch. Of its
text only the command counts and where the first link stands: `strtok_r` in `on_privmsg`
cuts a command after its first word (`FirstWord`), so that a link further on is gone for
title and one in that word is not. The list
of URLs is `urls` with `nul`, the lines that end in a NUL instead of a newline: the
string another reader sees ends at the first of them. `Token` and `Restore` go line by
line, `Measure` and `Save` are apart because the array is sized by the first and filled
by the second. A request for a page is `HttpRequest`, any number of `ReceiveChunk`s, each
a call of `write_callback` that may find a title, and `RequestEnds`, which may come at any
moment and as a failure. `undefined` is entered when
memory in use by another reader is freed or moved, or the copy does not fit.

## 3. The runs

| Run | Bounds | States | Shows |
|---|---|---|---|
| `ServerPool_safety` | 2 servers, 4 threads, 2 descriptors, threads symmetric | 295k | `TypeOK`, `OneOwner`, `PoolExact`, `OwnConnection`, `NeverBacksOff`, `Undisturbed`, refinement `LinkSpec` |
| `ServerPool_live` | 1 configured server, 4 threads, 3 descriptors | 58k | `RejoinsOrExhausted` |
| `Registration` | 2 bases, 1 channel, nicks up to one underscore, 2 requests, 1 loss | 31k | `NickSettles`, `NothingMissed`, `JoinsChannels`, `PingsAnswered` |
| `PrivmsgQueue` | 2 callers, 3 calls, queue of 2, history of 2 | 154k | `CountBounded`, `OneProducer`, `QueueExact`, `CallsReturnUnlessRefused` |
| `Autoload` | 6 plugins, 1 reader, 2 changes of the directory | 125k | `IndexExact`, `ReadsLoadedCode`, `NoCallTwice`, `DispatchReturns`, `NoticedIsLoaded` |
| `Channels` | 2 servers, 2 names, 1 nick, 3 events | 50k | `NoDuplicates`, `OwnChannel`, `OnlyAppends`, `EventsReturn` |
| `Shutdown` | 2 servers, 3 threads, 2 descriptors, 1 signal, 1 fault of the network | 474k | `SaysGoodbye`, `ShutdownEnds` |
| `LineStream` | 2 lines of up to 4 characters, chunks up to 5, 1 loss | 22k | `PartOfOneLine`, `LogReadsAsSent`, `LinesHandled` |
| `Announcers` | 2 readers, 2 messages of 4 kinds, weather reports of up to 2 pieces, 3 initial files | 463k | `AnsweredOnce`, `UrlsWhole`, `MessageHandled` |

Each passing run checks its module's type invariant as well.

**Why the bounds are enough.** *ServerPool*: with two servers a descriptor of one
can be reused by the other, and a failing first server keeps the second out; four
threads are two readers and two rejoins, one more of each than a server needs, and
running out of them is reached; two descriptors are the least with which both
servers are up, and one refused attempt already leaves one of them to be fought
over (the same run with three descriptors has 653k states and shows the same). *PrivmsgQueue*: with a queue of two and three
calls the queue fills, a call finds it full, and the overlaps of `++` and `--`
happen; the third message is the first the history lets be dropped.
*Autoload*: six plugins (with `get_privmsg` left out, which only repeats `get_numeric`) are enough for a place in the index and a place in
the list to disagree, and for nested dispatches three deep; one reload overlaps
any dispatch, and a second change comes while the first is loaded, before the new
watch or after it. *Channels*: three events are a creation, its search by the same
reader, and a creation by the other between them. *Registration*: two requests
are a `!nick` crossing a refusal, two of them in a row, or an INVITE between
the welcome and the echo; one loss gives a first session and a rejoined one;
underscores beyond one do not occur, which `TypeOK` says. *Shutdown*: two servers are
needed for `server_list[0]` to change under the handler, the third thread lets one of
them be reopened meanwhile, one fault is a loss or a refusal at any moment.
*LineStream*: chunks of every length up to five cut two short lines everywhere,
between CR and LF and inside a pair of percent signs included, and hold the end of one
line with the beginning of the next. *Announcers*: two readers can cut the list short
for each other and free it under each other, both of which take one message each; the
messages are `!addurl`, commands with a link on either side of the first blank, and one that
is no command; the pieces of a page are not bounded, since what `write_callback` keeps of
them is, and four requests are the code's limit. Bounds are the
constants `Max...` and appear in the guards of the actions they limit; `Threads`
and `Fds` bound what the process may hold, which real processes bound as well.

**Deadlock.** It is checked for `Registration`. The other runs allow it, since the
modelled programs can stop: a process without threads or ended by a signal, an empty
queue, an `undefined` state, a bound used up.

**Fairness.** Threads that can run are scheduled (weak fairness of their steps).
Strong fairness is used where the operating system's promise is of that kind: a
thread waiting for a mutex that is free again and again gets it, and a server
that refuses connections accepts one in the end (`ServerConnect`), without which
no reconnecting loop could end. Nothing makes a server send, a connection fail,
a user ask, a file change or a condition wake up by itself. In `Registration` the
server's answers are fair; taking and giving up nicks is not. In `Shutdown` only the
interrupted thread is scheduled; what the others do can only disturb it. In `Announcers`
a request ends because curl has a timeout of three seconds; it need not succeed.

### What does not hold

Three runs end in a counterexample to what a comment, a message or the
documentation says. Each is a shortest run of the model and reads as a
scenario of the code.

- `ServerPool_send` / `SendsToServer`: `srv->s` keeps its number after `close`; what
  is sent for that server goes to whoever got the number.
- `PrivmsgQueue_sent` / `AcceptedIsSent`: the signal between the handler's test and its
  wait is lost, and the message stays.
- `PluginHandler_features` / `FeaturesStay`: `BCIRC_PLUGIN_FAIL` removes the plugin at
  the callback's place in the index.

Other weak points of the code are the exceptions that properties have to make. Each is
reachable in the run:

- `RejoinsOrExhausted`: each refused attempt of `try_rejoin` leaks a descriptor
  (`server.c:53`), and rejoin threads are never joined; at the limit a server stays lost.
- `LinkSpec`: a server that refuses the first connection ends `load_servers`
  (`server.c:272`), so that those after it in the file are never loaded.
- `CallsReturnUnlessRefused`: a call that finds the queue full returns with `local_mutex`
  locked (`irc.c:48`), and every later call blocks.
- `EventsReturn`: `remove_user` goes round for ever when the nick comes first.
- `ShutdownEnds`: a signal that hits a thread inside `servers_global_mutex`, or a reader
  inside the mutex of its server while it counts what it sent (`server.c:111-113`, after a
  PONG for instance), blocks for ever.
- `ReadsLoadedCode`: what is read for a call is loaded, but another thread may close the
  plugin before the jump three lines on (`plugin_handler.c:377-380`), which ends in `undefined`.
- `IndexExact`, `DispatchReturns`: a load and a removal at the same time, and a dispatch
  that reads an array being replaced, end in `undefined`; nothing in the code keeps them apart.
- `LogReadsAsSent`: two percent signs in a row are logged as one.
- `AnsweredOnce`: `!weatherhttp://x/ London` gets a report and the title of a page, also
  with weather loaded first.
- `SaysGoodbye`: when another thread changes the pool while the handler runs, the four
  reads of `server_list[0]` may name different servers.
- `NoticedIsLoaded`: only the first event is handled, and files written before the new
  watch is set up are missed (`autoload.c:110-116`).
- `PartOfOneLine`, `LinesHandled`: the last character of every chunk is dropped
  (`log.c:48`); it is harmless only when the chunk ends with LF.
- `UrlsWhole`: two readers in `check_url` at once can cut the list short for good, until
  the plugin is loaded again. The list decides nothing in any case: `check_url` is true
  whenever there is one (`urls.c:36`), and `!addurl` has an effect only while there is none.

`NeverBacksOff` holds and is worth a look all the same: it says that the growing delay
of `try_rejoin` is never taken, because `rejoin_tries` is reset by the connection
itself and not by its lasting.

## 4. The proofs

Every safety property of the passing runs is a theorem for all values of the constants.
The assumptions are the named `ASSUME`s of the modules,
which say what the constants are (finite or not, a bound is a natural number, a name that
stands for "nobody" is nobody) and what is said below. Each inductive invariant was
checked by TLC on the instance of the module's run before it was proved.

Each module's proof has the same shape: an invariant in named parts, a lemma that it
holds at first, one lemma or step per action and under it one per part the action can
disturb, a theorem `Invariance`, and the properties as consequences.

| Module | Proved | Resting on |
|---|---|---|
| `ServerPoolProofs` | `TypeOK`, `OneOwner`, `PoolExact`, `OwnConnection`, `NeverBacksOff`, `Undisturbed`, the refinement `LinkSpec` | `IInv`, `FullInv` |
| `ShutdownProofs` | `HandlerTypeOK`, `OneOwner` under the handler, `SaysGoodbye` for one signal | `HInv`, `SInv` |
| `PrivmsgQueueProofs` | `TypeOK`, `CountBounded`, `OneProducer`, `QueueExact` | `IInv`, `ExactInv` |
| `AutoloadProofs` | `HookTypeOK`, `IndexExact`, `ReadsLoadedCode`, `NoCallTwice` | `IInv`, `AInv` |
| `ChannelsProofs` | `TypeOK`, `NoDuplicates`, `OwnChannel`, `OnlyAppends` | `IInv` |
| `RegistrationProofs` | `TypeOK`, `NickSettles`, `NothingMissed` | `IInv` |
| `AnnouncersProofs` | `TypeOK`, `AnsweredOnce`, `UrlsWhole` | `IInv` |
| `LineStreamProofs` | `TypeOK`, `PartOfOneLine`, `LogReadsAsSent` | `IInv` |

**ServerPool.** `OneOwner` is not inductive. When `load_servers` goes on to the next
server, nothing in `OneOwner` excludes that a thread works for that server already. What
excludes it is that nobody touches a server before its turn (`LaterUntouched`), which in
turn needs to know whom the main thread is working for (`MainTurn`) and that the
configuration names a server once (`ConfigAssumption`). Everything else is a handing
over: the reader that loses a connection starts `try_rejoin` in the step in which it
leaves, and `SpawnReader` leaves with the step in which the new reader begins.
`FullInv` adds the pool (`PoolExact`, with what a server about to be added lacks,
`FreshNotPooled`), the counters (`TriesReset`), the descriptors (`OwnConnection`) and that
a thread works for loaded servers only (`OwnedLoaded`). All of it rests on `OneOwner`: a step
changes the fields of the one server its thread owns. `remove_from_serverpool` rebuilds the
list, and the lemmas about filtering say what is kept, and in which order. The
refinement maps the first state to the first state and each action to one step of
`ServerLink` or to a stutter.

**Shutdown.** The handler moves no thread, so `IInv` of `ServerPool` survives it, but
`FullInv` does not: the handler closes descriptors and takes servers out of the pool
under threads that work for them. `SInv` says what is left for the servers that are
`due` a QUIT, as long as no other thread has changed the pool (`disturbed`): each is in the pool and connected
and no thread can close that connection for another server (`Owed`), and the handler works
on the first of the pool, whose QUIT is sent before it is closed (`InTurn`).
`OneSignalSaysGoodbye` assumes `MaxSignals = 1`: with a second signal on another thread
two handlers take turns at `server_list[0]`, and what one does to the pool under the other
is not what `disturbed` records. The other theorems hold for any number of signals.

**PrivmsgQueue.** The strengthening `IInv` says that a caller inside the function holds
`local_mutex` (`HoldsLocal`) and that the one on its way to create the handler's thread has
seen `handler_started` unset (`HandlerOnce`), so that one caller at a time counts; that such
a caller still has room after the test for a full queue, since the handler can only make
room (`RoomLeft`); and that the handler, from its test for an empty queue to its write of
`msg_count`, has read a positive count (`CountsServed`), since callers only add. The
argument never uses that `global_msglist_mutex` is held, as it need not be: the bounds
survive the lost updates that `QueueExact` has to exclude with `raced`. For
`QueueExact` the state between two looks at the queue at rest is spelled out: which part of
what was accepted the list, or the handler's new list, holds at each step (`ListExact`),
how `msg_count` and the two registers stand to it (`CountExact`), what has been sent
(`SentExact`); and why: the handler that begins with the mutex free keeps callers out
(`ServesAlone`), and messages are told apart (`FreshInv`).

**PluginHandler and Autoload.** The invariant has six parts: loads and removals exclude
each other, or the model ends in `undefined` (`JobInv`); what each step of a load or a
removal has done to the tables so far (`PluginInv`); the index is in order and holds what
is registered, up to the place `remove_plugin` has come to (`IndexInv`); no dispatch began
before the directory was loaded (`StartedLate`); and what a dispatch has called is behind the
place its loop is at (`StackInv`), which is what makes `NoCallTwice` true although failing
callbacks take entries out in front of it. A step of the composition is a step of the
table or a stutter of it (`AutoloadInvariance`), so the action properties are proved once
for both. `PluginsAssumption` takes from the code that `malloc` makes each registration a record of its
own, and that the directory names a file once.

**Channels.** What a reader knows of the list between two critical sections must stay
true while others append: the entries before its index are not the channel it wants
(`Searched`), and new entries belong to other readers' servers, since a reader creates
for its own (`OnlyNamed`). `Budget` relates the channels to the events they were created by.

**Registration.** `NickSettles` speaks of a moment when nothing is under way. What holds
always is that the last NICK on its way to the server carries `srv->nick` (`LastSent`)
and that no channel event comes before the welcome (`WelcomeFirst`).

**Announcers.** What every step of `check_url`, `add_url` and `get_urls` can rely on: there is a
list (`Holding`), it is a beginning of the file while it is built (`Rebuilt`) and the whole of it
otherwise (`Complete`), and as long as readers have not overlapped the one that uses it takes back every cut
(`Sole`). `AnsweredOnce` rests on how far the answer to a message has come (`OneTitle`,
`ReportAlone`).

**LineStream.** The invariant says where every cell is: the socket holds whole lines but
for the beginning of the first (`StreamInv`); the buffer is the copy of the rest `s` of one
chunk, whose last cell is cut (`Chunk`); and handled pieces, `s` and the socket follow each
other as they were sent. `PieceInv` keeps, beside the last piece, the part of a line it was
made of, and its text in the log (`Made`). `Doubled` and `Formatted` are loops
(`Loop`), recursive functions over a text of any length. The induction theorems are out of
reach, so each fact about them is had from a shortest counterexample (`Shortest`,
from `WFMin` of `WellFoundedInduction`): the first turn of the loop leaves a shorter text
(`DblStep`, `FmtStep`), for which the fact holds, so it holds for this one. The facts that carry
the proof: texts that do not meet in two `%` are copied one by one (`DblConcat`), so the
copy of a chunk is cut where the chunk would be (`ChunkSplits`, `TokenIs`); formatting undoes
doubling, two percent signs in a row becoming one (`FmtOfDbl`), but for a garbled end when the copy lacks its last character
(`FmtOfFront`); and consecutive cells without a delimiter are a part of one line (`OneLine`).

**Only model-checked.** All liveness (`RejoinsOrExhausted`, `CallsReturnUnlessRefused`, `DispatchReturns`,
`NoticedIsLoaded`, `EventsReturn`, `ShutdownEnds`, `LinesHandled`, `MessageHandled`,
`JoinsChannels`, `PingsAnswered`), which TLAPS cannot prove. `LinkSpec` states no fairness.

## 5. Plan

Next, models: a composition of `Channels` and `ServerPool` over rejoins, where the topics and
users of an earlier session remain.

## 6. Not modelled, and why

- Formatting beyond percent signs, the tokenising of a line into its parts, time prefixes
  and names of log files: data without shared state.
- PASS and USER, PART, QUIT, channel keys, topics: sent or stored once, read by
  their own reader only.
- The CPython API, libcurl, libconfig and the resolver: libraries; they appear by
  what the code does with their results, or not at all.
- The Python bridge beyond its callback: `load_script` allocates the size of a pointer for
  a script (`pymain.c:63`) and writes its fields beyond it, and readers call into the
  interpreter without its lock. A model would have to begin in `undefined`.
- Locks inside `malloc` and stdio that an interrupted thread may hold when
  `sig_handler` prints or frees; a server's mutex in the hands of an interrupted thread that
  is not its own, the one of the outgoing queue or one running a Python script; a signal on a
  thread that is handling one; SIGPIPE.
- The stack of `hook_change`, which calls itself with 32 KB of buffer for every event.
- `entities.c` (a table), `misc.c` (nothing calls it), `benis` and the Python scripts (no
  state).
- Memory safety below the grain of the models, such as the short allocation in
  `handle_nick` (`core.c:255`): the models describe builds in which it goes unnoticed,
  or end in a state after which nothing is promised.
