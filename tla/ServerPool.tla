----------------------------- MODULE ServerPool -----------------------------
(***************************************************************************)
(* The life of the server connections: load_servers on the main thread     *)
(* opens them one by one, a server_recv thread reads each of them, and     *)
(* when one is lost the core plugin's server_rejoin starts a try_rejoin    *)
(* thread that replaces the connection and its reader.                     *)
(*                                                                         *)
(* The threads share server_list (under servers_global_mutex), the fields  *)
(* of each server (srv->s, motd_sent, rejoin_tries, srv->thread, mostly    *)
(* without a lock) and the process's descriptor table.  getaddrinfo is     *)
(* taken to succeed: its result is not checked.  One action is one         *)
(* step between two points where another thread can be seen: a locked      *)
(* region, a system call or an unlocked access to a shared field.          *)
(***************************************************************************)
EXTENDS Integers, Sequences, FiniteSets

CONSTANTS
    Servers,      \* the servers the configuration file may name
    Config,       \* the "servers" list of bcirc.conf, in file order, up to
                  \* an entry that lacks a setting, where load_servers ends
    Fds,          \* the descriptors the process may hold
    Threads,      \* the threads the process may hold beside the main one
    Main,         \* the main thread
    None,         \* no descriptor, no server, no thread
    Unconnected   \* what a socket is open to when its connect() failed

ASSUME ConfigAssumption ==
    /\ Config \in Seq(Servers)
    /\ \A i, j \in 1..Len(Config) : Config[i] = Config[j] => i = j

ASSUME FdsAssumption == Fds \subseteq Nat

ASSUME NamesAssumption ==
    /\ None \notin Servers \cup Fds \cup Threads
    /\ Unconnected \notin Servers \cup {None}
    /\ Main \notin Threads

VARIABLES
    serverList,   \* server_list[0 .. server_count-1]
    sock,         \* srv->s of each server, None before socket() and for -1
    conn,         \* the kernel's table: what each descriptor is open to
    motdSent,     \* srv->motd_sent
    rejoinTries,  \* srv->rejoin_tries
    thread,       \* srv->thread, the reader pthread_create last wrote there
    next,         \* the index i of the loop in load_servers
    pc,           \* where each thread is
    srv,          \* the server each thread works for
    detached      \* the threads that were detached

vars == <<serverList, sock, conn, motdSent, rejoinTries, thread, next, pc,
          srv, detached>>

Workers == Threads \cup {Main}

\* The steps a thread can be at while a server is its to change.
Opening == {"start", "remove", "connect", "register", "reset", "add", "spawn"}
Reading == {"recv", "close", "notify"}
\* The steps at which it no longer is, and those of a thread slot at rest:
\* "zombie" is a thread that ended without being detached or joined.
Resting == {"detach", "leave", "input", "free", "zombie"}
Steps == Opening \cup Reading \cup Resting
-----------------------------------------------------------------------------
FreeFds == {f \in Fds : conn[f] = None}
\* The descriptor socket() returns, a set of at most one.
LowestFreeFd == {f \in FreeFds : \A g \in FreeFds : f <= g}
FreeThreads == {u \in Threads : pc[u] = "free"}

\* The ascending enumeration of a finite set of indices, a set of one.
InOrder(I) ==
    {e \in [1..Cardinality(I) -> I] :
        /\ \A j, k \in DOMAIN e : j < k => e[j] < e[k]
        /\ \A i \in I : \E k \in DOMAIN e : e[k] = i}

\* The peer that gets what server_send writes to srv->s, None when the
\* descriptor is closed (any thread may call server_send at any time).
Receives(s) == IF sock[s] = None THEN None ELSE conn[sock[s]]

\* (Definitions named Bug... are mutations of the definition that follows:
\* what a mistake in that code would make of it.  Spec does not use them.)

\* The loop of load_servers runs once too often.
BugMainAt(i) == IF i <= Len(Config) + 1 THEN "connect" ELSE "input"

\* The next turn of the loop in load_servers, or get_input at its end.
MainAt(i) == IF i <= Len(Config) THEN "connect" ELSE "input"

\* Every turn of the loop takes the first element of the list.
BugMainServer(i) == IF i <= Len(Config) THEN Config[1] ELSE None

MainServer(i) == IF i <= Len(Config) THEN Config[i] ELSE None
-----------------------------------------------------------------------------
Init ==
    /\ serverList = <<>>
    /\ sock = [s \in Servers |-> None]
    /\ conn = [f \in Fds |-> None]
    /\ motdSent = [s \in Servers |-> FALSE]
    /\ rejoinTries = [s \in Servers |-> 0]
    /\ thread = [s \in Servers |-> None]
    /\ next = 1
    /\ pc = [t \in Workers |-> IF t = Main THEN MainAt(1) ELSE "free"]
    /\ srv = [t \in Workers |-> IF t = Main THEN MainServer(1) ELSE None]
    /\ detached = {}

Goto(t, step) == pc' = [pc EXCEPT ![t] = step]

\* server_connect succeeds: socket() takes the lowest free descriptor and
\* connect() opens it to the server, all under srv->mutex.
ServerConnect(t) ==
    /\ pc[t] = "connect"
    /\ \E fd \in LowestFreeFd :
          /\ sock' = [sock EXCEPT ![srv[t]] = fd]
          /\ conn' = [conn EXCEPT ![fd] = srv[t]]
    /\ motdSent' = [motdSent EXCEPT ![srv[t]] = FALSE]
    /\ Goto(t, "register")
    /\ UNCHANGED <<serverList, rejoinTries, thread, next, srv, detached>>

\* try_rejoin returns when its first attempt fails.
BugConnectFailed(t) ==
    /\ Goto(t, IF t = Main THEN "input" ELSE "zombie")
    /\ srv' = [srv EXCEPT ![t] = None]

\* What the callers of server_connect do when it does not return 1:
\* load_servers gives up, try_rejoin calls it again after a sleep.
ConnectFailed(t) ==
    IF t = Main
    THEN /\ Goto(t, "input")
         /\ srv' = [srv EXCEPT ![t] = None]
    ELSE UNCHANGED <<pc, srv>>

\* connect() fails: the descriptor stays open and the next attempt
\* overwrites srv->s, the only place it was kept.
ConnectRefused(t) ==
    /\ pc[t] = "connect"
    /\ \E fd \in LowestFreeFd :
          /\ sock' = [sock EXCEPT ![srv[t]] = fd]
          /\ conn' = [conn EXCEPT ![fd] = Unconnected]
    /\ ConnectFailed(t)
    /\ UNCHANGED <<serverList, motdSent, rejoinTries, thread, next, detached>>

\* socket() fails, there being no descriptor left: srv->s = -1.
SocketFails(t) ==
    /\ pc[t] = "connect"
    /\ FreeFds = {}
    /\ sock' = [sock EXCEPT ![srv[t]] = None]
    /\ ConnectFailed(t)
    /\ UNCHANGED <<serverList, conn, motdSent, rejoinTries, thread, next,
                   detached>>

\* The SERVER_CONNECTED callbacks: PASS, USER and NICK are sent on srv->s.
\* Then load_servers adds the server; try_rejoin sets two fields first.
HandleRegisteration(t) ==
    /\ pc[t] = "register"
    /\ Goto(t, IF t = Main THEN "add" ELSE "reset")
    /\ UNCHANGED <<serverList, sock, conn, motdSent, rejoinTries, thread,
                   next, srv, detached>>

\* try_rejoin leaves rejoin_tries to got_in.
BugResetAfterRejoin(t) ==
    /\ pc[t] = "reset"
    /\ motdSent' = [motdSent EXCEPT ![srv[t]] = TRUE]
    /\ Goto(t, "add")
    /\ UNCHANGED <<serverList, sock, conn, rejoinTries, thread, next, srv,
                   detached>>

ResetAfterRejoin(t) ==
    /\ pc[t] = "reset"
    /\ motdSent' = [motdSent EXCEPT ![srv[t]] = TRUE]
    /\ rejoinTries' = [rejoinTries EXCEPT ![srv[t]] = 0]
    /\ Goto(t, "add")
    /\ UNCHANGED <<serverList, sock, conn, thread, next, srv, detached>>

\* add_to_serverpool, the region under servers_global_mutex.
AddToServerpool(t) ==
    /\ pc[t] = "add"
    /\ serverList' = Append(serverList, srv[t])
    /\ Goto(t, "spawn")
    /\ UNCHANGED <<sock, conn, motdSent, rejoinTries, thread, next, srv,
                   detached>>

\* add_to_serverpool, pthread_create(&srv->thread, NULL, server_recv, srv).
SpawnReader(t) ==
    /\ pc[t] = "spawn"
    /\ \E u \in FreeThreads :
          /\ thread' = [thread EXCEPT ![srv[t]] = u]
          /\ pc' = [pc EXCEPT ![t] = "detach", ![u] = "recv"]
          /\ srv' = [srv EXCEPT ![u] = srv[t]]
    /\ UNCHANGED <<serverList, sock, conn, motdSent, rejoinTries, next,
                   detached>>

\* How a thread that is done with its server goes on: the main thread takes
\* the next server of the configuration, any other thread ends.  A detached
\* thread gives its slot back; one that was not stays until it is joined,
\* which nothing does.
Continue(t) ==
    IF t = Main
    THEN /\ next' = next + 1
         /\ Goto(t, MainAt(next + 1))
         /\ srv' = [srv EXCEPT ![t] = MainServer(next + 1)]
         /\ UNCHANGED detached
    ELSE /\ Goto(t, IF t \in detached THEN "free" ELSE "zombie")
         /\ srv' = [srv EXCEPT ![t] = None]
         /\ detached' = detached \ {t}
         /\ UNCHANGED next

\* pthread_create fails: the server is in the pool and nobody reads it.
\* Both callers ignore add_to_serverpool's result.
SpawnReaderFails(t) ==
    /\ pc[t] = "spawn"
    /\ FreeThreads = {}
    /\ Continue(t)
    /\ UNCHANGED <<serverList, sock, conn, motdSent, rejoinTries, thread>>

\* pthread_detach(srv->thread) reads the field again: by now it may name a
\* later reader of the server, or a slot that ended and was reused.
DetachReader(t) ==
    /\ pc[t] = "detach"
    /\ LET u == thread[srv[t]] IN
       IF pc[u] = "zombie"
       THEN /\ pc' = [pc EXCEPT ![t] = "leave", ![u] = "free"]
            /\ UNCHANGED detached
       ELSE /\ Goto(t, "leave")
            /\ detached' = IF pc[u] = "free" THEN detached ELSE detached \cup {u}
    /\ UNCHANGED <<serverList, sock, conn, motdSent, rejoinTries, thread,
                   next, srv>>

\* add_to_serverpool returns, or a reader returns from its callbacks.
Leave(t) ==
    /\ pc[t] = "leave"
    /\ Continue(t)
    /\ UNCHANGED <<serverList, sock, conn, motdSent, rejoinTries, thread>>

\* A reader receives RPL_WELCOME and got_in handles it.
GotIn(t) ==
    /\ pc[t] = "recv"
    /\ motdSent' = [motdSent EXCEPT ![srv[t]] = TRUE]
    /\ rejoinTries' = [rejoinTries EXCEPT ![srv[t]] = 0]
    /\ UNCHANGED <<serverList, sock, conn, thread, next, pc, srv, detached>>

\* select() times out or recv() returns 0 or an error: server_recv calls
\* server_disconnect with SERVER_TIMEOUT or SERVER_CLOSED_CONNECTION.
LoseConnection(t) ==
    /\ pc[t] = "recv"
    /\ Goto(t, "close")
    /\ UNCHANGED <<serverList, sock, conn, motdSent, rejoinTries, thread,
                   next, srv, detached>>

\* select() fails: server_recv returns, the connection stays open and nobody
\* is told.
SelectFails(t) ==
    /\ pc[t] = "recv"
    /\ Goto(t, "leave")
    /\ UNCHANGED <<serverList, sock, conn, motdSent, rejoinTries, thread,
                   next, srv, detached>>

\* server_disconnect closes the descriptor and leaves srv->s as it is.
ServerDisconnect(t) ==
    /\ pc[t] = "close"
    /\ conn' = IF sock[srv[t]] = None THEN conn
               ELSE [conn EXCEPT ![sock[srv[t]]] = None]
    /\ Goto(t, "notify")
    /\ UNCHANGED <<serverList, sock, motdSent, rejoinTries, thread, next, srv,
                   detached>>

\* server_recv's loop goes on after server_disconnect.
BugAfterDisconnect == "recv"

\* server_recv returns once server_disconnect did.
AfterDisconnect == "leave"

\* The SERVER_DISCONNECTED callbacks: server_rejoin starts try_rejoin.  It
\* looks at the reason, which is never SERVER_INTENTIONAL_DC here, and not
\* at srv->autorejoin.
ServerRejoin(t) ==
    /\ pc[t] = "notify"
    /\ \E u \in FreeThreads :
          /\ pc' = [pc EXCEPT ![t] = AfterDisconnect, ![u] = "start"]
          /\ srv' = [srv EXCEPT ![u] = srv[t]]
    /\ UNCHANGED <<serverList, sock, conn, motdSent, rejoinTries, thread,
                   next, detached>>

\* pthread_create fails in server_rejoin: no one will reopen the server.
ServerRejoinFails(t) ==
    /\ pc[t] = "notify"
    /\ FreeThreads = {}
    /\ Goto(t, AfterDisconnect)
    /\ UNCHANGED <<serverList, sock, conn, motdSent, rejoinTries, thread,
                   next, srv, detached>>

\* try_rejoin closes srv->s once more.
BugTryRejoin(t) ==
    /\ pc[t] = "start"
    /\ rejoinTries' = [rejoinTries EXCEPT ![srv[t]] = @ + 1]
    /\ conn' = [conn EXCEPT ![sock[srv[t]]] = None]
    /\ Goto(t, "remove")
    /\ UNCHANGED <<serverList, sock, motdSent, thread, next, srv, detached>>

\* try_rejoin up to the increment; its sleep, taken when rejoin_tries is not
\* 0, is a delay and no step of its own.
TryRejoin(t) ==
    /\ pc[t] = "start"
    /\ rejoinTries' = [rejoinTries EXCEPT ![srv[t]] = @ + 1]
    /\ Goto(t, "remove")
    /\ UNCHANGED <<serverList, sock, conn, motdSent, thread, next, srv,
                   detached>>

\* The comparison with srv is missing.
BugKeptEntries(s) == DOMAIN serverList

KeptEntries(s) == {i \in DOMAIN serverList : serverList[i] # s}

\* remove_from_serverpool copies every other entry, in order.
RemoveFromServerpool(t) ==
    /\ pc[t] = "remove"
    /\ \E kept \in InOrder(KeptEntries(srv[t])) :
          serverList' = [k \in DOMAIN kept |-> serverList[kept[k]]]
    /\ Goto(t, "connect")
    /\ UNCHANGED <<sock, conn, motdSent, rejoinTries, thread, next, srv,
                   detached>>

\* The steps a thread takes by itself, and what the network does to it.
ThreadStep(t) ==
    \/ ServerConnect(t)
    \/ SocketFails(t)
    \/ HandleRegisteration(t)
    \/ ResetAfterRejoin(t)
    \/ AddToServerpool(t)
    \/ SpawnReader(t)
    \/ SpawnReaderFails(t)
    \/ DetachReader(t)
    \/ Leave(t)
    \/ ServerDisconnect(t)
    \/ ServerRejoin(t)
    \/ ServerRejoinFails(t)
    \/ TryRejoin(t)
    \/ RemoveFromServerpool(t)

NetworkStep(t) ==
    \/ ConnectRefused(t)
    \/ GotIn(t)
    \/ LoseConnection(t)
    \/ SelectFails(t)

Next == \E t \in Workers : ThreadStep(t) \/ NetworkStep(t)

\* Every thread that can take a step of its own is scheduled, and a server
\* that refuses connections lets one in if it is tried again and again.
Fairness ==
    \A t \in Workers : WF_vars(ThreadStep(t)) /\ SF_vars(ServerConnect(t))

Spec == Init /\ [][Next]_vars
FairSpec == Spec /\ Fairness
-----------------------------------------------------------------------------
(***************************************************************************)
(* Properties.                                                             *)
(***************************************************************************)
Owns(t) == pc[t] \in Opening \cup Reading
Linked == {"register", "reset", "add", "spawn", "recv", "close"}

\* The range of every variable.
FieldTypes ==
    /\ serverList \in Seq(Servers)
    /\ sock \in [Servers -> Fds \cup {None}]
    /\ conn \in [Fds -> Servers \cup {None, Unconnected}]
    /\ motdSent \in [Servers -> BOOLEAN]
    /\ rejoinTries \in [Servers -> Nat]
    /\ thread \in [Servers -> Threads \cup {None}]
    /\ next \in 1..(Len(Config) + 1)
    /\ pc \in [Workers -> Steps]
    /\ srv \in [Workers -> Servers \cup {None}]
    /\ detached \in SUBSET Threads

\* Only the main thread runs load_servers and waits for input; a thread at
\* work has a server, and srv->thread was written before it is detached.
ThreadTypes ==
    /\ pc[Main] \in {"connect", "register", "add", "spawn", "detach", "leave",
                     "input"}
    /\ \A t \in Threads : pc[t] # "input"
    /\ \A t \in Workers :
          pc[t] \notin {"free", "zombie", "input"} => srv[t] \in Servers
    /\ \A t \in Workers :
          pc[t] = "detach" => thread[srv[t]] \in Threads

\* Every field holds a value of its range, and every thread is at a step of
\* a function it runs, with the argument that function needs.
TypeOK == FieldTypes /\ ThreadTypes

\* At most one thread at a time works for a server: a rejoin begins after
\* the old reader let go of it, and a new reader after the rejoin did, so
\* that the unlocked fields of srv have one writer.
OneOwner ==
    \A t, u \in Workers :
        Owns(t) /\ Owns(u) /\ srv[t] = srv[u] => t = u

\* server_list holds a server at most once, holds every server that is
\* being read, and none that is being reopened.
PoolExact ==
    /\ \A i, j \in DOMAIN serverList :
          serverList[i] = serverList[j] => i = j
    /\ \A t \in Workers :
          /\ pc[t] \in Reading \cup {"spawn"} =>
                \E i \in DOMAIN serverList : serverList[i] = srv[t]
          /\ pc[t] \in {"connect", "register", "reset", "add"} =>
                \A i \in DOMAIN serverList : serverList[i] # srv[t]

\* From the successful connect() until its own close(), srv->s is an open
\* descriptor whose other end is that server: PASS, USER and NICK go to it,
\* select() and recv() wait for it, and close() closes nobody else's
\* connection, although descriptors are reused.
OwnConnection ==
    \A t \in Workers : pc[t] \in Linked => Receives(srv[t]) = srv[t]

\* try_rejoin always finds rejoin_tries = 0, reset by the previous attempt
\* (core.c:325) or by got_in: the delay of 30 * (rejoin_tries + 1) seconds
\* at core.c:306 is never taken, however often the server drops the bot.
NeverBacksOff ==
    \A t \in Workers :
        /\ pc[t] \in Reading \cup {"start"} => rejoinTries[srv[t]] = 0
        /\ pc[t] \in Opening => rejoinTries[srv[t]] <= 1

\* While a thread is in server_recv's loop no other thread closes or
\* replaces the connection under it or clears motd_sent, which would make
\* get_chan_event drop the channel events of a live session.
Undisturbed ==
    [][\A t \in Workers :
          LET s == srv[t] IN
          pc[t] = "recv" /\ pc'[t] = "recv" =>
              /\ sock'[s] = sock[s]
              /\ conn'[sock[s]] = conn[sock[s]]
              /\ motdSent[s] => motdSent'[s]]_vars

Read(s) == \E t \in Workers : pc[t] = "recv" /\ srv[t] = s
Lost(s) == \E t \in Workers : pc[t] = "close" /\ srv[t] = s
Exhausted == FreeThreads = {} \/ FreeFds = {}

\* The servers whose turn in load_servers ended in add_to_serverpool.
LoadedCount == IF pc[Main] \in {"detach", "leave"} THEN next ELSE next - 1

Link == INSTANCE ServerLink WITH
    link <- [s \in Servers |->
                IF Read(s) THEN "up"
                ELSE IF \E i \in 1..LoadedCount : Config[i] = s THEN "down"
                ELSE "unloaded"],
    loaded <- LoadedCount

\* The threads implement the per-server life ServerLink promises: servers
\* come up in file order, and every later change of a link is one server's
\* loss or reopening, whatever the other threads do meanwhile.
LinkSpec == Link!Spec

\* A server whose connection was closed is read again, unless the process
\* runs out of threads or of descriptors.
RejoinsOrExhausted == \A s \in Servers : Lost(s) ~> (Read(s) \/ Exhausted)

\* server_send "Sends to server" (pymain.c:29): what is written for a
\* server reaches that server or nobody.
SendsToServer == \A s \in Servers : Receives(s) \in {s, None, Unconnected}
=============================================================================
