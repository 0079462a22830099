------------------------------ MODULE Shutdown ------------------------------
(***************************************************************************)
(* SIGINT and SIGTERM over the server pool.  sig_handler runs on top of    *)
(* whichever thread the signal interrupts; that thread never goes on.  All *)
(* other threads run on beside the handler until the process ends: their   *)
(* steps are those of ServerPool.                                          *)
(*                                                                         *)
(* The handler takes no lock where it reads server_count and               *)
(* server_list[0].  It passes server_list[0] to four functions in turn and *)
(* reads it anew for each, so that free_server gets the server after the   *)
(* one just closed; server_list is NULL once the pool is empty.  Two       *)
(* mutexes are in its way: server_send takes that of the server, to count  *)
(* the bytes sent, and remove_from_serverpool that of the pool.            *)
(*                                                                         *)
(* An interrupted thread is taken to be at the beginning of its step,      *)
(* inside one of these mutexes or outside.  It is taken to be outside the  *)
(* locks of the C library, which the handler's malloc and printf take; and *)
(* it is one of ServerPool's, not the thread of the outgoing queue, which  *)
(* takes the mutex of a server as well.                                    *)
(***************************************************************************)
EXTENDS ServerPool

CONSTANTS
    MaxSignals,   \* how many signals arrive, each on another thread
    MaxFaults     \* how many connections are lost or refused

ASSUME BoundsAssumption == MaxSignals \in Nat /\ MaxFaults \in Nat

VARIABLES
    handler,   \* where sig_handler is on each thread
    arg,       \* the server_list[0] it read last
    locked,    \* the interrupted threads that hold servers_global_mutex
    sending,   \* the interrupted threads that hold the mutex of their server
    freed,     \* the servers whose strings free_server gave back
    ended,     \* how the process ended: by the handler's exit(), a crash of
               \* the handler or one of try_rejoin, "no" while it runs
    due,       \* connected members of the pool that are owed a QUIT
    disturbed, \* another thread changed the pool since the first signal
    faults     \* what the network did so far

handlerVars ==
    <<handler, arg, locked, sending, freed, ended, due, disturbed, faults>>
allVars == <<vars, handlerVars>>

HandlerSteps == {"none", "test", "quit", "send", "sent", "disconnect",
                 "close", "remove", "lock", "free"}

\* Where a thread may be inside srv->mutex: server_connect takes it twice, and
\* the callbacks of a connection and of received lines call server_send.
TakesServer == {"connect", "register", "recv"}
-----------------------------------------------------------------------------
Handling == {t \in Workers : handler[t] # "none"}
Running(t) == ended = "no" /\ handler[t] = "none"
At(t, step) == ended = "no" /\ handler[t] = step
GoTo(t, step) == handler' = [handler EXCEPT ![t] = step]
\* The call that was passed arg returns.
Returns(t, step) == GoTo(t, step) /\ arg' = [arg EXCEPT ![t] = None]
Connected(s) == Receives(s) = s
ServerHeld(s) == \E t \in sending : srv[t] = s

InitShutdown ==
    /\ Init
    /\ handler = [t \in Workers |-> "none"]
    /\ arg = [t \in Workers |-> None]
    /\ locked = {}
    /\ sending = {}
    /\ freed = {}
    /\ ended = "no"
    /\ due = {}
    /\ disturbed = FALSE
    /\ faults = 0

\* A signal arrives on thread t, at any moment.
Interrupt(t) ==
    /\ Running(t)
    /\ Cardinality(Handling) < MaxSignals
    /\ pc[t] \notin {"free", "zombie"}
    /\ GoTo(t, "test")
    /\ \/ UNCHANGED <<locked, sending>>
       \/ /\ pc[t] \in {"add", "remove"} /\ locked = {}
          /\ locked' = {t}
          /\ UNCHANGED sending
       \/ /\ pc[t] \in TakesServer
          /\ sending' = sending \cup {t}
          /\ UNCHANGED locked
    /\ due' = IF Handling # {} THEN due
              ELSE {s \in Servers :
                       Connected(s) /\ \E i \in DOMAIN serverList :
                                           serverList[i] = s}
    /\ UNCHANGED <<vars, arg, freed, ended, disturbed, faults>>

\* while (server_count > 0); exit(EXIT_SUCCESS) behind it.
Test(t) ==
    /\ At(t, "test")
    /\ IF serverList = <<>>
       THEN /\ ended' = "exit"
            /\ UNCHANGED handler
       ELSE /\ GoTo(t, "quit")
            /\ UNCHANGED ended
    /\ UNCHANGED <<vars, arg, locked, sending, freed, due, disturbed, faults>>

\* server_list[0] is evaluated for a call: a fault when the list is NULL.
ReadFirst(t, step, call) ==
    /\ At(t, step)
    /\ IF serverList = <<>>
       THEN /\ ended' = "crash"
            /\ UNCHANGED <<handler, arg>>
       ELSE /\ arg' = [arg EXCEPT ![t] = Head(serverList)]
            /\ GoTo(t, call)
            /\ UNCHANGED ended
    /\ UNCHANGED <<vars, locked, sending, freed, due, disturbed, faults>>

\* The line was sent: server_send has to count it.  A send that failed does
\* not.
Counted(t) ==
    IF Receives(arg[t]) \in Servers
    THEN GoTo(t, "sent") /\ UNCHANGED arg
    ELSE Returns(t, "disconnect")

\* The QUIT is skipped for a server whose motd was not seen.
BugQuit(t) ==
    /\ At(t, "send")
    /\ due' = IF motdSent[arg[t]] THEN due \ {Receives(arg[t])} ELSE due
    /\ Counted(t)
    /\ UNCHANGED <<vars, locked, sending, freed, ended, disturbed, faults>>

\* quit: the line goes to whatever srv->s is open to.
Quit(t) ==
    /\ At(t, "send")
    /\ due' = due \ {Receives(arg[t])}
    /\ Counted(t)
    /\ UNCHANGED <<vars, locked, sending, freed, ended, disturbed, faults>>

\* The end of server_send waits for srv->mutex: for ever when an interrupted
\* thread is inside it, such as this one in a server_send of its own.  The
\* other threads leave it in time.
CountSent(t) ==
    /\ At(t, "sent")
    /\ ~ServerHeld(arg[t])
    /\ Returns(t, "disconnect")
    /\ UNCHANGED <<vars, locked, sending, freed, ended, due, disturbed, faults>>

CloseArg(t) ==
    conn' = IF sock[arg[t]] = None THEN conn
            ELSE [conn EXCEPT ![sock[arg[t]]] = None]

\* server_disconnect with SERVER_INTENTIONAL_DC closes srv->s, whatever it
\* is open to; server_rejoin returns at once.
Disconnect(t) ==
    /\ At(t, "close")
    /\ CloseArg(t)
    /\ Returns(t, "remove")
    /\ UNCHANGED <<serverList, sock, motdSent, rejoinTries, thread, next, pc,
                   srv, detached, locked, sending, freed, ended, due, disturbed,
                   faults>>

\* The mutex is not released.
BugKeepsLock(t) ==
    /\ At(t, "lock")
    /\ locked = {}
    /\ \E kept \in InOrder(KeptEntries(arg[t])) :
          serverList' = [k \in DOMAIN kept |-> serverList[kept[k]]]
    /\ Returns(t, "free")
    /\ locked' = locked \cup {t}
    /\ UNCHANGED <<sock, conn, motdSent, rejoinTries, thread, next, pc, srv,
                   detached, sending, freed, ended, due, disturbed, faults>>

\* remove_from_serverpool waits for servers_global_mutex: for ever when the
\* interrupted thread holds it.
Remove(t) ==
    /\ At(t, "lock")
    /\ locked = {}
    /\ \E kept \in InOrder(KeptEntries(arg[t])) :
          serverList' = [k \in DOMAIN kept |-> serverList[kept[k]]]
    /\ Returns(t, "free")
    /\ UNCHANGED <<sock, conn, motdSent, rejoinTries, thread, next, pc, srv,
                   detached, locked, sending, freed, ended, due, disturbed,
                   faults>>

\* free_server(server_list[0]): a fault when the removed server was the last
\* one, and a double free when this one's strings are gone already.
FreeServer(t) ==
    /\ At(t, "free")
    /\ IF serverList = <<>> \/ Head(serverList) \in freed
       THEN /\ ended' = "crash"
            /\ UNCHANGED <<handler, freed>>
       ELSE /\ freed' = freed \cup {Head(serverList)}
            /\ GoTo(t, "test")
            /\ UNCHANGED ended
    /\ UNCHANGED <<vars, arg, locked, sending, due, disturbed, faults>>

\* server_connect resolves srv->host after free_server gave it back.
UseAfterFree(t) ==
    /\ Running(t)
    /\ pc[t] = "connect" /\ srv[t] \in freed
    /\ ended' = "rejoin"
    /\ UNCHANGED <<vars, handler, arg, locked, sending, freed, due, disturbed,
                   faults>>

\* A thread that was not interrupted takes a step of ServerPool, waiting for
\* the pool's mutex where it needs it; that of its server is not in another
\* one's hands, as no other thread works for that server.  A reader whose
\* descriptor the handler closed finds out when the peer answers the QUIT, or
\* never.  (got_in, which only sets fields the handler does not read, is left
\* out.)
PoolStep(t) ==
    /\ Running(t)
    /\ pc[t] \in {"add", "remove"} => locked = {}
    /\ \/ ThreadStep(t) /\ UNCHANGED faults
       \/ /\ LoseConnection(t) \/ SelectFails(t) \/ ConnectRefused(t)
          /\ faults < MaxFaults
          /\ faults' = faults + 1
    /\ due' = IF pc[t] = "close" THEN due \ {srv[t]} ELSE due
    /\ disturbed' = (disturbed \/ (Handling # {} /\ serverList' # serverList))
    /\ UNCHANGED <<handler, arg, locked, sending, freed, ended>>

SigHandler(t) ==
    \/ Test(t)
    \/ ReadFirst(t, "quit", "send")
    \/ Quit(t)
    \/ CountSent(t)
    \/ ReadFirst(t, "disconnect", "close")
    \/ Disconnect(t)
    \/ ReadFirst(t, "remove", "lock")
    \/ Remove(t)
    \/ FreeServer(t)

NextShutdown ==
    \E t \in Workers :
        \/ Interrupt(t)
        \/ SigHandler(t)
        \/ UseAfterFree(t)
        \/ PoolStep(t)

\* The interrupted thread is scheduled; no other thread need be.
FairShutdown == \A t \in Workers : WF_allVars(SigHandler(t))

SpecShutdown == InitShutdown /\ [][NextShutdown]_allVars /\ FairShutdown
-----------------------------------------------------------------------------
(***************************************************************************)
(* Properties.                                                             *)
(***************************************************************************)

\* The handler runs on live threads only, which stay where they were, and
\* works on a server it read from the pool.
HandlerTypeOK ==
    /\ TypeOK
    /\ handler \in [Workers -> HandlerSteps]
    /\ arg \in [Workers -> Servers \cup {None}]
    /\ \A t \in Workers :
          handler[t] \in {"send", "sent", "close", "lock"} => arg[t] \in Servers
    /\ locked \subseteq {t \in Handling : pc[t] \in {"add", "remove"}}
    /\ sending \subseteq {t \in Handling : pc[t] \in TakesServer}
    /\ freed \in SUBSET Servers
    /\ due \in SUBSET Servers
    /\ ended \in {"no", "exit", "crash", "rejoin"}
    /\ \A t \in Handling : pc[t] \notin {"free", "zombie"}

\* However the handler ends the process, every server that was in the pool
\* and connected when the signal came got its QUIT first, or its connection
\* had been given up by its own reader, unless another thread changed the
\* pool meanwhile and thereby what server_list[0] names.  (A try_rejoin
\* that reads the strings of a freed server can end it before: with three
\* servers or more, while one is still owed its QUIT.)
SaysGoodbye == ended \in {"exit", "crash"} => due = {} \/ disturbed

\* A signal ends the process, unless it hit a thread inside the pool's mutex
\* or a reader that was sending to its server, inside that server's mutex:
\* the handler then waits for a thread that never goes on, its own perhaps.
\* A server whose connection was being opened is not in the pool, and the
\* handler does not come to it.  The threads that the handler's own close()
\* calls wake up, and the connections they reopen, do not keep it going as
\* long as the network's faults are finitely many.
ShutdownEnds ==
    Handling # {} ~>
        \/ ended # "no"
        \/ \E u \in locked : pc[u] \in {"add", "remove"}
        \/ \E u \in sending : pc[u] = "recv"
=============================================================================
