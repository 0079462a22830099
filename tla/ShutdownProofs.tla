--------------------------- MODULE ShutdownProofs ---------------------------
(***************************************************************************)
(* Proofs about Shutdown, for every configuration and any number of        *)
(* threads, descriptors and faults.                                        *)
(*                                                                         *)
(* The handler moves no thread, so that what ServerPoolProofs shows of the *)
(* threads' ownership of servers still holds.  The rest of that does not:  *)
(* the handler closes descriptors and takes servers out of the pool under  *)
(* threads that work for them.  Goodbye says what is left of it for the    *)
(* servers that are owed a QUIT.                                           *)
(***************************************************************************)
EXTENDS Shutdown, ServerPoolProofs

USE DEF Workers

\* HandlerTypeOK without what ServerPool's TypeOK says.
HandlerTypes ==
    /\ handler \in [Workers -> HandlerSteps]
    /\ arg \in [Workers -> Servers \cup {None}]
    /\ \A t \in Workers :
          handler[t] \in {"send", "sent", "close", "lock"} => arg[t] \in Servers
    /\ locked \subseteq {t \in Handling : pc[t] \in {"add", "remove"}}
    /\ sending \subseteq {t \in Handling : pc[t] \in TakesServer}
    /\ freed \in SUBSET Servers
    /\ due \in SUBSET Servers
    /\ ended \in {"no", "exit", "crash", "rejoin"}
    /\ \A t \in Handling : pc[t] \notin {"free", "zombie"}

HInv == IInv /\ HandlerTypes

LEMMA HandlerStepNames ==
    HandlerSteps = {"none", "test", "quit", "send", "sent", "disconnect",
                    "close", "remove", "lock", "free"}
  BY DEF HandlerSteps

LEMMA InitHInv == InitShutdown => HInv
<1> SUFFICES ASSUME InitShutdown PROVE HInv
  OBVIOUS
<1>1. IInv
  BY InitIInv DEF InitShutdown
<1>2. HandlerTypes
  BY HandlerStepNames DEF InitShutdown, HandlerTypes, Handling
<1> QED
  BY <1>1, <1>2 DEF HInv

\* What the handler and the signal leave alone.
ThreadsStay ==
    /\ UNCHANGED <<sock, motdSent, rejoinTries, thread, next, pc, srv, detached>>
    /\ serverList' \in Seq(Servers)
    /\ conn' \in [Fds -> Servers \cup {None, Unconnected}]

LEMMA StayIInv ==
    ASSUME IInv, ThreadsStay
    PROVE  IInv'
<1> USE DEF IInv, ThreadsStay
<1>1. TypeOK'
  BY DEF TypeOK, FieldTypes, ThreadTypes
<1>2. MainTurn' /\ LaterUntouched' /\ OneOwner'
  BY DEF MainTurn, LaterUntouched, OneOwner, Owns
<1> QED
  BY <1>1, <1>2

\* remove_from_serverpool as the handler calls it.
LEMMA HandlerRemoves ==
    ASSUME HInv, NEW t \in Workers, Remove(t)
    PROVE  serverList' \in Seq(Servers)
<1>1. serverList \in Seq(Servers)
  BY DEF HInv, IInv, TypeOK, FieldTypes
<1>2. KeptEntries(arg[t]) \in SUBSET (DOMAIN serverList)
  BY DEF KeptEntries
<1> QED
  BY <1>1, <1>2, KeptIsSeq DEF Remove

LEMMA HandlerStays ==
    ASSUME HInv, NEW t \in Workers,
           Interrupt(t) \/ SigHandler(t) \/ UseAfterFree(t)
    PROVE  ThreadsStay
<1>0. /\ serverList \in Seq(Servers)
      /\ conn \in [Fds -> Servers \cup {None, Unconnected}]
  BY DEF HInv, IInv, TypeOK, FieldTypes
<1>1. CASE Disconnect(t)
  BY <1>0, <1>1 DEF Disconnect, CloseArg, ThreadsStay
<1>2. CASE Remove(t)
  <2>1. serverList' \in Seq(Servers)
    BY <1>2, HandlerRemoves
  <2> QED
    BY <1>0, <1>2, <2>1 DEF Remove, ThreadsStay
<1>3. CASE UNCHANGED vars
  BY <1>0, <1>3 DEF vars, ThreadsStay
<1> QED
  BY <1>1, <1>2, <1>3
     DEF Interrupt, SigHandler, UseAfterFree, Test, ReadFirst, Quit, CountSent,
         FreeServer

\* A thread the handler runs on stays where it was, whatever the others do.
LEMMA HandledStays ==
    ASSUME IInv, NEW t \in Workers, ThreadStep(t) \/ NetworkStep(t),
           NEW w \in Workers, w # t, pc[w] \notin {"free", "zombie"}
    PROVE  pc'[w] = pc[w]
  BY StepMoves DEF Moves

LEMMA HandlerTypesStep ==
    ASSUME HInv, NEW t \in Workers, SigHandler(t)
    PROVE  HandlerTypes'
<1> USE HandlerStepNames DEF HandlerTypes
<1>0. HandlerTypes /\ ThreadsStay
  BY HandlerStays DEF HInv
<1>1. pc' = pc
  BY <1>0 DEF ThreadsStay
<1>2. serverList # <<>> => Head(serverList) \in Servers
  BY DEF HInv, IInv, TypeOK, FieldTypes
<1>3. handler[t] # "none"
  BY DEF SigHandler, Test, ReadFirst, Quit, CountSent, Disconnect, Remove,
     FreeServer, At
<1>4. ASSUME NEW step \in HandlerSteps \ {"none"},
             handler' = [handler EXCEPT ![t] = step]
      PROVE  Handling' = Handling
  BY <1>0, <1>3, <1>4 DEF Handling
<1>5. CASE Test(t)
  <2>1. CASE serverList = <<>>
    BY <1>0, <1>1, <1>5, <2>1 DEF Test, Handling
  <2>2. CASE serverList # <<>>
    <3>1. /\ handler' = [handler EXCEPT ![t] = "quit"]
          /\ UNCHANGED <<arg, locked, sending, freed, due, ended>>
      BY <1>5, <2>2 DEF Test, GoTo
    <3> QED
      BY <1>0, <1>1, <1>4, <3>1
  <2> QED
    BY <2>1, <2>2
<1>6. ASSUME NEW step, NEW call \in {"send", "close", "lock"},
             ReadFirst(t, step, call)
      PROVE  HandlerTypes'
  <2>1. CASE serverList = <<>>
    BY <1>0, <1>1, <1>6, <2>1 DEF ReadFirst, Handling
  <2>2. CASE serverList # <<>>
    <3>1. /\ handler' = [handler EXCEPT ![t] = call]
          /\ arg' = [arg EXCEPT ![t] = Head(serverList)]
          /\ UNCHANGED <<locked, sending, freed, due, ended>>
      BY <1>6, <2>2 DEF ReadFirst, GoTo
    <3> QED
      BY <1>0, <1>1, <1>2, <1>4, <2>2, <3>1
  <2> QED
    BY <2>1, <2>2
<1>7. CASE Quit(t) \/ CountSent(t) \/ Disconnect(t) \/ Remove(t)
  <2>0. /\ due' \subseteq due
        /\ UNCHANGED <<locked, sending, freed, ended>>
    BY <1>7 DEF Quit, CountSent, Disconnect, Remove
  <2>1. CASE Quit(t) /\ Receives(arg[t]) \in Servers
    <3>1. /\ handler[t] = "send" /\ arg' = arg
          /\ handler' = [handler EXCEPT ![t] = "sent"]
      BY <2>1 DEF Quit, At, Counted, GoTo
    <3> QED
      BY <1>0, <1>1, <1>4, <2>0, <3>1
  <2>2. CASE ~(Quit(t) /\ Receives(arg[t]) \in Servers)
    <3>1. /\ \E step \in {"disconnect", "remove", "free"} :
                handler' = [handler EXCEPT ![t] = step]
          /\ arg' = [arg EXCEPT ![t] = None]
      BY <1>7, <2>2 DEF Quit, CountSent, Counted, Disconnect, Remove, Returns, GoTo
    <3> QED
      BY <1>0, <1>1, <1>4, <2>0, <3>1
  <2> QED
    BY <2>1, <2>2
<1>8. CASE FreeServer(t)
  <2>1. CASE serverList = <<>> \/ Head(serverList) \in freed
    BY <1>0, <1>1, <1>8, <2>1 DEF FreeServer, Handling
  <2>2. CASE ~(serverList = <<>> \/ Head(serverList) \in freed)
    <3>1. /\ handler' = [handler EXCEPT ![t] = "test"]
          /\ freed' = freed \cup {Head(serverList)}
          /\ UNCHANGED <<arg, locked, sending, due, ended>>
      BY <1>8, <2>2 DEF FreeServer, GoTo
    <3> QED
      BY <1>0, <1>1, <1>2, <1>4, <2>2, <3>1
  <2> QED
    BY <2>1, <2>2
<1> QED
  BY <1>5, <1>6, <1>7, <1>8 DEF SigHandler

LEMMA StepHInv == HInv /\ [NextShutdown]_allVars => HInv'
<1> SUFFICES ASSUME HInv, [NextShutdown]_allVars PROVE HInv'
  OBVIOUS
<1> USE HandlerStepNames DEF HInv, HandlerTypes
<1>1. CASE UNCHANGED allVars
  <2>1. IInv'
    BY <1>1, StepIInv DEF allVars
  <2>2. HandlerTypes'
    BY <1>1 DEF allVars, vars, handlerVars, Handling
  <2> QED
    BY <2>1, <2>2
<1>2. ASSUME NEW t \in Workers, Interrupt(t)
      PROVE  HInv'
  <2>1. ThreadsStay /\ pc' = pc
    BY <1>2, HandlerStays DEF ThreadsStay
  <2>2. IInv'
    BY <2>1, StayIInv
  <2>3. /\ handler' = [handler EXCEPT ![t] = "test"]
        /\ pc[t] \notin {"free", "zombie"} /\ handler[t] = "none"
        /\ locked' = locked \/ (locked' = {t} /\ pc[t] \in {"add", "remove"})
        /\ sending' = sending \/ (sending' = sending \cup {t} /\ pc[t] \in TakesServer)
        /\ due' \in SUBSET Servers
        /\ UNCHANGED <<arg, freed, ended>>
    BY <1>2 DEF Interrupt, Running, GoTo
  <2>4. Handling' = Handling \cup {t}
    BY <2>3 DEF Handling
  <2>5. HandlerTypes'
    BY <2>1, <2>3, <2>4
  <2> QED
    BY <2>2, <2>5
<1>3. ASSUME NEW t \in Workers, SigHandler(t)
      PROVE  HInv'
  BY <1>3, HandlerStays, StayIInv, HandlerTypesStep
<1>4. ASSUME NEW t \in Workers, UseAfterFree(t)
      PROVE  HInv'
  <2>1. ThreadsStay
    BY <1>4, HandlerStays
  <2>2. IInv'
    BY <2>1, StayIInv
  <2>3. HandlerTypes'
    BY <1>4 DEF UseAfterFree, vars, Handling
  <2> QED
    BY <2>2, <2>3
<1>5. ASSUME NEW t \in Workers, PoolStep(t)
      PROVE  HInv'
  <2>1. ThreadStep(t) \/ NetworkStep(t)
    BY <1>5 DEF PoolStep, NetworkStep
  <2>2. IInv'
    BY <2>1, StepIInv DEF Next
  <2>3. /\ handler[t] = "none" /\ due' \subseteq due
        /\ UNCHANGED <<handler, arg, locked, sending, freed, ended>>
    BY <1>5 DEF PoolStep, Running
  <2>4. Handling' = Handling /\ t \notin Handling
    BY <2>3 DEF Handling
  <2>5. \A w \in Handling : pc'[w] = pc[w]
    BY <2>1, <2>4, HandledStays DEF Handling
  <2>6. HandlerTypes'
    BY <2>3, <2>4, <2>5
  <2> QED
    BY <2>2, <2>6
<1> QED
  BY <1>1, <1>2, <1>3, <1>4, <1>5 DEF NextShutdown

\* Every reachable state satisfies the invariant about the threads and the
\* handler's variables.
THEOREM HandlerInvariance == SpecShutdown => []HInv
  BY InitHInv, StepHInv, PTL DEF SpecShutdown

\* However many signals arrive: the handler only runs on threads that live,
\* none of which moves any more, it is always about a server it read from
\* the pool, and a thread that holds the mutex for ever is one of those.
THEOREM HandlerTyped == SpecShutdown => []HandlerTypeOK
<1>1. HInv => HandlerTypeOK
  BY DEF HInv, IInv, HandlerTypes, HandlerTypeOK
<1> QED
  BY <1>1, HandlerInvariance, PTL

\* A signal does not give a server a second owner.
THEOREM HandlerLeavesOwners == SpecShutdown => []OneOwner
<1>1. HInv => OneOwner
  BY DEF HInv, IInv
<1> QED
  BY <1>1, HandlerInvariance, PTL
-----------------------------------------------------------------------------
(***************************************************************************)
(* One signal: nobody in the pool who is owed a QUIT is missed.            *)
(***************************************************************************)

\* At most one thread is in the handler.
Alone == Handling = {} \/ \E h \in Workers : Handling = {h}

\* Before the signal the connections are as ServerPool keeps them.
Quiet ==
    Handling = {} => /\ due = {} /\ freed = {} /\ ended = "no"
                     /\ OwnConnection

\* Who is owed a QUIT is in the pool and connected, and no thread can close
\* that connection for another server.
Owed ==
    \A d \in due :
        /\ Pooled(d) /\ Connected(d)
        /\ \A w \in Workers :
              pc[w] \in Linked /\ srv[w] # d => sock[srv[w]] # sock[d]

\* The handler works on the first server of the pool, which gets its QUIT
\* before the rest, and frees the one behind it.
InTurn(h) ==
    /\ handler[h] \notin {"test", "free"} => serverList # <<>>
    /\ handler[h] \in {"send", "sent", "close", "lock"} =>
          arg[h] = Head(serverList)
    /\ handler[h] \in {"sent", "disconnect", "close", "remove", "lock"} =>
          Receives(Head(serverList)) \notin due
    /\ \A s \in freed :
          Pooled(s) => handler[h] # "free" /\ s = Head(serverList)

Goodbye ==
    \A h \in Handling : ended = "no" /\ ~disturbed => Owed /\ InTurn(h)

SInv ==
    /\ HInv
    /\ PoolApart
    /\ FreshNotPooled
    /\ Alone
    /\ Quiet
    /\ Goodbye
    /\ SaysGoodbye

\* What a step of ServerPool does to the descriptors.
LEMMA DescriptorChange ==
    ASSUME IInv, NEW t \in Workers, ThreadStep(t) \/ NetworkStep(t)
    PROVE  /\ \A s \in Servers :
                 \/ sock'[s] = sock[s] /\ ~(s = srv[t] /\ pc[t] = "connect")
                 \/ /\ s = srv[t] /\ pc[t] = "connect"
                    /\ \/ sock'[s] = None
                       \/ sock'[s] \in Fds /\ conn[sock'[s]] = None
           /\ \A f \in Fds :
                 \/ conn'[f] = conn[f]
                 \/ /\ pc[t] = "connect" /\ conn[f] = None
                    /\ conn'[f] \in {srv[t], Unconnected}
                 \/ pc[t] = "close" /\ f = sock[srv[t]] /\ conn'[f] = None
<1>0. /\ sock \in [Servers -> Fds \cup {None}]
      /\ conn \in [Fds -> Servers \cup {None, Unconnected}]
      /\ pc[t] \in {"connect", "close"} => srv[t] \in Servers
  BY DEF IInv, TypeOK, FieldTypes, ThreadTypes
<1>1. CASE ServerConnect(t) \/ ConnectRefused(t)
  <2>1. PICK fd \in LowestFreeFd, to \in {srv[t], Unconnected} :
           /\ pc[t] = "connect"
           /\ sock' = [sock EXCEPT ![srv[t]] = fd]
           /\ conn' = [conn EXCEPT ![fd] = to]
    BY <1>1 DEF ServerConnect, ConnectRefused
  <2>2. fd \in Fds /\ conn[fd] = None
    BY <2>1 DEF LowestFreeFd, FreeFds
  <2> QED
    BY <1>0, <2>1, <2>2
<1>2. CASE SocketFails(t)
  BY <1>0, <1>2 DEF SocketFails
<1>3. CASE ServerDisconnect(t)
  BY <1>0, <1>3 DEF ServerDisconnect
<1>4. CASE pc[t] \notin {"connect", "close"}
  BY <1>4, Untouched
<1> QED
  BY <1>1, <1>2, <1>3, <1>4, Untouched

LEMMA InitSInv == InitShutdown => SInv
<1> SUFFICES ASSUME InitShutdown PROVE SInv
  OBVIOUS
<1>1. HInv /\ FullInv
  BY InitHInv, InitFullInv DEF InitShutdown
<1>2. PoolApart /\ FreshNotPooled /\ OwnConnection
  BY <1>1 DEF FullInv, PoolInv, PoolExact, PoolApart, Pooled
<1>3. Handling = {}
  BY DEF InitShutdown, Handling
<1>4. Alone /\ Quiet /\ Goodbye /\ SaysGoodbye
  BY <1>2, <1>3 DEF InitShutdown, Alone, Quiet, Goodbye, SaysGoodbye
<1> QED
  BY <1>1, <1>2, <1>4 DEF SInv

\* The handler takes its argument out of the pool and nothing else.
LEMMA RemoveTakes ==
    ASSUME HInv, PoolApart, NEW t \in Workers, Remove(t)
    PROVE  /\ \A i, j \in DOMAIN serverList' :
                 serverList'[i] = serverList'[j] => i = j
           /\ \A s : Pooled(s)' <=> Pooled(s) /\ s # arg[t]
<1>1. /\ serverList \in Seq(Servers)
      /\ \A i, j \in DOMAIN serverList : serverList[i] = serverList[j] => i = j
  BY DEF HInv, IInv, TypeOK, FieldTypes, PoolApart
<1>2. arg[t] \in Servers
  BY DEF HInv, HandlerTypes, Remove, At
<1>3. PICK kept \in InOrder(KeptEntries(arg[t])) :
         serverList' = [k \in DOMAIN kept |-> serverList[kept[k]]]
  BY DEF Remove
<1>4. \A i : i \in KeptEntries(arg[t]) <=>
                i \in DOMAIN serverList /\ serverList[i] # arg[t]
  BY DEF KeptEntries
<1>5. /\ \A i, j \in DOMAIN serverList' :
            serverList'[i] = serverList'[j] => i = j
      /\ \A i \in DOMAIN serverList' :
            /\ serverList'[i] # arg[t]
            /\ \E k \in DOMAIN serverList : serverList'[i] = serverList[k]
      /\ \A k \in DOMAIN serverList : serverList[k] # arg[t] =>
            \E i \in DOMAIN serverList' : serverList'[i] = serverList[k]
  BY ONLY <1>1, <1>2, <1>3, <1>4, Removed, SMTT(60)
<1>6. \A s : Pooled(s)' <=> Pooled(s) /\ s # arg[t]
  BY <1>5 DEF Pooled
<1> QED
  BY <1>5, <1>6

\* A handler that only takes servers out of the pool leaves those that are
\* being opened out of it.
LEMMA HandlerApart ==
    ASSUME SInv, ThreadsStay,
           \/ UNCHANGED serverList
           \/ \E t \in Workers : Remove(t)
    PROVE  PoolApart' /\ FreshNotPooled'
<1> USE DEF SInv
<1>1. /\ \A i, j \in DOMAIN serverList' : serverList'[i] = serverList'[j] => i = j
      /\ \A s : Pooled(s)' => Pooled(s)
  <2>1. CASE UNCHANGED serverList
    BY <2>1 DEF PoolApart, Pooled
  <2>2. ASSUME NEW t \in Workers, Remove(t)
        PROVE  /\ \A i, j \in DOMAIN serverList' :
                     serverList'[i] = serverList'[j] => i = j
               /\ \A s : Pooled(s)' => Pooled(s)
    BY <2>2, RemoveTakes
  <2> QED
    BY <2>1, <2>2
<1>2. PoolApart'
  BY <1>1 DEF PoolApart, Pooled, ThreadsStay
<1>3. FreshNotPooled'
  BY <1>1 DEF FreshNotPooled, Fresh, ThreadsStay
<1> QED
  BY <1>2, <1>3

\* A thread that was not interrupted does not take from the others what they
\* are owed.
LEMMA OwedStays ==
    ASSUME SInv, NEW t \in Workers, ThreadStep(t) \/ NetworkStep(t), Owed,
           UNCHANGED serverList,
           due' = IF pc[t] = "close" THEN due \ {srv[t]} ELSE due
    PROVE  /\ Owed'
           /\ \A d \in due' : pc[t] = "connect" => d # srv[t]
<1>0. /\ IInv /\ OneOwner /\ due \subseteq Servers
      /\ sock \in [Servers -> Fds \cup {None}]
      /\ conn \in [Fds -> Servers \cup {None, Unconnected}]
      /\ None \notin Servers
      /\ \A w \in Workers : pc[w] \in Linked => srv[w] \in Servers
  BY NamesAssumption DEF SInv, HInv, HandlerTypes, IInv, TypeOK, FieldTypes, ThreadTypes, Linked
<1>1. /\ \A s \in Servers :
            \/ sock'[s] = sock[s] /\ ~(s = srv[t] /\ pc[t] = "connect")
            \/ /\ s = srv[t] /\ pc[t] = "connect"
               /\ \/ sock'[s] = None
                  \/ sock'[s] \in Fds /\ conn[sock'[s]] = None
      /\ \A f \in Fds :
            \/ conn'[f] = conn[f]
            \/ /\ pc[t] = "connect" /\ conn[f] = None
               /\ conn'[f] \in {srv[t], Unconnected}
            \/ pc[t] = "close" /\ f = sock[srv[t]] /\ conn'[f] = None
  BY <1>0, DescriptorChange
<1>2. \A d \in due :
         /\ d \in Servers /\ Pooled(d)
         /\ sock[d] \in Fds /\ conn[sock[d]] = d
         /\ \A w \in Workers :
               pc[w] \in Linked /\ srv[w] # d => sock[srv[w]] # sock[d]
  BY <1>0 DEF Owed, Connected, Receives
<1>3. ASSUME NEW d \in due'
      PROVE  /\ d \in due /\ (pc[t] = "connect" => d # srv[t])
             /\ sock'[d] = sock[d] /\ conn'[sock[d]] = d
  <2>1. d \in due /\ (pc[t] = "close" => d # srv[t])
    BY <1>3
  <2>2. pc[t] = "connect" => d # srv[t]
    BY <1>2, <2>1 DEF SInv, PoolApart
  <2>3. sock'[d] = sock[d]
    BY <1>1, <1>2, <2>1, <2>2
  <2>4. pc[t] = "close" => sock[srv[t]] # sock[d]
    BY <1>2, <2>1 DEF Linked
  <2>5. conn'[sock[d]] = d
    BY <1>0, <1>1, <1>2, <2>1, <2>4
  <2> QED
    BY <2>1, <2>2, <2>3, <2>5
<1>4. ASSUME NEW d \in due', NEW w \in Workers, pc'[w] \in Linked, srv'[w] # d
      PROVE  sock'[srv'[w]] # sock'[d]
  <2>0. d \in due /\ sock'[d] = sock[d] /\ sock[d] \in Fds /\ conn[sock[d]] = d /\ d \in Servers
    BY <1>2, <1>3
  <2>1. Moves(t, w)
    BY <1>0, StepMoves
  <2>2. CASE pc'[w] = pc[w] /\ srv'[w] = srv[w]
    <3>1. CASE sock'[srv[w]] = sock[srv[w]]
      BY <1>2, <1>4, <2>0, <2>2, <3>1
    <3>2. CASE sock'[srv[w]] # sock[srv[w]]
      BY <1>0, <1>1, <1>4, <2>0, <2>2, <3>2, NamesAssumption
    <3> QED
      BY <3>1, <3>2
  <2>3. CASE w = t /\ GoesOn(pc[t], pc'[t]) /\ srv'[t] = srv[t]
    <3>1. CASE pc[t] = "connect"
      <4>1. srv[t] \in Servers
        BY <1>0, <3>1 DEF IInv, TypeOK, ThreadTypes
      <4>2. sock'[srv[t]] # sock[d]
        BY <1>1, <2>0, <3>1, <4>1, NamesAssumption
      <4> QED
        BY <2>0, <2>3, <4>2
    <3>2. CASE pc[t] # "connect"
      <4>1. pc[t] \in Linked
        BY <1>4, <2>3, <3>2 DEF GoesOn, Linked
      <4> QED
        BY <1>0, <1>1, <1>2, <1>4, <2>0, <2>3, <3>2, <4>1
    <3> QED
      BY <3>1, <3>2
  <2>4. CASE w # t /\ pc[t] = "spawn" /\ pc'[w] = "recv" /\ srv'[w] = srv[t]
    <3>1. pc[t] \in Linked
      BY <2>4 DEF Linked
    <3> QED
      BY <1>0, <1>1, <1>2, <1>4, <2>0, <2>4, <3>1
  <2> QED
    BY <1>4, <2>1, <2>2, <2>3, <2>4 DEF Moves, Resting, Linked
<1>5. \A d \in due' : Pooled(d)' /\ Connected(d)'
  <2> SUFFICES ASSUME NEW d \in due' PROVE Pooled(d)' /\ Connected(d)'
    OBVIOUS
  <2>1. d \in due /\ sock'[d] \in Fds /\ conn'[sock'[d]] = d
    BY <1>2, <1>3
  <2>2. Pooled(d)'
    BY <1>2, <2>1 DEF Pooled
  <2>3. Connected(d)'
    BY <2>1, NamesAssumption DEF Connected, Receives
  <2> QED
    BY <2>2, <2>3
<1>6. Owed'
  BY <1>4, <1>5 DEF Owed
<1> QED
  BY <1>3, <1>6

\* What holds of the one handler and the pool while nobody disturbs it.
LEMMA HandlerAlone ==
    ASSUME SInv, NEW t \in Workers, t \in Handling, ended = "no"
    PROVE  /\ Handling = {t}
           /\ disturbed \/ (Owed /\ InTurn(t))
  BY DEF SInv, Alone, Goodbye

\* When nothing is left in the pool, nobody is owed anything.
LEMMA EmptyOwesNothing ==
    ASSUME Owed, serverList = <<>>
    PROVE  due = {}
  BY DEF Owed, Pooled

\* Steps that change neither the pool nor the connections nor who is owed a
\* QUIT leave Owed as it is.
LEMMA OwedSame ==
    ASSUME Owed, UNCHANGED <<serverList, conn, sock, pc, srv>>, due' \subseteq due
    PROVE  Owed'
  BY DEF Owed, Pooled, Connected, Receives

LEMMA SigHandlerStep ==
    ASSUME SInv, NEW t \in Workers, SigHandler(t)
    PROVE  /\ Handling' = {t}
           /\ disturbed' = disturbed
           /\ SaysGoodbye'
           /\ ended' = "no" /\ ~disturbed => Owed' /\ InTurn(t)'
<1>0. /\ HInv /\ ThreadsStay /\ HandlerTypes
      /\ handler \in [Workers -> HandlerSteps]
      /\ arg \in [Workers -> Servers \cup {None}]
      /\ serverList \in Seq(Servers) /\ due \subseteq Servers /\ None \notin Servers
      /\ sock \in [Servers -> Fds \cup {None}]
      /\ conn \in [Fds -> Servers \cup {None, Unconnected}]
  BY HandlerStays, NamesAssumption
     DEF SInv, HInv, HandlerTypes, IInv, TypeOK, FieldTypes
<1>1. ended = "no" /\ handler[t] # "none" /\ t \in Handling
  BY DEF SigHandler, Test, ReadFirst, Quit, CountSent, Disconnect, Remove,
     FreeServer, At, Handling
<1>2. Handling = {t} /\ (disturbed \/ (Owed /\ InTurn(t)))
  BY <1>1, HandlerAlone
<1>3. ASSUME NEW step \in HandlerSteps \ {"none"},
             handler' = [handler EXCEPT ![t] = step]
      PROVE  Handling' = {t} /\ handler'[t] = step
  BY <1>0, <1>2, <1>3 DEF Handling
<1>4. ASSUME handler' = handler
      PROVE  Handling' = {t}
  BY <1>2, <1>4 DEF Handling
<1>5. disturbed' = disturbed
  BY DEF SigHandler, Test, ReadFirst, Quit, CountSent, Disconnect, Remove,
     FreeServer
<1>6. UNCHANGED <<sock, pc, srv>>
  BY <1>0 DEF ThreadsStay
<1>7. ASSUME ended' = "no" PROVE SaysGoodbye'
  BY <1>7 DEF SaysGoodbye
<1> USE HandlerStepNames
<1>8. CASE Test(t)
  <2>0. UNCHANGED <<serverList, conn, due, freed, arg>> /\ handler[t] = "test"
    BY <1>8 DEF Test, vars, At
  <2>1. CASE serverList = <<>>
    <3>1. ended' = "exit" /\ handler' = handler
      BY <1>8, <2>1 DEF Test
    <3>2. SaysGoodbye'
      BY <1>2, <1>5, <2>0, <2>1, EmptyOwesNothing DEF SaysGoodbye
    <3> QED
      BY <1>4, <1>5, <3>1, <3>2
  <2>2. CASE serverList # <<>>
    <3>1. handler' = [handler EXCEPT ![t] = "quit"] /\ ended' = ended
      BY <1>8, <2>2 DEF Test, GoTo
    <3>2. ~disturbed => Owed'
      BY <1>2, <1>6, <2>0, OwedSame
    <3>3. ~disturbed => InTurn(t)'
      BY <1>2, <1>3, <2>0, <2>2, <3>1 DEF InTurn, Pooled
    <3> QED
      BY <1>1, <1>3, <1>5, <1>7, <3>1, <3>2, <3>3
  <2> QED
    BY <2>1, <2>2
<1>9. ASSUME NEW step, NEW call,
             \/ step = "quit" /\ call = "send"
             \/ step = "disconnect" /\ call = "close"
             \/ step = "remove" /\ call = "lock",
             ReadFirst(t, step, call)
      PROVE  /\ Handling' = {t}
             /\ SaysGoodbye'
             /\ ended' = "no" /\ ~disturbed => Owed' /\ InTurn(t)'
  <2>0. UNCHANGED <<serverList, conn, due, freed>> /\ handler[t] = step
    BY <1>9 DEF ReadFirst, vars, At
  <2>1. CASE serverList = <<>>
    <3>1. ended' = "crash" /\ handler' = handler
      BY <1>9, <2>1 DEF ReadFirst
    <3>2. SaysGoodbye'
      BY <1>2, <1>5, <2>0, <2>1, EmptyOwesNothing DEF SaysGoodbye
    <3> QED
      BY <1>4, <3>1, <3>2
  <2>2. CASE serverList # <<>>
    <3>1. /\ handler' = [handler EXCEPT ![t] = call] /\ ended' = ended
          /\ arg' = [arg EXCEPT ![t] = Head(serverList)]
      BY <1>9, <2>2 DEF ReadFirst, GoTo
    <3>2. ~disturbed => Owed'
      BY <1>2, <1>6, <2>0, OwedSame
    <3>3. ~disturbed => InTurn(t)'
      BY <1>0, <1>2, <1>3, <1>6, <1>9, <2>0, <2>2, <3>1 DEF InTurn, Pooled, Receives
    <3> QED
      BY <1>1, <1>3, <1>7, <1>9, <3>1, <3>2, <3>3
  <2> QED
    BY <2>1, <2>2
<1>10. CASE Quit(t)
  <2>1. /\ handler[t] = "send" /\ ended' = ended
        /\ UNCHANGED <<serverList, conn, freed>>
        /\ due' = due \ {Receives(arg[t])}
    BY <1>10 DEF Quit, At, vars
  <2>2. \/ handler' = [handler EXCEPT ![t] = "disconnect"]
        \/ handler' = [handler EXCEPT ![t] = "sent"] /\ arg' = arg
    BY <1>10 DEF Quit, Counted, Returns, GoTo
  <2>3. Handling' = {t} /\ \/ handler'[t] = "disconnect"
                           \/ handler'[t] = "sent" /\ arg'[t] = arg[t]
    BY <1>3, <2>2
  <2>4. ~disturbed => Owed'
    BY <1>2, <1>6, <2>1, OwedSame
  <2>5. ~disturbed => InTurn(t)'
    BY <1>2, <1>6, <2>1, <2>3 DEF InTurn, Pooled, Receives
  <2> QED
    BY <1>1, <1>5, <1>7, <2>1, <2>3, <2>4, <2>5
<1>11. CASE CountSent(t)
  <2>1. /\ handler[t] = "sent"
        /\ handler' = [handler EXCEPT ![t] = "disconnect"] /\ ended' = ended
        /\ UNCHANGED <<serverList, conn, freed, due>>
    BY <1>11 DEF CountSent, At, Returns, GoTo, vars
  <2>2. ~disturbed => Owed'
    BY <1>2, <1>6, <2>1, OwedSame
  <2>3. ~disturbed => InTurn(t)'
    BY <1>2, <1>3, <1>6, <2>1 DEF InTurn, Pooled, Receives
  <2> QED
    BY <1>1, <1>3, <1>5, <1>7, <2>1, <2>2, <2>3
<1>12. CASE Disconnect(t)
  <2>1. /\ handler[t] = "close"
        /\ handler' = [handler EXCEPT ![t] = "remove"] /\ ended' = ended
        /\ UNCHANGED <<serverList, due, freed>>
        /\ conn' = IF sock[arg[t]] = None THEN conn
                   ELSE [conn EXCEPT ![sock[arg[t]]] = None]
    BY <1>12 DEF Disconnect, At, Returns, GoTo, CloseArg
  <2>2. ASSUME ~disturbed
        PROVE  Owed' /\ InTurn(t)'
    <3>1. /\ Owed /\ serverList # <<>> /\ arg[t] = Head(serverList)
          /\ Receives(arg[t]) \notin due /\ arg[t] \in Servers
          /\ \A s \in freed : Pooled(s) => s = Head(serverList)
      BY <1>0, <1>2, <2>1, <2>2 DEF InTurn
    <3>2. ASSUME NEW d \in due
          PROVE  /\ sock[d] \in Fds /\ conn[sock[d]] = d /\ sock[d] # sock[arg[t]]
                 /\ conn'[sock[d]] = d
      <4>1. sock[d] \in Fds /\ conn[sock[d]] = d
        BY <1>0, <3>1 DEF Owed, Connected, Receives
      <4>2. sock[d] # sock[arg[t]]
        BY <1>0, <3>1, <4>1, NamesAssumption DEF Receives
      <4> QED
        BY <1>0, <2>1, <4>1, <4>2
    <3>3. \A d \in due : Connected(d)'
      BY <1>0, <1>6, <3>2, NamesAssumption DEF Connected, Receives
    <3>4. Owed'
      BY <1>6, <2>1, <3>1, <3>3 DEF Owed, Pooled
    <3>5. sock[arg[t]] = None \/ conn'[sock[arg[t]]] = None
      BY <1>0, <2>1, <3>1
    <3>6. Receives(Head(serverList))' = None
      BY <1>6, <2>1, <3>1, <3>5 DEF Receives
    <3>7. InTurn(t)'
      BY <1>0, <1>3, <2>1, <3>1, <3>6 DEF InTurn, Pooled
    <3> QED
      BY <3>4, <3>7
  <2> QED
    BY <1>1, <1>3, <1>5, <1>7, <2>1, <2>2
<1>13. CASE Remove(t)
  <2>1. /\ handler[t] = "lock"
        /\ handler' = [handler EXCEPT ![t] = "free"] /\ ended' = ended
        /\ UNCHANGED <<conn, due, freed>>
    BY <1>13 DEF Remove, At, Returns, GoTo
  <2>2. ASSUME ~disturbed
        PROVE  Owed' /\ InTurn(t)'
    <3>1. /\ Owed /\ serverList # <<>> /\ arg[t] = Head(serverList)
          /\ Receives(arg[t]) \notin due /\ arg[t] \in Servers
          /\ \A s \in freed : Pooled(s) => s = arg[t]
      BY <1>0, <1>2, <2>1, <2>2 DEF InTurn
    <3>2. \A s : Pooled(s)' <=> Pooled(s) /\ s # arg[t]
      BY <1>0, <1>13, <3>1, RemoveTakes DEF SInv
    <3>3. \A d \in due : d # arg[t]
      BY <3>1 DEF Owed, Connected
    <3>4. \A d \in due : Pooled(d)' /\ Connected(d)'
      BY <1>6, <2>1, <3>1, <3>2, <3>3 DEF Owed, Connected, Receives
    <3>5. Owed'
      BY <1>6, <2>1, <3>1, <3>4 DEF Owed
    <3>6. InTurn(t)'
      BY <1>3, <2>1, <3>1, <3>2 DEF InTurn
    <3> QED
      BY <3>5, <3>6
  <2> QED
    BY <1>1, <1>3, <1>5, <1>7, <2>1, <2>2
<1>14. CASE FreeServer(t)
  <2>0. UNCHANGED <<serverList, conn, due, arg>> /\ handler[t] = "free"
    BY <1>14 DEF FreeServer, vars, At
  <2>1. CASE serverList = <<>> \/ Head(serverList) \in freed
    <3>1. ended' = "crash" /\ handler' = handler
      BY <1>14, <2>1 DEF FreeServer
    <3>2. serverList # <<>> => Pooled(Head(serverList))
      BY <1>0 DEF Pooled
    <3>3. disturbed \/ due = {}
      BY <1>2, <2>0, <2>1, <3>2, EmptyOwesNothing DEF InTurn
    <3>4. SaysGoodbye'
      BY <1>5, <2>0, <3>3 DEF SaysGoodbye
    <3> QED
      BY <1>4, <1>5, <3>1, <3>4
  <2>2. CASE ~(serverList = <<>> \/ Head(serverList) \in freed)
    <3>1. /\ handler' = [handler EXCEPT ![t] = "test"] /\ ended' = ended
          /\ freed' = freed \cup {Head(serverList)}
      BY <1>14, <2>2 DEF FreeServer, GoTo
    <3>2. ~disturbed => Owed'
      BY <1>2, <1>6, <2>0, OwedSame
    <3>3. ~disturbed => InTurn(t)'
      BY <1>2, <1>3, <2>0, <3>1 DEF InTurn, Pooled
    <3> QED
      BY <1>1, <1>3, <1>5, <1>7, <3>1, <3>2, <3>3
  <2> QED
    BY <2>1, <2>2
<1> QED
  BY <1>5, <1>8, <1>9, <1>10, <1>11, <1>12, <1>13, <1>14 DEF SigHandler

\* The signal finds the connections as the threads keep them.
LEMMA InterruptStep ==
    ASSUME SInv, MaxSignals = 1, NEW t \in Workers, Interrupt(t)
    PROVE  /\ Handling' = {t}
           /\ SaysGoodbye'
           /\ Owed' /\ InTurn(t)'
<1>0. /\ handler \in [Workers -> HandlerSteps] /\ None \notin Servers \cup Fds
      /\ UNCHANGED <<vars, freed, ended>>
      /\ Cardinality(Handling) < 1 /\ handler[t] = "none" /\ ended = "no"
      /\ handler' = [handler EXCEPT ![t] = "test"]
  BY NamesAssumption
     DEF SInv, HInv, HandlerTypes, Interrupt, Running, GoTo
<1>1. Handling = {}
  <2>1. ASSUME NEW h \in Workers, Handling = {h} PROVE FALSE
    <3>1. Cardinality({h}) = 1
      BY FS_Singleton
    <3>2. Cardinality(Handling) = 1
      BY <2>1, <3>1
    <3> QED
      BY <1>0, <3>2
  <2> QED
    BY <2>1 DEF SInv, Alone
<1>2. Handling' = {t} /\ handler'[t] = "test"
  BY <1>0, <1>1, HandlerStepNames DEF Handling
<1>3. freed' = {} /\ OwnConnection
  BY <1>0, <1>1 DEF SInv, Quiet
<1>4. due' = {s \in Servers : Connected(s) /\ Pooled(s)}
  BY <1>1 DEF Interrupt, Pooled
<1>5. UNCHANGED <<serverList, sock, conn, pc, srv>>
  BY <1>0 DEF vars
<1>6. ASSUME NEW d \in due', NEW w \in Workers, pc[w] \in Linked, srv[w] # d
      PROVE  sock[srv[w]] # sock[d]
  <2>1. /\ d \in Servers /\ Receives(d) = d
        /\ Receives(srv[w]) = srv[w] /\ srv[w] \in Servers
    BY <1>3, <1>4, <1>6 DEF Connected, OwnConnection, SInv, HInv, IInv, TypeOK,
       ThreadTypes, Linked
  <2> QED
    BY <1>0, <1>6, <2>1 DEF Receives
<1>7. \A d \in due' : Pooled(d)' /\ Connected(d)'
  BY <1>4, <1>5 DEF Pooled, Connected, Receives
<1>8. Owed'
  BY <1>5, <1>6, <1>7 DEF Owed
<1>9. InTurn(t)'
  BY <1>2, <1>3 DEF InTurn
<1>10. SaysGoodbye'
  BY <1>0 DEF SaysGoodbye
<1> QED
  BY <1>2, <1>8, <1>9, <1>10

\* A thread that runs on beside the handler leaves Goodbye as it is, unless
\* it changes the pool.
LEMMA BesideStep ==
    ASSUME SInv, NEW t \in Workers, PoolStep(t)
    PROVE  Alone' /\ Quiet' /\ Goodbye' /\ SaysGoodbye'
<1>0. /\ ended = "no" /\ handler[t] = "none"
      /\ UNCHANGED <<handler, arg, locked, sending, freed, ended>>
      /\ due' = IF pc[t] = "close" THEN due \ {srv[t]} ELSE due
      /\ disturbed' = (disturbed \/ (Handling # {} /\ serverList' # serverList))
      /\ ThreadStep(t) \/ NetworkStep(t)
  BY DEF PoolStep, Running, NetworkStep
<1>1. Handling' = Handling
  BY <1>0 DEF Handling
<1>2. Alone' /\ SaysGoodbye'
  BY <1>0, <1>1 DEF SInv, Alone, SaysGoodbye
<1>3. Quiet'
  <2> SUFFICES ASSUME Handling = {}
               PROVE  due' = {} /\ freed' = {} /\ ended' = "no" /\ OwnConnection'
    BY <1>1 DEF Quiet
  <2>1. due = {} /\ freed = {} /\ ended = "no" /\ OwnConnection
    BY DEF SInv, Quiet
  <2>2. OwnConnection'
    BY <1>0, <2>1, ConnectionStep DEF SInv, HInv
  <2> QED
    BY <1>0, <2>1, <2>2
<1>4. Goodbye'
  <2> SUFFICES ASSUME NEW h \in Handling, ~disturbed'
               PROVE  Owed' /\ InTurn(h)'
    BY <1>1 DEF Goodbye
  <2>1. ~disturbed /\ serverList' = serverList
    BY <1>0
  <2>2. Owed /\ InTurn(h)
    BY <1>0, <2>1 DEF SInv, Goodbye
  <2>3. Owed' /\ \A d \in due' : pc[t] = "connect" => d # srv[t]
    BY <1>0, <2>1, <2>2, OwedStays
  <2>4. ASSUME serverList # <<>>, Receives(Head(serverList)) \notin due
        PROVE  Receives(Head(serverList))' \notin due'
    <3> DEFINE first == Head(serverList)
    <3>1. /\ first \in Servers /\ Pooled(first)
          /\ sock \in [Servers -> Fds \cup {None}]
          /\ conn \in [Fds -> Servers \cup {None, Unconnected}]
          /\ due \subseteq Servers /\ None \notin Servers /\ Unconnected \notin Servers
          /\ None \notin Fds /\ IInv
      BY <2>4, NamesAssumption
         DEF SInv, HInv, HandlerTypes, IInv, TypeOK, FieldTypes, Pooled
    <3>2. ~(first = srv[t] /\ pc[t] = "connect")
      BY <3>1 DEF SInv, PoolApart
    <3>3. sock'[first] = sock[first]
      BY <1>0, <3>1, <3>2, DescriptorChange
    <3>4. due' \subseteq due
      BY <1>0
    <3>5. CASE sock[first] = None
      BY <2>1, <3>1, <3>3, <3>4, <3>5 DEF Receives
    <3>6. CASE sock[first] # None
      <4>1. sock[first] \in Fds /\ conn[sock[first]] \notin due
        BY <2>4, <3>1, <3>6 DEF Receives
      <4>2. conn'[sock[first]] \notin due'
        BY <1>0, <2>3, <3>1, <3>4, <4>1, DescriptorChange
      <4> QED
        BY <2>1, <3>1, <3>3, <4>1, <4>2 DEF Receives
    <3> QED
      BY <3>5, <3>6
  <2>5. InTurn(h)'
    BY <1>0, <2>1, <2>2, <2>4 DEF InTurn, Pooled
  <2> QED
    BY <2>3, <2>5
<1> QED
  BY <1>2, <1>3, <1>4

\* With one signal the whole invariant is inductive.
LEMMA StepSInv ==
    ASSUME MaxSignals = 1
    PROVE  SInv /\ [NextShutdown]_allVars => SInv'
<1> SUFFICES ASSUME SInv, [NextShutdown]_allVars PROVE SInv'
  OBVIOUS
<1>0. HInv /\ HInv'
  BY StepHInv DEF SInv
<1>1. CASE UNCHANGED allVars
  <2>1. PoolApart' /\ FreshNotPooled'
    BY <1>1 DEF SInv, allVars, vars, PoolApart, FreshNotPooled, Pooled, Fresh
  <2>2. Alone' /\ Quiet' /\ SaysGoodbye'
    BY <1>1 DEF SInv, allVars, vars, handlerVars, Alone, Quiet, SaysGoodbye,
       Handling, OwnConnection, Receives
  <2>3. Goodbye'
    BY <1>1 DEF SInv, allVars, vars, handlerVars, Goodbye, Handling, Owed,
       InTurn, Pooled, Connected, Receives
  <2> QED
    BY <1>0, <2>1, <2>2, <2>3 DEF SInv
<1>2. ASSUME NEW t \in Workers, Interrupt(t) \/ SigHandler(t) \/ UseAfterFree(t)
      PROVE  PoolApart' /\ FreshNotPooled'
  <2>1. ThreadsStay
    BY <1>0, <1>2, HandlerStays
  <2>2. UNCHANGED serverList \/ Remove(t)
    BY <1>2 DEF Interrupt, SigHandler, UseAfterFree, Test, ReadFirst, Quit,
       CountSent, Disconnect, FreeServer, vars
  <2> QED
    BY <2>1, <2>2, HandlerApart
<1>3. ASSUME NEW t \in Workers, Interrupt(t)
      PROVE  SInv'
  <2>1. /\ Handling' = {t}
        /\ SaysGoodbye'
        /\ Owed' /\ InTurn(t)'
    BY <1>3, InterruptStep
  <2> QED
    BY <1>0, <1>2, <1>3, <2>1 DEF SInv, Alone, Quiet, Goodbye
<1>4. ASSUME NEW t \in Workers, SigHandler(t)
      PROVE  SInv'
  <2>1. /\ Handling' = {t}
        /\ disturbed' = disturbed
        /\ SaysGoodbye'
        /\ ended' = "no" /\ ~disturbed => Owed' /\ InTurn(t)'
    BY <1>4, SigHandlerStep
  <2> QED
    BY <1>0, <1>2, <1>4, <2>1 DEF SInv, Alone, Quiet, Goodbye
<1>5. ASSUME NEW t \in Workers, UseAfterFree(t)
      PROVE  SInv'
  <2>1. /\ UNCHANGED <<vars, handler, freed>> /\ ended' = "rejoin" /\ freed # {}
    BY <1>5 DEF UseAfterFree
  <2>2. Handling' = Handling /\ Handling # {}
    BY <2>1 DEF Handling, SInv, Quiet
  <2>3. Alone' /\ Quiet' /\ Goodbye' /\ SaysGoodbye'
    BY <2>1, <2>2 DEF SInv, Alone, Quiet, Goodbye, SaysGoodbye
  <2> QED
    BY <1>0, <1>2, <1>5, <2>3 DEF SInv
<1>6. ASSUME NEW t \in Workers, PoolStep(t)
      PROVE  SInv'
  <2>1. ThreadStep(t) \/ NetworkStep(t)
    BY <1>6 DEF PoolStep, NetworkStep
  <2>2. PoolApart' /\ FreshNotPooled'
    BY <2>1, ApartStep DEF SInv, HInv
  <2>3. Alone' /\ Quiet' /\ Goodbye' /\ SaysGoodbye'
    BY <1>6, BesideStep
  <2> QED
    BY <1>0, <2>2, <2>3 DEF SInv
<1> QED
  BY <1>1, <1>3, <1>4, <1>5, <1>6 DEF NextShutdown

\* When one signal arrives, on any thread and at any moment: should the
\* handler end the process, by exit() or by its own fault, then every server
\* of the pool that was connected was sent its QUIT or lost its connection,
\* unless another thread changed the pool meanwhile.  (A second signal, on
\* another thread, runs a second handler that takes turns with the first.)
THEOREM OneSignalSaysGoodbye ==
    ASSUME MaxSignals = 1
    PROVE  SpecShutdown => []SaysGoodbye
<1>1. SInv => SaysGoodbye
  BY DEF SInv
<1>2. SInv /\ [NextShutdown]_allVars => SInv'
  BY StepSInv
<1> QED
  BY <1>1, <1>2, InitSInv, PTL DEF SpecShutdown

=============================================================================
