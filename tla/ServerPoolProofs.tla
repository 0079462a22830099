-------------------------- MODULE ServerPoolProofs --------------------------
(***************************************************************************)
(* Proofs about ServerPool, for every set of servers, descriptors and      *)
(* threads and every configuration.                                        *)
(*                                                                         *)
(* TypeOK and OneOwner are not inductive by themselves: that the main      *)
(* thread does not open a server another thread works for rests on where   *)
(* it is in the configuration, which lists a server once.  IInv adds that. *)
(* FullInv adds the pool, the counters and the connections, each of which  *)
(* rests on OneOwner, and what holds of the servers whose turn in          *)
(* load_servers has not come; the refinement of ServerLink rests on it.    *)
(***************************************************************************)
EXTENDS ServerPool, FiniteSetTheorems, TLAPS

\* The main thread works for the server whose turn it is.
MainTurn ==
    pc[Main] # "input" => /\ next \in 1..Len(Config)
                          /\ srv[Main] = Config[next]

\* No other thread works for a server whose turn is not over, except that
\* the reader of the current one runs before its turn ends.
LaterUntouched ==
    \A t \in Threads, j \in 1..Len(Config) :
        /\ pc[Main] # "input"
        /\ Owns(t)
        /\ srv[t] = Config[j]
        /\ next <= j
        => j = next /\ pc[Main] \in {"detach", "leave"}

IInv == TypeOK /\ MainTurn /\ LaterUntouched /\ OneOwner

USE DEF Workers

-----------------------------------------------------------------------------
\* What remove_from_serverpool keeps of a list of servers is one.
LEMMA KeptIsSeq ==
    ASSUME NEW list \in Seq(Servers),
           NEW I \in SUBSET (DOMAIN list),
           NEW kept \in InOrder(I)
    PROVE  [k \in DOMAIN kept |-> list[kept[k]]] \in Seq(Servers)
<1>1. IsFiniteSet(1..Len(list))
  BY FS_Interval
<1>2. I \subseteq 1..Len(list)
  OBVIOUS
<1>3. Cardinality(I) \in Nat
  BY <1>1, <1>2, FS_Subset, FS_CardinalityType
<1>4. DOMAIN kept = 1..Cardinality(I) /\ \A k \in DOMAIN kept : kept[k] \in DOMAIN list
  BY DEF InOrder
<1> QED
  BY <1>3, <1>4

\* The names of the steps.
LEMMA StepNames ==
    /\ \A step \in Opening \cup Reading \cup Resting : step \in Steps
    /\ Steps = {"start", "remove", "connect", "register", "reset", "add",
                "spawn", "recv", "close", "notify", "detach", "leave",
                "input", "free", "zombie"}
  BY DEF Opening, Reading, Resting, Steps

\* Where load_servers goes is a step, with a server to work for if it needs
\* one.
LEMMA MainAtTypes ==
    ASSUME NEW i \in Nat \ {0}
    PROVE  /\ MainAt(i) \in {"connect", "input"}
           /\ MainServer(i) \in Servers \cup {None}
           /\ MainAt(i) # "input" => /\ i \in 1..Len(Config)
                                     /\ MainServer(i) = Config[i]
                                     /\ MainServer(i) \in Servers
  BY ConfigAssumption DEF MainAt, MainServer

LEMMA InitIInv == Init => IInv
<1> SUFFICES ASSUME Init PROVE IInv
  OBVIOUS
<1> USE NamesAssumption, StepNames, MainAtTypes DEF Init
<1>1. TypeOK
  BY ConfigAssumption DEF TypeOK, FieldTypes, ThreadTypes
<1>2. MainTurn
  BY DEF MainTurn
<1>3. LaterUntouched /\ OneOwner
  BY DEF LaterUntouched, OneOwner, Owns, Opening, Reading
<1> QED
  BY <1>1, <1>2, <1>3 DEF IInv
-----------------------------------------------------------------------------
\* A thread that is done with its server goes on to a step it may be at.
LEMMA ContinueTypes ==
    ASSUME TypeOK, MainTurn, NEW t \in Workers, pc[t] \in {"spawn", "leave"},
           Continue(t)
    PROVE  /\ next' \in 1..(Len(Config) + 1)
           /\ pc' \in [Workers -> Steps]
           /\ srv' \in [Workers -> Servers \cup {None}]
           /\ detached' \in SUBSET Threads
           /\ \A u \in Workers \ {t} : pc'[u] = pc[u] /\ srv'[u] = srv[u]
           /\ t = Main => /\ pc'[t] \in {"connect", "input"}
                          /\ pc'[t] # "input" => srv'[t] \in Servers
           /\ t # Main => pc'[t] \in {"free", "zombie"}
<1> USE DEF TypeOK, FieldTypes, Continue, Goto
<1>1. CASE t = Main
  <2>1. next \in 1..Len(Config)
    BY <1>1 DEF MainTurn
  <2>2. next + 1 \in Nat \ {0} /\ next + 1 \in 1..(Len(Config) + 1)
    BY <2>1, ConfigAssumption
  <2>3. /\ MainAt(next + 1) \in {"connect", "input"}
        /\ MainServer(next + 1) \in Servers \cup {None}
        /\ MainAt(next + 1) # "input" => MainServer(next + 1) \in Servers
    BY <2>2, MainAtTypes
  <2> QED
    BY <1>1, <2>2, <2>3, StepNames
<1>2. CASE t # Main
  BY <1>2, StepNames
<1> QED
  BY <1>1, <1>2
LEMMA TypeStep == IInv /\ [Next]_vars => TypeOK'
<1> SUFFICES ASSUME IInv, [Next]_vars PROVE FieldTypes' /\ ThreadTypes'
  BY DEF TypeOK
<1> USE NamesAssumption, StepNames DEF IInv, TypeOK, Goto
<1>0. CASE UNCHANGED vars
  BY <1>0 DEF vars, FieldTypes, ThreadTypes
<1>a. ASSUME NEW t \in Workers, ThreadStep(t)
      PROVE  FieldTypes' /\ ThreadTypes'
  <2> USE DEF FieldTypes
  <2>0. pc[t] \notin {"free", "zombie", "input"} => srv[t] \in Servers
    BY DEF ThreadTypes
  <2>1. CASE ServerConnect(t)
    <3>1. FieldTypes'
      BY <2>0, <2>1 DEF ServerConnect, LowestFreeFd, FreeFds
    <3>2. ThreadTypes'
      BY <2>0, <2>1 DEF ServerConnect, LowestFreeFd, FreeFds, ThreadTypes
    <3> QED
      BY <3>1, <3>2
  <2>2. CASE SocketFails(t)
    <3>1. FieldTypes'
      BY <2>0, <2>2, ZenonT(40) DEF SocketFails, ConnectFailed
    <3>2. ThreadTypes'
      <4>1. pc[t] = "connect" /\ UNCHANGED thread
        BY <2>2 DEF SocketFails
      <4>2. CASE t = Main
        <5>1. /\ pc' = [pc EXCEPT ![t] = "input"]
              /\ srv' = [srv EXCEPT ![t] = None]
          BY <2>2, <4>2 DEF SocketFails, ConnectFailed
        <5> QED
          BY <4>1, <4>2, <5>1 DEF ThreadTypes
      <4>3. CASE t # Main
        <5>1. UNCHANGED <<pc, srv>>
          BY <2>2, <4>3 DEF SocketFails, ConnectFailed
        <5> QED
          BY <4>1, <5>1 DEF ThreadTypes
      <4> QED
        BY <4>2, <4>3
    <3> QED
      BY <3>1, <3>2
  <2>3. CASE HandleRegisteration(t)
    <3>1. FieldTypes'
      BY <2>0, <2>3 DEF HandleRegisteration
    <3>2. ThreadTypes'
      BY <2>0, <2>3 DEF HandleRegisteration, ThreadTypes
    <3> QED
      BY <3>1, <3>2
  <2>4. CASE ResetAfterRejoin(t)
    <3>1. FieldTypes'
      BY <2>0, <2>4 DEF ResetAfterRejoin
    <3>2. ThreadTypes'
      BY <2>0, <2>4 DEF ResetAfterRejoin, ThreadTypes
    <3> QED
      BY <3>1, <3>2
  <2>5. CASE AddToServerpool(t)
    <3>1. FieldTypes'
      BY <2>0, <2>5 DEF AddToServerpool
    <3>2. ThreadTypes'
      BY <2>0, <2>5 DEF AddToServerpool, ThreadTypes
    <3> QED
      BY <3>1, <3>2
  <2>6. CASE SpawnReader(t)
    <3>0. PICK u \in FreeThreads :
             /\ pc' = [pc EXCEPT ![t] = "detach", ![u] = "recv"]
             /\ srv' = [srv EXCEPT ![u] = srv[t]]
             /\ thread' = [thread EXCEPT ![srv[t]] = u]
      BY <2>6 DEF SpawnReader
    <3>1. u \in Threads /\ pc[u] = "free" /\ u # t /\ u # Main
      BY <2>6, <3>0 DEF FreeThreads, SpawnReader
    <3>2. srv[t] \in Servers /\ pc[t] = "spawn"
      BY <2>0, <2>6 DEF SpawnReader
    <3>3. /\ \A w \in Workers \ {t, u} : pc'[w] = pc[w] /\ srv'[w] = srv[w]
          /\ pc'[t] = "detach" /\ srv'[t] = srv[t]
          /\ pc'[u] = "recv" /\ srv'[u] = srv[t]
      BY <3>0, <3>1, <3>2
    <3>4. FieldTypes'
      BY <2>6, <3>0, <3>1, <3>2 DEF SpawnReader
    <3>5. ThreadTypes'
      <4>1. \A w \in Workers :
               pc'[w] \notin {"free", "zombie", "input"} => srv'[w] \in Servers
        BY <3>2, <3>3 DEF ThreadTypes
      <4>2. \A w \in Workers : pc'[w] = "detach" => thread'[srv'[w]] \in Threads
        BY <3>0, <3>1, <3>2, <3>3, <4>1 DEF ThreadTypes
      <4>3. /\ pc'[Main] \in {"connect", "register", "add", "spawn", "detach",
                              "leave", "input"}
            /\ \A w \in Threads : pc'[w] # "input"
        BY <3>1, <3>3 DEF ThreadTypes
      <4> QED
        BY <4>1, <4>2, <4>3 DEF ThreadTypes
    <3> QED
      BY <3>4, <3>5
  <2>7. CASE SpawnReaderFails(t)
    <3>1. Continue(t) /\ pc[t] = "spawn"
      BY <2>7 DEF SpawnReaderFails
    <3>2. /\ next' \in 1..(Len(Config) + 1)
          /\ pc' \in [Workers -> Steps]
          /\ srv' \in [Workers -> Servers \cup {None}]
          /\ detached' \in SUBSET Threads
          /\ \A u \in Workers \ {t} : pc'[u] = pc[u] /\ srv'[u] = srv[u]
          /\ t = Main => /\ pc'[t] \in {"connect", "input"}
                         /\ pc'[t] # "input" => srv'[t] \in Servers
          /\ t # Main => pc'[t] \in {"free", "zombie"}
      BY <3>1, ContinueTypes
    <3>3. FieldTypes'
      BY <2>7, <3>2 DEF SpawnReaderFails
    <3>4. ThreadTypes'
      BY <2>7, <3>2 DEF SpawnReaderFails, ThreadTypes
    <3> QED
      BY <3>3, <3>4
  <2>8. CASE DetachReader(t)
    <3>0. thread[srv[t]] \in Threads /\ pc[t] = "detach" /\ srv[t] \in Servers
      BY <2>0, <2>8 DEF DetachReader, ThreadTypes
    <3>1. CASE pc[thread[srv[t]]] = "zombie"
      <4>1. /\ pc' = [pc EXCEPT ![t] = "leave", ![thread[srv[t]]] = "free"]
            /\ UNCHANGED <<serverList, sock, conn, motdSent, rejoinTries,
                           thread, next, srv, detached>>
        BY <2>8, <3>1 DEF DetachReader
      <4> QED
        BY <3>0, <3>1, <4>1 DEF ThreadTypes
    <3>2. CASE pc[thread[srv[t]]] # "zombie"
      <4>1. /\ pc' = [pc EXCEPT ![t] = "leave"]
            /\ detached' \subseteq Threads
            /\ UNCHANGED <<serverList, sock, conn, motdSent, rejoinTries,
                           thread, next, srv>>
        BY <2>8, <3>0, <3>2 DEF DetachReader
      <4> QED
        BY <3>0, <4>1 DEF ThreadTypes
    <3> QED
      BY <3>1, <3>2
  <2>9. CASE Leave(t)
    <3>1. Continue(t) /\ pc[t] = "leave"
      BY <2>9 DEF Leave
    <3>2. /\ next' \in 1..(Len(Config) + 1)
          /\ pc' \in [Workers -> Steps]
          /\ srv' \in [Workers -> Servers \cup {None}]
          /\ detached' \in SUBSET Threads
          /\ \A u \in Workers \ {t} : pc'[u] = pc[u] /\ srv'[u] = srv[u]
          /\ t = Main => /\ pc'[t] \in {"connect", "input"}
                         /\ pc'[t] # "input" => srv'[t] \in Servers
          /\ t # Main => pc'[t] \in {"free", "zombie"}
      BY <3>1, ContinueTypes
    <3>3. FieldTypes'
      BY <2>9, <3>2 DEF Leave
    <3>4. ThreadTypes'
      BY <2>9, <3>2 DEF Leave, ThreadTypes
    <3> QED
      BY <3>3, <3>4
  <2>10. CASE ServerDisconnect(t)
    <3>1. FieldTypes'
      BY <2>0, <2>10 DEF ServerDisconnect
    <3>2. ThreadTypes'
      BY <2>0, <2>10 DEF ServerDisconnect, ThreadTypes
    <3> QED
      BY <3>1, <3>2
  <2>11. CASE ServerRejoin(t)
    <3>0. PICK u \in FreeThreads :
             /\ pc' = [pc EXCEPT ![t] = "leave", ![u] = "start"]
             /\ srv' = [srv EXCEPT ![u] = srv[t]]
             /\ UNCHANGED thread
      BY <2>11 DEF ServerRejoin, AfterDisconnect
    <3>1. u \in Threads /\ pc[u] = "free" /\ u # t /\ u # Main
      BY <2>11, <3>0 DEF FreeThreads, ServerRejoin
    <3>2. srv[t] \in Servers /\ pc[t] = "notify"
      BY <2>0, <2>11 DEF ServerRejoin
    <3>3. /\ \A w \in Workers \ {t, u} : pc'[w] = pc[w] /\ srv'[w] = srv[w]
          /\ pc'[t] = "leave" /\ srv'[t] = srv[t]
          /\ pc'[u] = "start" /\ srv'[u] = srv[t]
      BY <3>0, <3>1, <3>2
    <3>4. FieldTypes'
      <4>1. UNCHANGED <<serverList, sock, conn, motdSent, rejoinTries,
                        thread, next, detached>>
        BY <2>11 DEF ServerRejoin
      <4> QED
        BY <3>0, <3>1, <3>2, <4>1
    <3>5. ThreadTypes'
      BY <3>0, <3>1, <3>2, <3>3 DEF ThreadTypes
    <3> QED
      BY <3>4, <3>5
  <2>12. CASE ServerRejoinFails(t)
    <3>1. FieldTypes'
      BY <2>0, <2>12 DEF ServerRejoinFails, AfterDisconnect
    <3>2. ThreadTypes'
      BY <2>0, <2>12 DEF ServerRejoinFails, AfterDisconnect, ThreadTypes
    <3> QED
      BY <3>1, <3>2
  <2>13. CASE TryRejoin(t)
    <3>1. FieldTypes'
      BY <2>0, <2>13 DEF TryRejoin
    <3>2. ThreadTypes'
      BY <2>0, <2>13 DEF TryRejoin, ThreadTypes
    <3> QED
      BY <3>1, <3>2
  <2>14. CASE RemoveFromServerpool(t)
    <3>0. PICK kept \in InOrder(KeptEntries(srv[t])) :
             serverList' = [k \in DOMAIN kept |-> serverList[kept[k]]]
      BY <2>14 DEF RemoveFromServerpool
    <3>1. serverList' \in Seq(Servers)
      <4>1. KeptEntries(srv[t]) \in SUBSET (DOMAIN serverList)
        BY DEF KeptEntries
      <4> QED
        BY <3>0, <4>1, KeptIsSeq, SMTT(30)
    <3>2. FieldTypes'
      BY <2>14, <3>1 DEF RemoveFromServerpool
    <3>3. ThreadTypes'
      BY <2>0, <2>14 DEF RemoveFromServerpool, ThreadTypes
    <3> QED
      BY <3>2, <3>3
  <2> QED
    BY <1>a, <2>1, <2>2, <2>3, <2>4, <2>5, <2>6, <2>7, <2>8, <2>9, <2>10,
       <2>11, <2>12, <2>13, <2>14 DEF ThreadStep
<1>b. ASSUME NEW t \in Workers, NetworkStep(t)
      PROVE  FieldTypes' /\ ThreadTypes'
  <2> USE DEF FieldTypes
  <2>0. pc[t] \notin {"free", "zombie", "input"} => srv[t] \in Servers
    BY DEF ThreadTypes
  <2>1. CASE ConnectRefused(t)
    <3>1. FieldTypes'
      BY <2>0, <2>1 DEF ConnectRefused, ConnectFailed, LowestFreeFd, FreeFds
    <3>2. ThreadTypes'
      <4>1. pc[t] = "connect" /\ UNCHANGED thread
        BY <2>1 DEF ConnectRefused
      <4>2. CASE t = Main
        <5>1. /\ pc' = [pc EXCEPT ![t] = "input"]
              /\ srv' = [srv EXCEPT ![t] = None]
          BY <2>1, <4>2 DEF ConnectRefused, ConnectFailed
        <5> QED
          BY <4>1, <4>2, <5>1 DEF ThreadTypes
      <4>3. CASE t # Main
        <5>1. UNCHANGED <<pc, srv>>
          BY <2>1, <4>3 DEF ConnectRefused, ConnectFailed
        <5> QED
          BY <4>1, <5>1 DEF ThreadTypes
      <4> QED
        BY <4>2, <4>3
    <3> QED
      BY <3>1, <3>2
  <2>2. CASE GotIn(t)
    <3>1. FieldTypes'
      BY <2>0, <2>2 DEF GotIn
    <3>2. ThreadTypes'
      BY <2>0, <2>2 DEF GotIn, ThreadTypes
    <3> QED
      BY <3>1, <3>2
  <2>3. CASE LoseConnection(t)
    <3>1. FieldTypes'
      BY <2>0, <2>3 DEF LoseConnection
    <3>2. ThreadTypes'
      BY <2>0, <2>3 DEF LoseConnection, ThreadTypes
    <3> QED
      BY <3>1, <3>2
  <2>4. CASE SelectFails(t)
    <3>1. FieldTypes'
      BY <2>0, <2>4 DEF SelectFails
    <3>2. ThreadTypes'
      BY <2>0, <2>4 DEF SelectFails, ThreadTypes
    <3> QED
      BY <3>1, <3>2
  <2> QED
    BY <1>b, <2>1, <2>2, <2>3, <2>4 DEF NetworkStep
<1> QED
  BY <1>0, <1>a, <1>b DEF Next
-----------------------------------------------------------------------------
(***************************************************************************)
(* As far as ownership goes, every step is one of three.                   *)
(***************************************************************************)

\* Nobody becomes an owner; the main thread may advance in its turn or give
\* up loading.
Keeps ==
    /\ next' = next
    /\ \A w \in Workers : Owns(w)' => Owns(w) /\ srv'[w] = srv[w]
    /\ \/ pc'[Main] = "input"
       \/ /\ pc[Main] # "input"
          /\ srv'[Main] = srv[Main]
          /\ pc[Main] \in {"detach", "leave"} => pc'[Main] \in {"detach", "leave"}

\* t gives its server to a thread that was free.
HandsOver(t, u) ==
    /\ next' = next
    /\ Owns(t) /\ ~Owns(u) /\ u \in Threads /\ u # t
    /\ ~Owns(t)' /\ srv'[u] = srv[t]
    /\ \A w \in Workers \ {t, u} : pc'[w] = pc[w] /\ srv'[w] = srv[w]
    /\ t = Main => pc'[t] = "detach" /\ srv'[t] = srv[t] /\ pc[t] # "input"

\* The main thread takes the next server of the configuration.
TakesTurn ==
    /\ pc[Main] # "input"
    /\ next' = next + 1
    /\ pc'[Main] = MainAt(next + 1)
    /\ srv'[Main] = MainServer(next + 1)
    /\ \A w \in Threads : pc'[w] = pc[w] /\ srv'[w] = srv[w]

\* A thread that is done with its server keeps or takes its turn.
LEMMA ContinueShape ==
    ASSUME TypeOK, NEW t \in Workers, pc[t] \in {"spawn", "leave"}, Continue(t)
    PROVE  Keeps \/ TakesTurn
<1> USE DEF TypeOK, FieldTypes, Continue, Goto
<1>1. CASE t = Main
  <2>1. TakesTurn
    BY <1>1, NamesAssumption DEF TakesTurn
  <2> QED
    BY <2>1
<1>2. CASE t # Main
  <2>1. /\ next' = next
        /\ pc'[t] \in {"free", "zombie"}
        /\ \A w \in Workers \ {t} : pc'[w] = pc[w] /\ srv'[w] = srv[w]
    BY <1>2
  <2>2. Keeps
    BY <1>2, <2>1 DEF Keeps, Owns, Opening, Reading
  <2> QED
    BY <2>2
<1> QED
  BY <1>1, <1>2

LEMMA StepShape ==
    ASSUME TypeOK, NEW t \in Workers, ThreadStep(t) \/ NetworkStep(t)
    PROVE  Keeps \/ TakesTurn \/ \E u \in Threads : HandsOver(t, u)
<1> USE DEF TypeOK, FieldTypes, Goto
\* A step that only moves t from one step to another, not to one at which
\* it would newly own a server.
<1>0. ASSUME NEW from, NEW to \in Steps, pc[t] = from,
             pc' = [pc EXCEPT ![t] = to], UNCHANGED <<srv, next>>,
             to \in Opening \cup Reading => from \in Opening \cup Reading,
             t = Main => /\ from # "input"
                         /\ from \in {"detach", "leave"} => to \in {"detach", "leave"}
      PROVE  Keeps
  BY <1>0 DEF Keeps, Owns
<1> USE StepNames
<1>1. CASE ServerConnect(t)
  <2>1. /\ pc[t] = "connect"
        /\ pc' = [pc EXCEPT ![t] = "register"]
        /\ UNCHANGED <<srv, next>>
    BY <1>1 DEF ServerConnect
  <2> QED
    BY <1>0, <2>1 DEF Opening, Reading
<1>2. CASE ResetAfterRejoin(t)
  <2>1. /\ pc[t] = "reset"
        /\ pc' = [pc EXCEPT ![t] = "add"]
        /\ UNCHANGED <<srv, next>>
    BY <1>2 DEF ResetAfterRejoin
  <2> QED
    BY <1>0, <2>1 DEF Opening, Reading
<1>3. CASE AddToServerpool(t)
  <2>1. /\ pc[t] = "add"
        /\ pc' = [pc EXCEPT ![t] = "spawn"]
        /\ UNCHANGED <<srv, next>>
    BY <1>3 DEF AddToServerpool
  <2> QED
    BY <1>0, <2>1 DEF Opening, Reading
<1>4. CASE ServerDisconnect(t)
  <2>1. /\ pc[t] = "close"
        /\ pc' = [pc EXCEPT ![t] = "notify"]
        /\ UNCHANGED <<srv, next>>
    BY <1>4 DEF ServerDisconnect
  <2> QED
    BY <1>0, <2>1 DEF Opening, Reading
<1>5. CASE ServerRejoinFails(t)
  <2>1. /\ pc[t] = "notify"
        /\ pc' = [pc EXCEPT ![t] = "leave"]
        /\ UNCHANGED <<srv, next>>
    BY <1>5 DEF ServerRejoinFails, AfterDisconnect
  <2> QED
    BY <1>0, <2>1 DEF Opening, Reading
<1>6. CASE TryRejoin(t)
  <2>1. /\ pc[t] = "start"
        /\ pc' = [pc EXCEPT ![t] = "remove"]
        /\ UNCHANGED <<srv, next>>
    BY <1>6 DEF TryRejoin
  <2> QED
    BY <1>0, <2>1 DEF Opening, Reading
<1>7. CASE RemoveFromServerpool(t)
  <2>1. /\ pc[t] = "remove"
        /\ pc' = [pc EXCEPT ![t] = "connect"]
        /\ UNCHANGED <<srv, next>>
    BY <1>7 DEF RemoveFromServerpool
  <2> QED
    BY <1>0, <2>1 DEF Opening, Reading
<1>8. CASE LoseConnection(t)
  <2>1. /\ pc[t] = "recv"
        /\ pc' = [pc EXCEPT ![t] = "close"]
        /\ UNCHANGED <<srv, next>>
    BY <1>8 DEF LoseConnection
  <2> QED
    BY <1>0, <2>1 DEF Opening, Reading
<1>9. CASE HandleRegisteration(t)
  <2>1. /\ pc[t] = "register"
        /\ \E to \in {"add", "reset"} : pc' = [pc EXCEPT ![t] = to]
        /\ UNCHANGED <<srv, next>>
    BY <1>9 DEF HandleRegisteration
  <2> QED
    BY <1>0, <2>1 DEF Opening
<1>10. CASE SocketFails(t) \/ ConnectRefused(t)
  <2>1. pc[t] = "connect" /\ next' = next /\ ConnectFailed(t)
    BY <1>10 DEF SocketFails, ConnectRefused
  <2> QED
    BY <2>1 DEF ConnectFailed, Keeps, Owns, Opening, Reading
<1>11. CASE GotIn(t)
  BY <1>11 DEF GotIn, Keeps, Owns
<1>12. CASE SpawnReader(t)
  BY <1>12, NamesAssumption
  DEF SpawnReader, FreeThreads, HandsOver, Owns, Opening, Reading
<1>13. CASE ServerRejoin(t)
  <2>1. t # Main
    BY <1>13 DEF ServerRejoin, ThreadTypes
  <2> QED
    BY <1>13, <2>1
    DEF ServerRejoin, AfterDisconnect, FreeThreads, HandsOver, Owns, Opening, Reading
<1>14. CASE SpawnReaderFails(t) \/ Leave(t)
  BY <1>14, ContinueShape DEF SpawnReaderFails, Leave
<1>15. CASE DetachReader(t)
  <2>1. thread[srv[t]] \in Threads /\ pc[t] = "detach" /\ UNCHANGED <<srv, next>>
    BY <1>15 DEF DetachReader, ThreadTypes
  <2>2. CASE pc[thread[srv[t]]] = "zombie"
    <3>1. pc' = [pc EXCEPT ![t] = "leave", ![thread[srv[t]]] = "free"]
      BY <1>15, <2>2 DEF DetachReader
    <3> QED
      BY <2>1, <2>2, <3>1, NamesAssumption DEF Keeps, Owns, Opening, Reading
  <2>3. CASE pc[thread[srv[t]]] # "zombie"
    <3>1. pc' = [pc EXCEPT ![t] = "leave"]
      BY <1>15, <2>3 DEF DetachReader
    <3> QED
      BY <1>0, <2>1, <3>1 DEF Opening, Reading
  <2> QED
    BY <2>2, <2>3
<1>16. CASE SelectFails(t)
  <2>1. /\ pc[t] = "recv"
        /\ pc' = [pc EXCEPT ![t] = "leave"]
        /\ UNCHANGED <<srv, next>>
    BY <1>16 DEF SelectFails
  <2> QED
    BY <1>0, <2>1 DEF Opening, Reading
<1> QED
  BY <1>1, <1>2, <1>3, <1>4, <1>5, <1>6, <1>7, <1>8, <1>9, <1>10, <1>11,
     <1>12, <1>13, <1>14, <1>15, <1>16 DEF ThreadStep, NetworkStep
-----------------------------------------------------------------------------
\* A step that makes nobody an owner preserves the invariant.
LEMMA KeepsPreserves ==
    ASSUME IInv, Keeps
    PROVE  MainTurn' /\ LaterUntouched' /\ OneOwner'
<1> USE DEF IInv, Keeps
<1>1. MainTurn'
  BY DEF MainTurn
<1>2. LaterUntouched'
  <2> SUFFICES ASSUME NEW t \in Threads, NEW j \in 1..Len(Config),
                      pc'[Main] # "input", Owns(t)', srv'[t] = Config[j],
                      next' <= j
               PROVE  j = next' /\ pc'[Main] \in {"detach", "leave"}
    BY DEF LaterUntouched
  <2>1. Owns(t) /\ srv[t] = Config[j] /\ next <= j /\ pc[Main] # "input"
    OBVIOUS
  <2>2. j = next /\ pc[Main] \in {"detach", "leave"}
    BY <2>1 DEF LaterUntouched
  <2> QED
    BY <2>2
<1>3. OneOwner'
  BY DEF OneOwner
<1> QED
  BY <1>1, <1>2, <1>3

\* When a thread hands its server over there is one owner as before, and the
\* main thread does so for the reader of the server whose turn it is.
LEMMA HandsOverPreserves ==
    ASSUME IInv, NEW t \in Workers, NEW u \in Threads, HandsOver(t, u)
    PROVE  MainTurn' /\ LaterUntouched' /\ OneOwner'
<1> USE DEF IInv, HandsOver
<1>0. u # Main /\ Main \in Workers
  BY NamesAssumption
<1>1. MainTurn'
  BY <1>0 DEF MainTurn
<1>2. LaterUntouched'
  <2> SUFFICES ASSUME NEW w \in Threads, NEW j \in 1..Len(Config),
                      pc'[Main] # "input", Owns(w)', srv'[w] = Config[j],
                      next' <= j
               PROVE  j = next' /\ pc'[Main] \in {"detach", "leave"}
    BY DEF LaterUntouched
  <2>0. w # t
    OBVIOUS
  <2>1. CASE w # u
    <3>1. Owns(w) /\ srv[w] = Config[j] /\ next <= j
      BY <2>0, <2>1 DEF Owns
    <3>2. CASE t = Main
      <4>1. pc[Main] # "input" /\ pc'[Main] = "detach"
        BY <3>2
      <4>2. j = next
        BY <3>1, <4>1 DEF LaterUntouched
      <4> QED
        BY <4>1, <4>2
    <3>3. CASE t # Main
      BY <3>1, <3>3, <1>0 DEF LaterUntouched
    <3> QED
      BY <3>2, <3>3
  <2>2. CASE w = u
    <3>1. Owns(t) /\ srv[t] = Config[j] /\ next <= j
      BY <2>2
    <3>2. CASE t = Main
      <4>1. next \in 1..Len(Config) /\ Config[next] = Config[j]
        BY <3>1, <3>2 DEF MainTurn
      <4>2. j = next
        BY <4>1, ConfigAssumption
      <4> QED
        BY <3>2, <4>2
    <3>3. CASE t # Main
      BY <3>1, <3>3, <1>0 DEF LaterUntouched
    <3> QED
      BY <3>2, <3>3
  <2> QED
    BY <2>1, <2>2
<1>3. OneOwner'
  <2> SUFFICES ASSUME NEW v \in Workers, NEW w \in Workers,
                      Owns(v)', Owns(w)', srv'[v] = srv'[w]
               PROVE  v = w
    BY DEF OneOwner
  <2>1. v # t /\ w # t
    OBVIOUS
  <2>2. CASE v # u /\ w # u
    BY <2>1, <2>2 DEF OneOwner, Owns
  <2>3. CASE v = u /\ w # u
    <3>1. Owns(w) /\ srv[w] = srv[t]
      BY <2>1, <2>3 DEF Owns
    <3> QED
      BY <2>1, <3>1 DEF OneOwner
  <2>4. CASE v # u /\ w = u
    <3>1. Owns(v) /\ srv[v] = srv[t]
      BY <2>1, <2>4 DEF Owns
    <3> QED
      BY <2>1, <3>1 DEF OneOwner
  <2> QED
    BY <2>2, <2>3, <2>4
<1> QED
  BY <1>1, <1>2, <1>3

\* The server whose turn comes is one nobody worked for so far.
LEMMA TakesTurnPreserves ==
    ASSUME IInv, TakesTurn
    PROVE  MainTurn' /\ LaterUntouched' /\ OneOwner'
<1> USE DEF IInv, TakesTurn
<1>0. next \in 1..Len(Config)
  BY DEF MainTurn
<1>1. next + 1 \in Nat \ {0}
  BY <1>0
<1>2. pc'[Main] # "input" => /\ next' \in 1..Len(Config)
                             /\ srv'[Main] = Config[next']
                             /\ pc'[Main] = "connect"
  BY <1>1, MainAtTypes
<1>3. ASSUME NEW w \in Threads, NEW j \in 1..Len(Config),
             Owns(w), srv[w] = Config[j], next + 1 <= j
      PROVE  FALSE
  BY <1>0, <1>3 DEF LaterUntouched
<1>4. \A w \in Threads : Owns(w)' = Owns(w)
  BY DEF Owns
<1>5. MainTurn'
  BY <1>2 DEF MainTurn
<1>6. LaterUntouched'
  BY <1>3, <1>4 DEF LaterUntouched
<1>7. OneOwner'
  <2>0. Owns(Main)' => pc'[Main] # "input"
    BY StepNames DEF Owns, Opening, Reading
  <2>1. ASSUME NEW w \in Threads, Owns(w)', Owns(Main)', srv'[w] = srv'[Main]
        PROVE  FALSE
    BY <1>2, <1>3, <1>4, <2>0, <2>1
  <2>2. ASSUME NEW v \in Threads, NEW w \in Threads,
               Owns(v)', Owns(w)', srv'[v] = srv'[w]
        PROVE  v = w
    BY <1>4, <2>2 DEF OneOwner
  <2> QED
    BY <2>1, <2>2 DEF OneOwner
<1> QED
  BY <1>5, <1>6, <1>7

\* The invariant is inductive.
LEMMA StepIInv == IInv /\ [Next]_vars => IInv'
<1> SUFFICES ASSUME IInv, [Next]_vars PROVE IInv'
  OBVIOUS
<1>1. TypeOK'
  BY TypeStep
<1>2. CASE UNCHANGED vars
  <2>1. MainTurn' /\ LaterUntouched' /\ OneOwner'
    BY <1>2 DEF vars, IInv, MainTurn, LaterUntouched, OneOwner, Owns
  <2> QED
    BY <1>1, <2>1 DEF IInv
<1>3. ASSUME NEW t \in Workers, ThreadStep(t) \/ NetworkStep(t)
      PROVE  IInv'
  <2>0. TypeOK
    BY DEF IInv
  <2>1. \/ Keeps
        \/ TakesTurn
        \/ \E v \in Workers, u \in Threads : HandsOver(v, u)
    BY <1>3, <2>0, StepShape
  <2> QED
    BY <1>1, <2>1, KeepsPreserves, HandsOverPreserves, TakesTurnPreserves DEF IInv
<1> QED
  BY <1>2, <1>3 DEF Next
-----------------------------------------------------------------------------
\* Every reachable state satisfies the invariant.
THEOREM Invariance == Spec => []IInv
  BY InitIInv, StepIInv, PTL DEF Spec

\* Type correctness: every thread is always at a step of a function it runs,
\* with a server to run it for, and add_to_serverpool detaches a thread
\* pthread_create wrote to srv->thread.
THEOREM TypeCorrect == Spec => []TypeOK
<1>1. IInv => TypeOK
  BY DEF IInv
<1> QED
  BY <1>1, Invariance, PTL

\* The fields of a server that load_servers, try_rejoin and server_recv use
\* without a lock never have two threads working on them.
THEOREM OneOwnerAlways == Spec => []OneOwner
<1>1. IInv => OneOwner
  BY DEF IInv
<1> QED
  BY <1>1, Invariance, PTL
-----------------------------------------------------------------------------
(***************************************************************************)
(* The pool, the descriptors and the counters of rejoins.                  *)
(***************************************************************************)

\* The servers of the configuration that no thread but the main one has
\* worked for yet.
Fresh(s) ==
    /\ pc[Main] # "input"
    /\ \E j \in next..Len(Config) :
          s = Config[j] /\ (j = next => pc[Main] \notin {"detach", "leave"})

Pooled(s) == \E i \in DOMAIN serverList : serverList[i] = s

\* The half of PoolExact that holds even when something else takes servers
\* out of the pool.
PoolApart ==
    /\ \A i, j \in DOMAIN serverList :
          serverList[i] = serverList[j] => i = j
    /\ \A t \in Workers :
          pc[t] \in {"connect", "register", "reset", "add"} => ~Pooled(srv[t])

\* Fresh servers come into the pool in their turn only.
FreshNotPooled ==
    \A s \in Servers :
        Fresh(s) /\ ~(pc[Main] = "spawn" /\ s = srv[Main]) => ~Pooled(s)

\* rejoin_tries is 0 from the reset in try_rejoin on, and was never touched
\* for a fresh server.
TriesReset ==
    /\ \A t \in Workers : pc[t] \in {"add", "spawn"} => rejoinTries[srv[t]] = 0
    /\ \A s \in Servers : Fresh(s) => rejoinTries[s] = 0

\* Whom a thread works for was loaded.
Loaded(s) == \E i \in 1..LoadedCount : Config[i] = s
OwnedLoaded == \A t \in Threads : Owns(t) => Loaded(srv[t])

PoolInv == PoolExact /\ FreshNotPooled
TriesInv == NeverBacksOff /\ TriesReset
FullInv == IInv /\ PoolInv /\ TriesInv /\ OwnConnection /\ OwnedLoaded

\* The steps a thread goes through for its server.
GoesOn(from, to) ==
    \/ from = "start" /\ to = "remove"
    \/ from = "remove" /\ to = "connect"
    \/ from = "connect" /\ to = "register"
    \/ from = "register" /\ to \in {"reset", "add"}
    \/ from = "reset" /\ to = "add"
    \/ from = "add" /\ to = "spawn"
    \/ from = "recv" /\ to = "close"
    \/ from = "close" /\ to = "notify"

\* What a step of t does to where any thread w is: nothing, or t goes on with
\* its server, lets go of it, or takes the next one, or another thread is
\* freed or gets t's server.
Moves(t, w) ==
    \/ pc'[w] = pc[w] /\ srv'[w] = srv[w]
    \/ w = t /\ GoesOn(pc[t], pc'[t]) /\ srv'[t] = srv[t]
    \/ w = t /\ pc'[t] \in Resting
    \/ w = t /\ pc'[t] = "connect" /\ t = Main /\ pc[Main] # "input"
       /\ next' = next + 1 /\ next' \in 1..Len(Config) /\ srv'[t] = Config[next']
    \/ w # t /\ pc[w] = "zombie" /\ pc'[w] = "free" /\ w \in Threads
    \/ w # t /\ pc[t] = "spawn" /\ pc'[w] = "recv" /\ srv'[w] = srv[t]
       /\ pc[w] = "free"
    \/ w # t /\ pc[t] = "notify" /\ pc'[w] = "start" /\ srv'[w] = srv[t]
       /\ pc[w] = "free"

LEMMA ContinueMoves ==
    ASSUME IInv, NEW t \in Workers, pc[t] \in {"spawn", "leave"}, Continue(t),
           NEW w \in Workers
    PROVE  Moves(t, w)
<1> USE DEF IInv, TypeOK, FieldTypes, Continue, Goto, Moves, Resting
<1>1. CASE t = Main
  <2>1. next \in 1..Len(Config) /\ next + 1 \in Nat \ {0}
    BY <1>1 DEF MainTurn
  <2>2. /\ MainAt(next + 1) \in {"connect", "input"}
        /\ MainAt(next + 1) # "input" => /\ next + 1 \in 1..Len(Config)
                                         /\ MainServer(next + 1) = Config[next + 1]
    BY <2>1, MainAtTypes
  <2>3. /\ pc' = [pc EXCEPT ![t] = MainAt(next + 1)]
        /\ srv' = [srv EXCEPT ![t] = MainServer(next + 1)]
        /\ next' = next + 1
    BY <1>1
  <2> QED
    BY <1>1, <2>2, <2>3
<1>2. CASE t # Main
  BY <1>2
<1> QED
  BY <1>1, <1>2

LEMMA StepMoves ==
    ASSUME IInv, NEW t \in Workers, ThreadStep(t) \/ NetworkStep(t),
           NEW w \in Workers
    PROVE  Moves(t, w)
<1> USE DEF IInv, TypeOK, FieldTypes, Goto, Moves, GoesOn, Resting
<1>1. CASE ServerConnect(t) \/ ResetAfterRejoin(t) \/ AddToServerpool(t)
           \/ ServerDisconnect(t) \/ TryRejoin(t) \/ RemoveFromServerpool(t)
  BY <1>1 DEF ServerConnect, ResetAfterRejoin, AddToServerpool,
     ServerDisconnect, TryRejoin, RemoveFromServerpool
<1>2. CASE HandleRegisteration(t)
  BY <1>2 DEF HandleRegisteration
<1>3. CASE SocketFails(t) \/ ConnectRefused(t)
  BY <1>3 DEF SocketFails, ConnectRefused, ConnectFailed
<1>4. CASE LoseConnection(t) \/ SelectFails(t) \/ GotIn(t) \/ ServerRejoinFails(t)
  BY <1>4 DEF LoseConnection, SelectFails, GotIn, ServerRejoinFails,
     AfterDisconnect
<1>5. CASE SpawnReader(t)
  BY <1>5 DEF SpawnReader, FreeThreads
<1>6. CASE ServerRejoin(t)
  BY <1>6 DEF ServerRejoin, FreeThreads, AfterDisconnect
<1>7. CASE SpawnReaderFails(t) \/ Leave(t)
  BY <1>7, ContinueMoves DEF SpawnReaderFails, Leave
<1>8. CASE DetachReader(t)
  BY <1>8, StepNames, NamesAssumption DEF DetachReader, ThreadTypes
<1> QED
  BY <1>1, <1>2, <1>3, <1>4, <1>5, <1>6, <1>7, <1>8 DEF ThreadStep, NetworkStep

\* Which steps touch the pool, the descriptors and the counters.
LEMMA Untouched ==
    ASSUME NEW t \in Workers, ThreadStep(t) \/ NetworkStep(t)
    PROVE  /\ pc[t] = "add" => AddToServerpool(t)
           /\ pc[t] = "remove" => RemoveFromServerpool(t)
           /\ pc[t] \notin {"add", "remove"} => UNCHANGED serverList
           /\ pc[t] = "close" => ServerDisconnect(t)
           /\ pc[t] = "connect" =>
                 ServerConnect(t) \/ ConnectRefused(t) \/ SocketFails(t)
           /\ pc[t] \notin {"connect", "close"} => UNCHANGED <<sock, conn>>
           /\ pc[t] = "reset" => ResetAfterRejoin(t)
           /\ pc[t] = "start" => TryRejoin(t)
           /\ pc[t] = "register" => HandleRegisteration(t)
           /\ GotIn(t) \/ pc[t] \in {"reset", "start"} \/ UNCHANGED rejoinTries
           /\ GotIn(t) \/ pc[t] \in {"reset", "connect"} \/ UNCHANGED motdSent
  BY DEF ThreadStep, NetworkStep, ServerConnect, ResetAfterRejoin,
     AddToServerpool, ServerDisconnect, TryRejoin, RemoveFromServerpool,
     HandleRegisteration, SocketFails, ConnectRefused, LoseConnection,
     SelectFails, GotIn, ServerRejoinFails, SpawnReader, ServerRejoin,
     SpawnReaderFails, Leave, DetachReader

\* No other thread works for a fresh server.
LEMMA FreshAlone ==
    ASSUME IInv, NEW t \in Threads, Owns(t)
    PROVE  ~Fresh(srv[t])
  BY ConfigAssumption DEF IInv, LaterUntouched, Fresh, TypeOK, FieldTypes

\* A server that was worked for is not fresh again.
LEMMA FreshShrinks ==
    ASSUME IInv, NEW t \in Workers, ThreadStep(t) \/ NetworkStep(t),
           NEW s, Fresh(s)'
    PROVE  Fresh(s)
<1>1. \/ Keeps
      \/ TakesTurn
      \/ \E u \in Threads : HandsOver(t, u)
  BY StepShape DEF IInv
<1>2. next \in Nat /\ pc'[Main] # "input" /\ Main \notin Threads /\ Main \in Workers
  BY NamesAssumption DEF IInv, TypeOK, FieldTypes, Fresh
<1>3. CASE Keeps
  BY <1>2, <1>3 DEF Keeps, Fresh
<1>4. CASE TakesTurn
  BY <1>2, <1>4 DEF TakesTurn, Fresh
<1>5. ASSUME NEW u \in Threads, HandsOver(t, u)
      PROVE  Fresh(s)
  <2>1. CASE t = Main
    BY <1>2, <1>5, <2>1 DEF HandsOver, Fresh
  <2>2. CASE t # Main
    BY <1>2, <1>5, <2>2 DEF HandsOver, Fresh
  <2> QED
    BY <2>1, <2>2
<1> QED
  BY <1>1, <1>3, <1>4, <1>5

\* What remove_from_serverpool leaves of a list without duplicates.
LEMMA Removed ==
    ASSUME NEW list \in Seq(Servers), NEW s \in Servers,
           \A i, j \in DOMAIN list : list[i] = list[j] => i = j,
           NEW I, \A i : i \in I <=> i \in DOMAIN list /\ list[i] # s,
           NEW kept \in InOrder(I),
           NEW rest, rest = [k \in DOMAIN kept |-> list[kept[k]]]
    PROVE  /\ \A i, j \in DOMAIN rest : rest[i] = rest[j] => i = j
           /\ \A i \in DOMAIN rest :
                 rest[i] # s /\ \E k \in DOMAIN list : rest[i] = list[k]
           /\ \A k \in DOMAIN list :
                 list[k] # s => \E i \in DOMAIN rest : rest[i] = list[k]
<1>1. IsFiniteSet(1..Len(list)) /\ I \subseteq 1..Len(list)
  BY FS_Interval
<1>2. Cardinality(I) \in Nat
  BY <1>1, FS_Subset, FS_CardinalityType
<1>3. /\ DOMAIN rest = 1..Cardinality(I)
      /\ \A k \in DOMAIN rest : kept[k] \in I /\ rest[k] = list[kept[k]]
      /\ \A j, k \in DOMAIN rest : j < k => kept[j] < kept[k]
      /\ \A i \in I : \E k \in DOMAIN rest : kept[k] = i
  BY DEF InOrder
<1>4. ASSUME NEW i \in DOMAIN rest, NEW j \in DOMAIN rest, rest[i] = rest[j]
      PROVE  i = j
  <2>1. kept[i] = kept[j] /\ kept[i] \in Nat
    BY <1>1, <1>3, <1>4
  <2>2. i \in Nat /\ j \in Nat
    BY <1>2, <1>3
  <2> QED
    BY <1>3, <2>1, <2>2
<1>5. \A i \in DOMAIN rest :
         rest[i] # s /\ \E k \in DOMAIN list : rest[i] = list[k]
  BY <1>3
<1>6. \A k \in DOMAIN list :
         list[k] # s => \E i \in DOMAIN rest : rest[i] = list[k]
  BY <1>3
<1> QED
  BY <1>4, <1>5, <1>6

\* What a step of t does to the pool: it appends t's server or takes it out.
PoolAfter(t) ==
    /\ \A i, j \in DOMAIN serverList' :
          serverList'[i] = serverList'[j] => i = j
    /\ \A s \in Servers :
          \/ Pooled(s)' <=> Pooled(s)
          \/ s = srv[t] /\ pc[t] = "add" /\ Pooled(s)'
          \/ s = srv[t] /\ pc[t] = "remove" /\ ~Pooled(s)'
    /\ \A s \in Servers : /\ s = srv[t] /\ pc[t] = "add" => Pooled(s)'
                          /\ s = srv[t] /\ pc[t] = "remove" => ~Pooled(s)'

LEMMA PoolChange ==
    ASSUME IInv, PoolApart, NEW t \in Workers,
           ThreadStep(t) \/ NetworkStep(t)
    PROVE  PoolAfter(t)
<1> USE DEF PoolAfter
<1>0. /\ serverList \in Seq(Servers)
      /\ \A i, j \in DOMAIN serverList : serverList[i] = serverList[j] => i = j
  BY DEF PoolApart, IInv, TypeOK, FieldTypes
<1>1. CASE pc[t] = "add"
  <2>1. serverList' = Append(serverList, srv[t])
    BY <1>1, Untouched DEF AddToServerpool
  <2>2. srv[t] \in Servers /\ \A i \in DOMAIN serverList : serverList[i] # srv[t]
    BY <1>1 DEF PoolApart, Pooled, IInv, TypeOK, ThreadTypes
  <2>3. /\ DOMAIN serverList' = 1..(Len(serverList) + 1)
        /\ DOMAIN serverList = 1..Len(serverList) /\ Len(serverList) \in Nat
        /\ \A i \in DOMAIN serverList : serverList'[i] = serverList[i]
        /\ serverList'[Len(serverList) + 1] = srv[t]
    BY <1>0, <2>1, <2>2
  <2>4. \A i, j \in DOMAIN serverList' : serverList'[i] = serverList'[j] => i = j
    BY <1>0, <2>2, <2>3
  <2>5. \A s \in Servers : s = srv[t] => Pooled(s)'
    BY ONLY <2>3 DEF Pooled
  <2>6. \A s \in Servers : s # srv[t] => (Pooled(s)' <=> Pooled(s))
    BY ONLY <2>3 DEF Pooled
  <2> QED
    BY <1>1, <2>4, <2>5, <2>6
<1>2. CASE pc[t] = "remove"
  <2>0. \A i : i \in KeptEntries(srv[t]) <=>
                  i \in DOMAIN serverList /\ serverList[i] # srv[t]
    BY DEF KeptEntries
  <2>1. PICK kept \in InOrder(KeptEntries(srv[t])) :
           serverList' = [k \in DOMAIN kept |-> serverList[kept[k]]]
    BY <1>2, Untouched DEF RemoveFromServerpool
  <2>2. srv[t] \in Servers
    BY <1>2 DEF IInv, TypeOK, ThreadTypes
  <2>3. /\ \A i, j \in DOMAIN serverList' : serverList'[i] = serverList'[j] => i = j
        /\ \A i \in DOMAIN serverList' :
              /\ serverList'[i] # srv[t]
              /\ \E k \in DOMAIN serverList : serverList'[i] = serverList[k]
        /\ \A k \in DOMAIN serverList : serverList[k] # srv[t] =>
              \E i \in DOMAIN serverList' : serverList'[i] = serverList[k]
    BY ONLY <1>0, <2>0, <2>1, <2>2, Removed, SMTT(40)
  <2>4. \A s \in Servers : s = srv[t] => ~Pooled(s)'
    BY ONLY <2>3 DEF Pooled
  <2>5. \A s \in Servers : s # srv[t] => (Pooled(s)' <=> Pooled(s))
    BY ONLY <2>3 DEF Pooled
  <2> QED
    BY <1>2, <2>3, <2>4, <2>5
<1>3. CASE pc[t] \notin {"add", "remove"}
  BY <1>0, <1>3, Untouched DEF Pooled
<1> QED
  BY <1>1, <1>2, <1>3

\* The turn of the main thread never goes back.
LEMMA TurnAdvances ==
    ASSUME IInv, NEW t \in Workers, ThreadStep(t) \/ NetworkStep(t)
    PROVE  next' = next \/ next' = next + 1
  BY StepShape DEF IInv, Keeps, TakesTurn, HandsOver

\* Where the two steps that change the pool lead.
LEMMA PoolStepGoes ==
    ASSUME IInv, NEW t \in Workers, ThreadStep(t) \/ NetworkStep(t),
           pc[t] \in {"add", "remove"}
    PROVE  /\ srv' = srv /\ next' = next
           /\ pc[t] = "add" => pc' = [pc EXCEPT ![t] = "spawn"]
           /\ pc[t] = "remove" => pc' = [pc EXCEPT ![t] = "connect"]
  BY Untouched DEF AddToServerpool, RemoveFromServerpool, Goto

\* A server that is being opened stays out of the pool: one owner at a time adds a server or takes it out,
\* and the server whose turn comes was not in it.
LEMMA ApartStep ==
    ASSUME IInv, PoolApart, FreshNotPooled, NEW t \in Workers,
           ThreadStep(t) \/ NetworkStep(t)
    PROVE  PoolApart' /\ FreshNotPooled'
<1>a. OneOwner
  BY DEF IInv
<1>b. \A w \in Workers : Owns(w) => srv[w] \in Servers
  BY DEF IInv, TypeOK, ThreadTypes, Owns, Opening, Reading
<1>c. /\ Main \in Workers /\ Main \notin Threads
      /\ pc \in [Workers -> Steps] /\ next \in Nat
  BY NamesAssumption DEF IInv, TypeOK, FieldTypes
<1>d. PoolAfter(t)
  BY PoolChange
<1>0. /\ PoolApart /\ FreshNotPooled /\ OneOwner
      /\ Main \in Workers /\ Main \notin Threads
      /\ \A w \in Workers : Owns(w) => srv[w] \in Servers
      /\ pc \in [Workers -> Steps] /\ next \in Nat
  BY <1>a, <1>b, <1>c
<1>1. /\ \A i, j \in DOMAIN serverList' :
            serverList'[i] = serverList'[j] => i = j
      /\ \A s \in Servers :
            \/ Pooled(s)' <=> Pooled(s)
            \/ s = srv[t] /\ pc[t] = "add" /\ Pooled(s)'
            \/ s = srv[t] /\ pc[t] = "remove" /\ ~Pooled(s)'
      /\ \A s \in Servers : /\ s = srv[t] /\ pc[t] = "add" => Pooled(s)'
                            /\ s = srv[t] /\ pc[t] = "remove" => ~Pooled(s)'
  BY <1>d DEF PoolAfter
<1>2. \A w \in Workers : pc[w] \in {"connect", "register", "reset", "add"} =>
         ~Pooled(srv[w])
  BY DEF PoolApart
<1>3. /\ pc[t] = "add" => pc'[t] = "spawn" /\ srv'[t] = srv[t]
      /\ pc[t] = "remove" => pc'[t] = "connect" /\ srv'[t] = srv[t]
  BY <1>0, PoolStepGoes
<1>4. ASSUME NEW w \in Workers, NEW s \in Servers, s = srv'[w]
      PROVE  pc'[w] \in {"connect", "register", "reset", "add"} => ~Pooled(s)'
  <2>1. Moves(t, w)
    BY StepMoves
  <2>2. CASE pc'[w] = pc[w] /\ srv'[w] = srv[w]
    <3>1. CASE ~Owns(w)
      BY <2>2, <3>1 DEF Owns, Opening, Reading
    <3>2. CASE Owns(w) /\ ~(s = srv[t] /\ pc[t] \in {"add", "remove"})
      BY <1>1, <1>2, <1>4, <2>2, <3>2
    <3>3. CASE Owns(w) /\ s = srv[t] /\ pc[t] \in {"add", "remove"}
      <4>1. w = t
        BY <1>0, <1>4, <2>2, <3>3 DEF OneOwner, Owns, Opening
      <4> QED
        BY <1>3, <2>2, <3>3, <4>1
    <3> QED
      BY <3>1, <3>2, <3>3
  <2>3. CASE w = t /\ GoesOn(pc[t], pc'[t]) /\ srv'[t] = srv[t]
    BY <1>1, <1>2, <1>4, <2>3 DEF GoesOn, Reading
  <2>4. CASE pc'[w] \in Resting
    BY <2>4 DEF Resting, Reading
  <2>5. CASE /\ w = t /\ pc'[t] = "connect" /\ t = Main /\ pc[Main] # "input"
             /\ next' = next + 1 /\ next' \in 1..Len(Config) /\ srv'[t] = Config[next']
    <3>1. /\ next \in 1..Len(Config) /\ srv[t] = Config[next]
          /\ s = Config[next + 1] /\ next + 1 \in 1..Len(Config)
      BY <1>4, <2>5 DEF IInv, MainTurn
    <3>2. s # srv[t]
      BY <1>0, <3>1, ConfigAssumption
    <3>3. Fresh(s)
      BY <1>0, <2>5, <3>1 DEF Fresh
    <3>4. ~Pooled(s)
      BY <1>0, <2>5, <3>2, <3>3 DEF FreshNotPooled
    <3> QED
      BY <1>1, <2>5, <3>2, <3>4 DEF Reading
  <2>6. CASE w # t /\ pc[t] = "spawn" /\ pc'[w] = "recv" /\ srv'[w] = srv[t]
    BY <1>1, <1>2, <1>4, <2>6
  <2>7. CASE w # t /\ pc[t] = "notify" /\ pc'[w] = "start" /\ srv'[w] = srv[t]
    BY <2>7 DEF Reading
  <2> QED
    BY <2>1, <2>2, <2>3, <2>4, <2>5, <2>6, <2>7 DEF Moves, Resting
<1>5. PoolApart'
  <2>1. \A w \in Workers : pc'[w] \in Opening \cup Reading => srv'[w] \in Servers
    BY TypeStep DEF TypeOK, ThreadTypes, Opening, Reading, Next
  <2>2. \A w \in Workers : pc'[w] \in {"connect", "register", "reset", "add"} =>
           \A i \in DOMAIN serverList' : serverList'[i] # srv'[w]
    BY <1>4, <2>1 DEF Pooled, Opening
  <2> QED
    BY <1>1, <2>2 DEF PoolApart, Pooled
<1>6. FreshNotPooled'
  <2> SUFFICES ASSUME NEW s \in Servers, Fresh(s)',
                      ~(pc'[Main] = "spawn" /\ s = srv'[Main])
               PROVE  ~Pooled(s)'
    BY DEF FreshNotPooled
  <2>1. Fresh(s)
    BY FreshShrinks
  <2>2. ~(s = srv[t] /\ pc[t] = "add")
    <3>1. CASE t = Main
      BY <1>3, <3>1
    <3>2. CASE t # Main
      BY <2>1, <3>2, FreshAlone DEF Owns, Opening
    <3> QED
      BY <3>1, <3>2
  <2>3. ~(s = srv[Main] /\ pc[Main] = "spawn")
    <3> SUFFICES ASSUME s = srv[Main], pc[Main] = "spawn" PROVE FALSE
      OBVIOUS
    <3>1. next \in 1..Len(Config) /\ s = Config[next]
      BY DEF IInv, MainTurn
    <3>2. Moves(t, Main)
      BY <1>0, StepMoves
    <3>3. pc'[Main] # "input" /\ (next' = next \/ next' = next + 1)
      BY TurnAdvances DEF Fresh
    <3>4. pc'[Main] \in {"connect", "register", "add", "spawn", "detach",
                         "leave", "input"}
      BY TypeStep DEF TypeOK, ThreadTypes, Next
    <3>5. PICK j \in next'..Len(Config) :
             s = Config[j] /\ (j = next' => pc'[Main] \notin {"detach", "leave"})
      BY DEF Fresh
    <3>6. j \in 1..Len(Config) /\ next \in 1..Len(Config)
      BY <3>1, <3>3
    <3>7. j = next
      BY <3>1, <3>5, <3>6, ConfigAssumption
    <3>8. next' = next /\ pc'[Main] \notin {"detach", "leave"}
      BY <3>3, <3>5, <3>6, <3>7
    <3> QED
      BY <1>0, <3>2, <3>3, <3>4, <3>8 DEF Moves, GoesOn, Resting
  <2>4. ~Pooled(s)
    BY <1>0, <2>1, <2>3 DEF FreshNotPooled
  <2> QED
    BY <1>1, <2>2, <2>4
<1> QED
  BY <1>5, <1>6

\* A server that is read stays in the pool: only its own thread takes it out.
LEMMA PoolKept ==
    ASSUME IInv, PoolInv, NEW t \in Workers, ThreadStep(t) \/ NetworkStep(t)
    PROVE  PoolInv'
<1>a. PoolApart /\ FreshNotPooled /\ OneOwner
  BY DEF PoolInv, PoolExact, PoolApart, Pooled, IInv
<1>d. PoolAfter(t)
  BY <1>a, PoolChange
<1>1. /\ \A s \in Servers :
            \/ Pooled(s)' <=> Pooled(s)
            \/ s = srv[t] /\ pc[t] = "add" /\ Pooled(s)'
            \/ s = srv[t] /\ pc[t] = "remove" /\ ~Pooled(s)'
      /\ \A s \in Servers : s = srv[t] /\ pc[t] = "add" => Pooled(s)'
  BY <1>d DEF PoolAfter
<1>2. \A w \in Workers : pc[w] \in Reading \cup {"spawn"} => Pooled(srv[w])
  BY DEF PoolInv, PoolExact, Pooled
<1>3. pc[t] = "remove" => pc'[t] = "connect"
  BY PoolStepGoes DEF IInv, TypeOK, FieldTypes
<1>4. ASSUME NEW w \in Workers, NEW s \in Servers, s = srv'[w],
             pc'[w] \in Reading \cup {"spawn"}
      PROVE  Pooled(s)'
  <2>1. Moves(t, w)
    BY StepMoves
  <2>2. CASE pc'[w] = pc[w] /\ srv'[w] = srv[w]
    <3>1. Pooled(s) /\ Owns(w)
      BY <1>2, <1>4, <2>2 DEF Owns, Opening, Reading
    <3>2. CASE s = srv[t] /\ pc[t] = "remove"
      <4>1. w = t
        BY <1>a, <1>4, <2>2, <3>1, <3>2 DEF OneOwner, Owns, Opening
      <4> QED
        BY <1>3, <1>4, <2>2, <3>2, <4>1 DEF Reading
    <3>3. CASE ~(s = srv[t] /\ pc[t] = "remove")
      BY <1>1, <3>1, <3>3
    <3> QED
      BY <3>2, <3>3
  <2>3. CASE w = t /\ GoesOn(pc[t], pc'[t]) /\ srv'[t] = srv[t]
    BY <1>1, <1>2, <1>4, <2>3 DEF GoesOn, Reading
  <2>4. CASE w # t /\ pc[t] = "spawn" /\ pc'[w] = "recv" /\ srv'[w] = srv[t]
    BY <1>1, <1>2, <1>4, <2>4
  <2> QED
    BY <1>4, <2>1, <2>2, <2>3, <2>4 DEF Moves, Resting, Reading
<1>5. \A w \in Workers : pc'[w] \in Reading \cup {"spawn"} => srv'[w] \in Servers
  BY TypeStep DEF TypeOK, ThreadTypes, Reading, Next
<1>6. \A w \in Workers : pc'[w] \in Reading \cup {"spawn"} =>
         \E i \in DOMAIN serverList' : serverList'[i] = srv'[w]
  BY <1>4, <1>5 DEF Pooled
<1>7. PoolApart' /\ FreshNotPooled'
  BY <1>a, ApartStep
<1>8. PoolExact'
  BY <1>6, <1>7 DEF PoolExact, PoolApart, Pooled
<1> QED
  BY <1>7, <1>8 DEF PoolInv
-----------------------------------------------------------------------------
\* What a step of t does to rejoin_tries.
TriesAfter(t) ==
    \A s \in Servers :
        \/ rejoinTries'[s] = rejoinTries[s]
        \/ s = srv[t] /\ pc[t] = "recv" /\ rejoinTries'[s] = 0
        \/ s = srv[t] /\ pc[t] = "reset" /\ rejoinTries'[s] = 0
        \/ s = srv[t] /\ pc[t] = "start" /\ rejoinTries'[s] = rejoinTries[s] + 1

LEMMA TriesChange ==
    ASSUME IInv, NEW t \in Workers, ThreadStep(t) \/ NetworkStep(t)
    PROVE  /\ TriesAfter(t)
           /\ \A s \in Servers :
                 s = srv[t] /\ pc[t] = "reset" => rejoinTries'[s] = 0
           /\ pc[t] = "register" => pc'[t] = IF t = Main THEN "add" ELSE "reset"
           /\ pc[t] = "reset" => pc'[t] = "add"
           /\ pc[t] = "start" => pc'[t] = "remove"
<1>0. rejoinTries \in [Servers -> Nat] /\ pc \in [Workers -> Steps]
  BY DEF IInv, TypeOK, FieldTypes
<1>1. CASE GotIn(t)
  BY <1>0, <1>1 DEF GotIn, TriesAfter
<1>2. CASE pc[t] = "reset"
  BY <1>0, <1>2, Untouched DEF ResetAfterRejoin, Goto, TriesAfter
<1>3. CASE pc[t] = "start"
  BY <1>0, <1>3, Untouched DEF TryRejoin, Goto, TriesAfter
<1>4. CASE ~GotIn(t) /\ pc[t] \notin {"reset", "start"}
  <2>1. rejoinTries' = rejoinTries
    BY <1>4, Untouched
  <2>2. pc[t] = "register" => pc'[t] = IF t = Main THEN "add" ELSE "reset"
    BY <1>0, Untouched DEF HandleRegisteration, Goto
  <2> QED
    BY <1>4, <2>1, <2>2 DEF TriesAfter
<1> QED
  BY <1>1, <1>2, <1>3, <1>4

\* What NeverBacksOff and TriesReset ask of the counter of a server that a
\* thread works for at a step.
TriesAt(step, n) ==
    /\ step \in Reading \cup {"start", "add", "spawn"} => n = 0
    /\ step \in Opening => n <= 1

\* The counter goes up once in a rejoin, from 0, and back to 0 before the
\* server is read.
LEMMA TriesStep ==
    ASSUME IInv, TriesInv, NEW t \in Workers, ThreadStep(t) \/ NetworkStep(t)
    PROVE  TriesInv'
<1>a. /\ \A w \in Workers : TriesAt(pc[w], rejoinTries[srv[w]])
      /\ \A s \in Servers : Fresh(s) => rejoinTries[s] = 0
  BY DEF TriesInv, NeverBacksOff, TriesReset, TriesAt
<1>b. /\ Main \in Workers /\ Main \notin Threads
      /\ pc \in [Workers -> Steps] /\ next \in Nat
      /\ rejoinTries \in [Servers -> Nat]
      /\ pc[Main] \in {"connect", "register", "add", "spawn", "detach",
                       "leave", "input"}
  BY NamesAssumption DEF IInv, TypeOK, FieldTypes, ThreadTypes
<1>c. OneOwner
  BY DEF IInv
<1>d. /\ TriesAfter(t)
      /\ \A s \in Servers :
            s = srv[t] /\ pc[t] = "reset" => rejoinTries'[s] = 0
      /\ pc[t] = "register" => pc'[t] = IF t = Main THEN "add" ELSE "reset"
      /\ pc[t] = "reset" => pc'[t] = "add"
      /\ pc[t] = "start" => pc'[t] = "remove"
  BY TriesChange
<1>1. ASSUME NEW w \in Workers, NEW s \in Servers, s = srv'[w]
      PROVE  TriesAt(pc'[w], rejoinTries'[s])
  <2>0. rejoinTries[s] \in Nat
    BY <1>b
  <2>1. Moves(t, w)
    BY StepMoves
  <2>2. CASE pc'[w] = pc[w] /\ srv'[w] = srv[w]
    <3>1. CASE ~Owns(w)
      BY <2>2, <3>1 DEF Owns, Opening, Reading, TriesAt
    <3>2. CASE Owns(w) /\ rejoinTries'[s] = rejoinTries[s]
      BY <1>a, <1>1, <2>2, <3>2
    <3>3. CASE Owns(w) /\ rejoinTries'[s] # rejoinTries[s]
      <4>1. s = srv[t] /\ pc[t] \in {"recv", "reset", "start"}
        BY <1>d, <3>3 DEF TriesAfter
      <4>2. w = t
        BY <1>1, <1>c, <2>2, <3>3, <4>1 DEF OneOwner, Owns, Opening, Reading
      <4>3. rejoinTries'[s] = 0
        BY <1>d, <2>2, <3>3, <4>1, <4>2 DEF TriesAfter
      <4> QED
        BY <4>3 DEF TriesAt
    <3> QED
      BY <3>1, <3>2, <3>3
  <2>3. CASE w = t /\ GoesOn(pc[t], pc'[t]) /\ srv'[t] = srv[t]
    <3>0. s = srv[t] /\ TriesAt(pc[t], rejoinTries[s])
      BY <1>a, <1>1, <2>3
    <3>1. CASE pc[t] = "register" /\ t = Main
      <4>1. Fresh(s)
        BY <1>b, <3>0, <3>1 DEF Fresh, IInv, MainTurn
      <4>2. rejoinTries'[s] = 0
        BY <1>a, <1>d, <3>1, <4>1 DEF TriesAfter
      <4> QED
        BY <4>2 DEF TriesAt
    <3>2. CASE ~(pc[t] = "register" /\ t = Main)
      BY <1>d, <2>0, <2>3, <3>0, <3>2
         DEF GoesOn, TriesAfter, TriesAt, Opening, Reading
    <3> QED
      BY <3>1, <3>2
  <2>4. CASE pc'[w] \in Resting
    BY <2>4 DEF Resting, Reading, Opening, TriesAt
  <2>5. CASE /\ w = t /\ pc'[t] = "connect" /\ t = Main /\ pc[Main] # "input"
             /\ next' = next + 1 /\ next' \in 1..Len(Config) /\ srv'[t] = Config[next']
    <3>1. /\ s = Config[next + 1] /\ next + 1 \in 1..Len(Config)
      BY <1>1, <2>5
    <3>2. Fresh(s)
      BY <1>b, <2>5, <3>1 DEF Fresh
    <3>3. rejoinTries'[s] = 0
      BY <1>a, <1>b, <1>d, <2>5, <3>2 DEF TriesAfter
    <3> QED
      BY <3>3 DEF TriesAt
  <2>6. CASE \/ w # t /\ pc[t] = "spawn" /\ pc'[w] = "recv" /\ srv'[w] = srv[t]
             \/ w # t /\ pc[t] = "notify" /\ pc'[w] = "start" /\ srv'[w] = srv[t]
    <3>1. s = srv[t] /\ rejoinTries[s] = 0
      BY <1>a, <1>1, <2>6 DEF TriesAt, Reading
    <3>2. rejoinTries'[s] = 0
      BY <1>d, <2>6, <3>1 DEF TriesAfter
    <3> QED
      BY <3>2 DEF TriesAt
  <2> QED
    BY <2>1, <2>2, <2>3, <2>4, <2>5, <2>6 DEF Moves, Resting
<1>2. \A w \in Workers : pc'[w] \in Opening \cup Reading => srv'[w] \in Servers
  BY TypeStep DEF TypeOK, ThreadTypes, Opening, Reading, Next
<1>3. \A w \in Workers :
         pc'[w] \in Opening \cup Reading => TriesAt(pc'[w], rejoinTries'[srv'[w]])
  BY <1>1, <1>2
<1>4. NeverBacksOff' /\ \A w \in Workers :
         pc'[w] \in {"add", "spawn"} => rejoinTries'[srv'[w]] = 0
  BY <1>3 DEF NeverBacksOff, TriesAt, Opening, Reading
<1>5. \A s \in Servers : Fresh(s)' => rejoinTries'[s] = 0
  <2> SUFFICES ASSUME NEW s \in Servers, Fresh(s)' PROVE rejoinTries'[s] = 0
    OBVIOUS
  <2>1. Fresh(s) /\ rejoinTries[s] = 0
    BY <1>a, FreshShrinks
  <2>2. ~(s = srv[t] /\ pc[t] = "start")
    <3>1. CASE t = Main
      BY <1>b, <3>1
    <3>2. CASE t # Main
      BY <2>1, <3>2, FreshAlone DEF Owns, Opening
    <3> QED
      BY <3>1, <3>2
  <2> QED
    BY <1>d, <2>1, <2>2 DEF TriesAfter
<1> QED
  BY <1>4, <1>5 DEF TriesInv, TriesReset
-----------------------------------------------------------------------------
\* A step of t leaves every connection that is open to its own server alone,
\* except that of the server t opens or closes, and opens that one well.
ConnectionAfter(t) ==
    /\ \A s \in Servers :
          \/ Receives(s) # s
          \/ s = srv[t] /\ pc[t] \in {"connect", "close"}
          \/ sock'[s] = sock[s] /\ conn'[sock[s]] = conn[sock[s]]
    /\ pc[t] = "connect" =>
          \/ pc'[t] \in {"connect", "input"}
          \/ pc'[t] = "register" /\ \A s \in Servers : s = srv[t] => Receives(s)' = s
    /\ pc[t] = "close" => pc'[t] = "notify"

LEMMA ConnectionChange ==
    ASSUME IInv, OwnConnection, NEW t \in Workers,
           ThreadStep(t) \/ NetworkStep(t)
    PROVE  ConnectionAfter(t)
<1>0. /\ sock \in [Servers -> Fds \cup {None}]
      /\ conn \in [Fds -> Servers \cup {None, Unconnected}]
      /\ pc \in [Workers -> Steps]
      /\ pc[t] \in {"connect", "close"} => srv[t] \in Servers
  BY DEF IInv, TypeOK, FieldTypes, ThreadTypes
<1>1. ASSUME NEW s \in Servers, Receives(s) = s
      PROVE  sock[s] \in Fds /\ conn[sock[s]] = s
  BY <1>0, <1>1, NamesAssumption DEF Receives
<1>2. CASE ServerConnect(t) \/ ConnectRefused(t)
  <2>1. pc[t] = "connect" /\ srv[t] \in Servers
    BY <1>0, <1>2 DEF ServerConnect, ConnectRefused
  <2>2. PICK fd \in LowestFreeFd :
           /\ sock' = [sock EXCEPT ![srv[t]] = fd]
           /\ conn' = [conn EXCEPT ![fd] = IF ServerConnect(t) THEN srv[t]
                                           ELSE Unconnected]
    BY <1>2 DEF ServerConnect, ConnectRefused
  <2>3. fd \in Fds /\ conn[fd] = None
    BY <2>2 DEF LowestFreeFd, FreeFds
  <2>4. ASSUME NEW s \in Servers, Receives(s) = s, s # srv[t]
        PROVE  sock'[s] = sock[s] /\ conn'[sock[s]] = conn[sock[s]]
    BY <1>0, <1>1, <2>1, <2>2, <2>3, <2>4, NamesAssumption
  <2>5. CASE ServerConnect(t)
    <3>1. pc'[t] = "register"
      BY <1>0, <2>5 DEF ServerConnect, Goto
    <3>2. \A s \in Servers : s = srv[t] => Receives(s)' = s
      BY <1>0, <2>1, <2>2, <2>3, <2>5, NamesAssumption DEF Receives
    <3> QED
      BY <2>1, <2>4, <3>1, <3>2 DEF ConnectionAfter
  <2>6. CASE ConnectRefused(t)
    <3>1. pc'[t] \in {"connect", "input"}
      BY <1>0, <2>6 DEF ConnectRefused, ConnectFailed, Goto
    <3> QED
      BY <2>1, <2>4, <3>1 DEF ConnectionAfter
  <2> QED
    BY <1>2, <2>5, <2>6
<1>3. CASE SocketFails(t)
  <2>1. pc[t] = "connect" /\ pc'[t] \in {"connect", "input"} /\ conn' = conn
    BY <1>0, <1>3 DEF SocketFails, ConnectFailed, Goto
  <2>2. sock' = [sock EXCEPT ![srv[t]] = None]
    BY <1>3 DEF SocketFails
  <2> QED
    BY <1>0, <2>1, <2>2 DEF ConnectionAfter
<1>4. CASE ServerDisconnect(t)
  <2>1. pc[t] = "close" /\ pc'[t] = "notify" /\ sock' = sock /\ srv[t] \in Servers
    BY <1>0, <1>4 DEF ServerDisconnect, Goto
  <2>2. sock[srv[t]] \in Fds /\ conn[sock[srv[t]]] = srv[t]
    BY <1>1, <2>1 DEF OwnConnection, Linked
  <2>3. conn' = [conn EXCEPT ![sock[srv[t]]] = None]
    BY <1>4, <2>2, NamesAssumption DEF ServerDisconnect
  <2>4. ASSUME NEW s \in Servers, Receives(s) = s, s # srv[t]
        PROVE  conn'[sock[s]] = conn[sock[s]]
    BY <1>0, <1>1, <2>2, <2>3, <2>4
  <2> QED
    BY <2>1, <2>4 DEF ConnectionAfter
<1>5. CASE pc[t] \notin {"connect", "close"}
  BY <1>5, Untouched DEF ConnectionAfter
<1> QED
  BY <1>2, <1>3, <1>4, <1>5, Untouched

\* A connection stays its server's own: descriptors are reused only after
\* they were closed, and only the thread a server belongs to closes its.
LEMMA ConnectionStep ==
    ASSUME IInv, OwnConnection, NEW t \in Workers,
           ThreadStep(t) \/ NetworkStep(t)
    PROVE  OwnConnection'
<1>1. ConnectionAfter(t)
  BY ConnectionChange
<1>2. OneOwner
  BY DEF IInv
<1>3. \A w \in Workers : pc[w] \in Linked => srv[w] \in Servers /\ Receives(srv[w]) = srv[w]
  BY DEF IInv, TypeOK, ThreadTypes, OwnConnection, Linked
<1>4. ASSUME NEW s \in Servers, Receives(s) = s,
             ~(s = srv[t] /\ pc[t] \in {"connect", "close"})
      PROVE  Receives(s)' = s
  BY <1>1, <1>4 DEF ConnectionAfter, Receives
<1>5. ASSUME NEW w \in Workers, NEW s \in Servers, s = srv'[w], pc'[w] \in Linked
      PROVE  Receives(s)' = s
  <2>1. Moves(t, w)
    BY StepMoves
  <2>2. CASE pc'[w] = pc[w] /\ srv'[w] = srv[w]
    <3>1. pc[w] \in Linked /\ s = srv[w] /\ Receives(s) = s
      BY <1>3, <1>5, <2>2
    <3>2. ~(s = srv[t] /\ pc[t] \in {"connect", "close"})
      <4> SUFFICES ASSUME s = srv[t], pc[t] \in {"connect", "close"} PROVE FALSE
        OBVIOUS
      <4>1. w = t
        BY <1>2, <3>1 DEF OneOwner, Owns, Linked, Opening, Reading
      <4> QED
        BY <1>1, <2>2, <3>1, <4>1 DEF ConnectionAfter, Linked
    <3> QED
      BY <1>4, <3>1, <3>2
  <2>3. CASE w = t /\ GoesOn(pc[t], pc'[t]) /\ srv'[t] = srv[t]
    <3>1. CASE pc[t] = "connect"
      BY <1>1, <1>5, <2>3, <3>1 DEF ConnectionAfter, GoesOn
    <3>2. CASE pc[t] # "connect"
      <4>1. pc[t] \in Linked /\ pc[t] # "close"
        BY <1>5, <2>3, <3>2 DEF GoesOn, Linked
      <4> QED
        BY <1>3, <1>4, <1>5, <2>3, <3>2, <4>1
    <3> QED
      BY <3>1, <3>2
  <2>4. CASE w # t /\ pc[t] = "spawn" /\ pc'[w] = "recv" /\ srv'[w] = srv[t]
    <3>1. pc[t] \in Linked
      BY <2>4 DEF Linked
    <3> QED
      BY <1>3, <1>4, <1>5, <2>4, <3>1
  <2> QED
    BY <1>5, <2>1, <2>2, <2>3, <2>4 DEF Moves, Resting, Linked
<1>6. \A w \in Workers : pc'[w] \in Linked => srv'[w] \in Servers
  BY TypeStep DEF TypeOK, ThreadTypes, Linked, Next
<1>7. ASSUME NEW w \in Workers, pc'[w] \in Linked
      PROVE  Receives(srv[w])'= srv'[w]
  <2>1. PICK s \in Servers : s = srv'[w]
    BY <1>6, <1>7
  <2>2. Receives(s)' = s
    BY <1>5, <1>7, <2>1
  <2> QED
    BY <2>1, <2>2 DEF Receives
<1> QED
  BY <1>7 DEF OwnConnection, Linked

\* While a server is read, no step of another thread reaches its descriptor
\* or its motd_sent.
LEMMA ReadUndisturbed ==
    ASSUME IInv, OwnConnection, NEW t \in Workers,
           ThreadStep(t) \/ NetworkStep(t),
           NEW w \in Workers, pc[w] = "recv", pc'[w] = "recv"
    PROVE  /\ sock'[srv[w]] = sock[srv[w]]
           /\ conn'[sock[srv[w]]] = conn[sock[srv[w]]]
           /\ motdSent[srv[w]] => motdSent'[srv[w]]
<1>1. ConnectionAfter(t)
  BY ConnectionChange
<1>2. srv[w] \in Servers /\ Receives(srv[w]) = srv[w]
  BY DEF IInv, TypeOK, ThreadTypes, OwnConnection, Linked
<1>3. ASSUME srv[w] = srv[t], pc[t] \in {"connect", "close", "reset"}
      PROVE  FALSE
  BY <1>3 DEF IInv, OneOwner, Owns, Opening, Reading
<1>4. sock'[srv[w]] = sock[srv[w]] /\ conn'[sock[srv[w]]] = conn[sock[srv[w]]]
  BY <1>1, <1>2, <1>3 DEF ConnectionAfter
<1>5. motdSent[srv[w]] => motdSent'[srv[w]]
  <2>1. motdSent \in [Servers -> BOOLEAN]
    BY DEF IInv, TypeOK, FieldTypes
  <2>2. CASE GotIn(t) \/ pc[t] = "reset"
    <3>1. motdSent' = [motdSent EXCEPT ![srv[t]] = TRUE]
      BY <2>2, Untouched DEF GotIn, ResetAfterRejoin
    <3> QED
      BY <1>2, <2>1, <3>1
  <2>3. CASE pc[t] = "connect"
    <3>1. motdSent' = motdSent \/ motdSent' = [motdSent EXCEPT ![srv[t]] = FALSE]
      BY <2>3, Untouched DEF ServerConnect, ConnectRefused, SocketFails
    <3>2. srv[w] # srv[t]
      BY <1>3, <2>3
    <3> QED
      BY <1>2, <2>1, <3>1, <3>2
  <2>4. CASE UNCHANGED motdSent
    BY <2>4
  <2> QED
    BY <2>2, <2>3, <2>4, Untouched
<1> QED
  BY <1>4, <1>5
-----------------------------------------------------------------------------
\* A server counts as loaded when the main thread leaves add_to_serverpool's
\* pthread_create behind, and stays so.
LEMMA LoadedChange ==
    ASSUME IInv, NEW t \in Workers, ThreadStep(t) \/ NetworkStep(t)
    PROVE  /\ LoadedCount \in Nat
           /\ t = Main /\ pc[t] = "spawn" =>
                 LoadedCount = next - 1 /\ LoadedCount' = LoadedCount + 1
           /\ ~(t = Main /\ pc[t] = "spawn") => LoadedCount' = LoadedCount
<1> USE DEF LoadedCount
<1>0. /\ pc \in [Workers -> Steps] /\ next \in Nat \ {0}
      /\ Main \in Workers /\ Main \notin Threads
  BY NamesAssumption DEF IInv, TypeOK, FieldTypes
<1>1. Moves(t, Main)
  BY <1>0, StepMoves
<1>2. CASE t # Main
  <2>1. pc'[Main] = pc[Main]
    BY <1>0, <1>1, <1>2, TypeStep DEF Moves, IInv, TypeOK, ThreadTypes
  <2>2. CASE SpawnReaderFails(t) \/ Leave(t)
    BY <1>0, <1>2, <2>1, <2>2 DEF SpawnReaderFails, Leave, Continue
  <2>3. CASE ~(SpawnReaderFails(t) \/ Leave(t))
    <3>1. next' = next
      BY <2>3 DEF ThreadStep, NetworkStep, ServerConnect, ResetAfterRejoin,
         AddToServerpool, ServerDisconnect, TryRejoin, RemoveFromServerpool,
         HandleRegisteration, SocketFails, ConnectRefused, LoseConnection,
         SelectFails, GotIn, ServerRejoinFails, SpawnReader, ServerRejoin,
         DetachReader
    <3> QED
      BY <1>0, <1>2, <2>1, <3>1
  <2> QED
    BY <2>2, <2>3
<1>3. CASE t = Main
  <2>0. pc[Main] \in {"connect", "register", "add", "spawn", "detach",
                      "leave", "input"}
    BY DEF IInv, TypeOK, ThreadTypes
  <2>1. CASE SpawnReaderFails(t) \/ Leave(t)
    <3>1. Continue(t) /\ pc[t] \in {"spawn", "leave"}
          /\ (Leave(t) => pc[t] = "leave") /\ (SpawnReaderFails(t) => pc[t] = "spawn")
      BY <2>1 DEF SpawnReaderFails, Leave
    <3>2. next' = next + 1 /\ pc'[Main] \in {"connect", "input"}
      BY <1>0, <1>3, <3>1 DEF Continue, Goto, MainAt
    <3> QED
      BY <1>0, <1>3, <2>0, <3>1, <3>2
  <2>2. CASE SpawnReader(t)
    <3>1. /\ pc[t] = "spawn" /\ next' = next
          /\ \E u \in Threads : pc' = [pc EXCEPT ![t] = "detach", ![u] = "recv"]
      BY <2>2 DEF SpawnReader, FreeThreads
    <3> QED
      BY <1>0, <1>3, <3>1
  <2>3. CASE DetachReader(t)
    <3>1. pc[t] = "detach" /\ next' = next /\ thread[srv[t]] \in Threads
      BY <2>3 DEF DetachReader, IInv, TypeOK, ThreadTypes
    <3>2. pc'[Main] = "leave"
      BY <1>0, <1>3, <2>3, <3>1 DEF DetachReader, Goto
    <3> QED
      BY <1>0, <1>3, <3>1, <3>2
  <2>4. CASE ServerConnect(t) \/ SocketFails(t) \/ ConnectRefused(t)
             \/ HandleRegisteration(t) \/ AddToServerpool(t)
    <3>1. /\ next' = next /\ pc[t] \in {"connect", "register", "add"}
          /\ pc'[t] \in {"connect", "register", "input", "add", "spawn"}
      BY <1>0, <1>3, <2>4 DEF ServerConnect, SocketFails, ConnectRefused, ConnectFailed,
         HandleRegisteration, AddToServerpool, Goto
    <3> QED
      BY <1>0, <1>3, <3>1
  <2> QED
    BY <1>3, <2>0, <2>1, <2>2, <2>3, <2>4 DEF ThreadStep, NetworkStep,
       ResetAfterRejoin, ServerDisconnect, TryRejoin, RemoveFromServerpool,
       LoseConnection, SelectFails, GotIn, ServerRejoinFails, ServerRejoin
<1> QED
  BY <1>2, <1>3

\* A thread that load_servers or server_rejoin started works for a server
\* that was loaded.
LEMMA LoadedStep ==
    ASSUME IInv, OwnedLoaded, NEW t \in Workers,
           ThreadStep(t) \/ NetworkStep(t)
    PROVE  OwnedLoaded'
<1>0. /\ Main \in Workers /\ Main \notin Threads /\ next \in Nat \ {0}
      /\ pc[Main] \in {"connect", "register", "add", "spawn", "detach",
                       "leave", "input"}
  BY NamesAssumption DEF IInv, TypeOK, FieldTypes, ThreadTypes
<1>1. /\ LoadedCount \in Nat
      /\ t = Main /\ pc[t] = "spawn" =>
            LoadedCount = next - 1 /\ LoadedCount' = LoadedCount + 1
      /\ ~(t = Main /\ pc[t] = "spawn") => LoadedCount' = LoadedCount
  BY LoadedChange
<1>2. ASSUME NEW s, Loaded(s) PROVE Loaded(s)'
  BY <1>1, <1>2 DEF Loaded
<1>3. ASSUME NEW w \in Threads, NEW s, s = srv'[w], Owns(w)'
      PROVE  Loaded(s)'
  <2>1. Moves(t, w)
    BY StepMoves
  <2>2. CASE pc'[w] = pc[w] /\ srv'[w] = srv[w]
    BY <1>2, <1>3, <2>2 DEF OwnedLoaded, Owns
  <2>3. CASE w = t /\ GoesOn(pc[t], pc'[t]) /\ srv'[t] = srv[t]
    BY <1>2, <1>3, <2>3 DEF OwnedLoaded, Owns, GoesOn, Opening, Reading
  <2>4. CASE w # t /\ pc[t] \in {"spawn", "notify"} /\ srv'[w] = srv[t]
    <3>1. CASE t # Main
      BY <1>2, <1>3, <2>4, <3>1 DEF OwnedLoaded, Owns, Opening, Reading
    <3>2. CASE t = Main
      <4>1. pc[t] = "spawn" /\ LoadedCount' = next
        BY <1>0, <1>1, <2>4, <3>2
      <4>2. s = Config[next]
        BY <1>3, <2>4, <3>2, <4>1 DEF IInv, MainTurn
      <4> QED
        BY <1>0, <4>1, <4>2 DEF Loaded
    <3> QED
      BY <3>1, <3>2
  <2> QED
    BY <1>0, <1>3, <2>1, <2>2, <2>3, <2>4 DEF Moves, Resting, Owns, Opening, Reading
<1> QED
  BY <1>3 DEF OwnedLoaded, Loaded
-----------------------------------------------------------------------------
LEMMA InitFullInv == Init => FullInv
<1> SUFFICES ASSUME Init PROVE FullInv
  OBVIOUS
<1>1. IInv
  BY InitIInv
<1>2. /\ serverList = <<>> /\ DOMAIN serverList = {}
      /\ rejoinTries = [s \in Servers |-> 0]
      /\ \A t \in Threads : pc[t] = "free"
      /\ pc[Main] \in {"connect", "input"}
  BY NamesAssumption DEF Init, MainAt
<1>3. \A t \in Workers : pc[t] \in {"free", "connect", "input"}
  BY <1>2
<1>4. PoolInv
  BY <1>2, <1>3 DEF PoolInv, PoolExact, FreshNotPooled, Pooled, Reading
<1>5. TriesInv
  <2>1. \A t \in Workers : pc[t] = "connect" => srv[t] \in Servers
    BY <1>1 DEF IInv, TypeOK, ThreadTypes
  <2>2. NeverBacksOff
    BY <1>2, <1>3, <2>1 DEF NeverBacksOff, Reading, Opening
  <2>3. TriesReset
    BY <1>2, <1>3 DEF TriesReset
  <2> QED
    BY <2>2, <2>3 DEF TriesInv
<1>6. OwnConnection
  BY <1>3 DEF OwnConnection, Linked
<1>7. OwnedLoaded
  BY <1>2 DEF OwnedLoaded, Owns, Opening, Reading
<1> QED
  BY <1>1, <1>4, <1>5, <1>6, <1>7 DEF FullInv

\* The whole invariant is inductive.
LEMMA StepFullInv == FullInv /\ [Next]_vars => FullInv'
<1> SUFFICES ASSUME FullInv, [Next]_vars PROVE FullInv'
  OBVIOUS
<1> USE DEF FullInv
<1>1. IInv'
  BY StepIInv
<1>2. CASE UNCHANGED vars
  <2>1. PoolInv'
    BY <1>2 DEF vars, PoolInv, PoolExact, FreshNotPooled, Pooled, Fresh
  <2>2. TriesInv'
    BY <1>2 DEF vars, TriesInv, NeverBacksOff, TriesReset, Fresh
  <2>3. OwnConnection'
    BY <1>2 DEF vars, OwnConnection, Receives
  <2>4. OwnedLoaded'
    BY <1>2 DEF vars, OwnedLoaded, Owns, Loaded, LoadedCount
  <2> QED
    BY <1>1, <2>1, <2>2, <2>3, <2>4
<1>3. ASSUME NEW t \in Workers, ThreadStep(t) \/ NetworkStep(t)
      PROVE  FullInv'
  BY <1>1, <1>3, PoolKept, TriesStep, ConnectionStep, LoadedStep
<1> QED
  BY <1>2, <1>3 DEF Next

\* Every reachable state satisfies the whole invariant.
THEOREM FullInvariance == Spec => []FullInv
  BY InitFullInv, StepFullInv, PTL DEF Spec

\* server_list never holds a server twice, never misses one that is read and
\* never keeps one that is being reopened, whatever the threads' order at
\* servers_global_mutex.
THEOREM PoolAlwaysExact == Spec => []PoolExact
<1>1. FullInv => PoolExact
  BY DEF FullInv, PoolInv
<1> QED
  BY <1>1, FullInvariance, PTL

\* From connect() to its own close(), a thread's srv->s is open to the server
\* it works for, although threads open and close descriptors all the time.
THEOREM ConnectionsOwn == Spec => []OwnConnection
<1>1. FullInv => OwnConnection
  BY DEF FullInv
<1> QED
  BY <1>1, FullInvariance, PTL

\* try_rejoin never takes the growing delay at core.c:306, for any number of
\* disconnections and failed attempts.
THEOREM RejoinNeverBacksOff == Spec => []NeverBacksOff
<1>1. FullInv => NeverBacksOff
  BY DEF FullInv, TriesInv
<1> QED
  BY <1>1, FullInvariance, PTL

\* No step closes or replaces a connection that is being read, or clears the
\* motd_sent of its server.
THEOREM ReaderUndisturbed == Spec => Undisturbed
<1> DEFINE Kept ==
      \A t \in Workers :
          LET s == srv[t] IN
          pc[t] = "recv" /\ pc'[t] = "recv" =>
              /\ sock'[s] = sock[s]
              /\ conn'[sock[s]] = conn[sock[s]]
              /\ motdSent[s] => motdSent'[s]
<1>1. ASSUME FullInv, [Next]_vars PROVE [Kept]_vars
  <2>1. CASE UNCHANGED vars
    BY <2>1
  <2>2. ASSUME NEW t \in Workers, ThreadStep(t) \/ NetworkStep(t)
        PROVE  Kept
    BY <1>1, <2>2, ReadUndisturbed DEF FullInv
  <2> QED
    BY <1>1, <2>1, <2>2 DEF Next
<1> QED
  BY <1>1, FullInvariance, PTL DEF Spec, Undisturbed
-----------------------------------------------------------------------------
(***************************************************************************)
(* The threads implement ServerLink.                                       *)
(***************************************************************************)

\* The link of a server, as the refinement in ServerPool reads it off.
LinkOf(s) == IF Read(s) THEN "up" ELSE IF Loaded(s) THEN "down" ELSE "unloaded"

\* A step of t changes who is read for t's server only: a reader of it was
\* started, or t was its reader and goes on.
LEMMA ReadChange ==
    ASSUME IInv, NEW t \in Workers, ThreadStep(t) \/ NetworkStep(t),
           NEW s \in Servers
    PROVE  /\ s # srv[t] => (Read(s)' <=> Read(s))
           /\ pc[t] \notin {"spawn", "recv"} => (Read(s)' <=> Read(s))
           /\ s = srv[t] /\ pc[t] = "spawn" => ~Read(s)
           /\ s = srv[t] /\ pc[t] = "recv" => Read(s)
<1>1. \A w \in Workers : Moves(t, w)
  BY StepMoves
<1>2. OneOwner /\ pc \in [Workers -> Steps]
      /\ pc[Main] \in {"connect", "register", "add", "spawn", "detach",
                       "leave", "input"}
  BY DEF IInv, TypeOK, FieldTypes, ThreadTypes
<1>3. ASSUME Read(s)', ~Read(s)
      PROVE  s = srv[t] /\ pc[t] = "spawn"
  <2>1. PICK w \in Workers : pc'[w] = "recv" /\ srv'[w] = s
    BY <1>3 DEF Read
  <2>2. ~(pc[w] = "recv" /\ srv[w] = s)
    BY <1>3 DEF Read
  <2> QED
    BY <1>1, <2>1, <2>2 DEF Moves, GoesOn, Resting
<1>4. ASSUME ~Read(s)', Read(s)
      PROVE  s = srv[t] /\ pc[t] = "recv"
  <2>1. PICK w \in Workers : pc[w] = "recv" /\ srv[w] = s
    BY <1>4 DEF Read
  <2>2. ~(pc'[w] = "recv" /\ srv'[w] = s)
    BY <1>4 DEF Read
  <2> QED
    BY <1>1, <1>2, <2>1, <2>2 DEF Moves
<1>5. s = srv[t] /\ pc[t] = "spawn" => ~Read(s)
  BY <1>2 DEF Read, OneOwner, Owns, Opening, Reading
<1>6. s = srv[t] /\ pc[t] = "recv" => Read(s)
  BY DEF Read
<1> QED
  BY <1>3, <1>4, <1>5, <1>6

\* Every step is a step of ServerLink or leaves its variables unchanged.
LEMMA LinkStep ==
    ASSUME FullInv, [Next]_vars
    PROVE  [Link!Next]_Link!vars
<1> USE DEF FullInv
<1> DEFINE link == [s \in Servers |-> LinkOf(s)]
<1>0. /\ IInv /\ OwnedLoaded /\ ConfigAssumption
      /\ \A i \in 1..Len(Config) : Config[i] \in Servers
  BY ConfigAssumption
<1>a. ASSUME link' = link, LoadedCount' = LoadedCount
      PROVE  UNCHANGED Link!vars
  BY <1>a DEF Link!vars, LinkOf, Loaded
<1>b. ASSUME NEW s \in Servers, LinkOf(s) = "up", LoadedCount' = LoadedCount,
             link' = [link EXCEPT ![s] = "down"]
      PROVE  Link!Next
  BY <1>b DEF Link!Next, Link!Lose, LinkOf, Loaded
<1>c. ASSUME NEW s \in Servers, LinkOf(s) = "down", LoadedCount' = LoadedCount,
             link' = [link EXCEPT ![s] = "up"]
      PROVE  Link!Next
  BY <1>c DEF Link!Next, Link!Reopen, LinkOf, Loaded
<1>d. ASSUME LoadedCount < Len(Config),
             LinkOf(Config[LoadedCount + 1]) = "unloaded",
             Config[LoadedCount + 1] \in Servers,
             LoadedCount' = LoadedCount + 1,
             NEW state \in {"up", "down"},
             link' = [link EXCEPT ![Config[LoadedCount + 1]] = state]
      PROVE  Link!Next
  BY <1>d DEF Link!Next, Link!Load, LinkOf, Loaded
<1>1. CASE UNCHANGED vars
  <2>1. link' = link /\ LoadedCount' = LoadedCount
    BY <1>1 DEF vars, LinkOf, Loaded, LoadedCount, Read
  <2> QED
    BY <1>a, <2>1
<1>2. ASSUME NEW t \in Workers, ThreadStep(t) \/ NetworkStep(t)
      PROVE  [Link!Next]_Link!vars
  <2>1. /\ LoadedCount \in Nat
        /\ t = Main /\ pc[t] = "spawn" =>
              LoadedCount = next - 1 /\ LoadedCount' = LoadedCount + 1
        /\ ~(t = Main /\ pc[t] = "spawn") => LoadedCount' = LoadedCount
    BY <1>0, <1>2, LoadedChange
  <2>2. \A s \in Servers :
           /\ s # srv[t] => (Read(s)' <=> Read(s))
           /\ pc[t] \notin {"spawn", "recv"} => (Read(s)' <=> Read(s))
           /\ s = srv[t] /\ pc[t] = "spawn" => ~Read(s)
           /\ s = srv[t] /\ pc[t] = "recv" => Read(s)
    BY <1>0, <1>2, ReadChange
  <2>3. pc[t] \in {"spawn", "recv"} => srv[t] \in Servers
    BY <1>0 DEF IInv, TypeOK, ThreadTypes
  <2>4. /\ t # Main /\ pc[t] \in {"spawn", "recv"} => Loaded(srv[t])
        /\ pc[Main] # "recv"
    BY <1>0, NamesAssumption
       DEF OwnedLoaded, Owns, Opening, Reading, IInv, TypeOK, ThreadTypes
  <2>5. CASE t = Main /\ pc[t] = "spawn"
    <3>1. /\ next \in 1..Len(Config) /\ srv[t] = Config[next]
          /\ LoadedCount = next - 1 /\ LoadedCount' = next
      BY <1>0, <2>1, <2>5 DEF IInv, MainTurn
    <3>2. \A s \in Servers : s # srv[t] => (Loaded(s)' <=> Loaded(s))
      BY <3>1 DEF Loaded
    <3>3. \A s \in Servers : s = srv[t] => ~Loaded(s) /\ Loaded(s)'
      BY <1>0, <3>1 DEF Loaded
    <3>4. LinkOf(Config[LoadedCount + 1]) = "unloaded"
      BY <2>2, <2>3, <2>5, <3>1, <3>3 DEF LinkOf
    <3>5. \A s \in Servers : s # srv[t] => LinkOf(s)' = LinkOf(s)
      BY <2>2, <3>2 DEF LinkOf
    <3>6. \A s \in Servers : s = srv[t] => LinkOf(s)' \in {"up", "down"}
      BY <3>3 DEF LinkOf
    <3>7. PICK s \in Servers : s = srv[t]
      BY <2>3, <2>5
    <3>8. PICK state \in {"up", "down"} : LinkOf(s)' = state
      BY <3>6, <3>7
    <3>9. link' = [link EXCEPT ![s] = state]
      BY <3>5, <3>7, <3>8
    <3>10. /\ LoadedCount < Len(Config) /\ s = Config[LoadedCount + 1]
           /\ LoadedCount' = LoadedCount + 1
      BY <3>1, <3>7
    <3> HIDE DEF link
    <3> QED
      BY <1>d, <3>4, <3>9, <3>10
  <2>6. CASE t # Main /\ pc[t] = "spawn"
    <3>1. LoadedCount' = LoadedCount /\ \A s \in Servers : Loaded(s)' <=> Loaded(s)
      BY <2>1, <2>6 DEF Loaded
    <3>2. PICK s \in Servers : s = srv[t]
      BY <2>3, <2>6
    <3>3. LinkOf(s) = "down"
      BY <2>2, <2>4, <2>6, <3>2 DEF LinkOf
    <3>4. \A r \in Servers \ {s} : LinkOf(r)' = LinkOf(r)
      BY <2>2, <3>1, <3>2 DEF LinkOf
    <3>5. LinkOf(s)' \in {"up", "down"}
      BY <2>4, <2>6, <3>1, <3>2 DEF LinkOf
    <3>6. CASE LinkOf(s)' = "up"
      <4>1. link' = [link EXCEPT ![s] = "up"]
        BY <3>4, <3>6
      <4> QED
        BY <1>c, <3>1, <3>3, <4>1
    <3>7. CASE LinkOf(s)' = "down"
      <4>1. link' = link
        BY <3>3, <3>4, <3>7
      <4> QED
        BY <1>a, <3>1, <4>1
    <3> QED
      BY <3>5, <3>6, <3>7
  <2>7. CASE pc[t] = "recv"
    <3>1. LoadedCount' = LoadedCount /\ \A s \in Servers : Loaded(s)' <=> Loaded(s)
      BY <2>1, <2>7 DEF Loaded
    <3>2. PICK s \in Servers : s = srv[t]
      BY <2>3, <2>7
    <3>3. LinkOf(s) = "up"
      BY <2>2, <2>7, <3>2 DEF LinkOf
    <3>4. \A r \in Servers \ {s} : LinkOf(r)' = LinkOf(r)
      BY <2>2, <3>1, <3>2 DEF LinkOf
    <3>5. LinkOf(s)' \in {"up", "down"}
      BY <2>4, <2>7, <3>1, <3>2 DEF LinkOf
    <3>6. CASE LinkOf(s)' = "down"
      <4>1. link' = [link EXCEPT ![s] = "down"]
        BY <3>4, <3>6
      <4> QED
        BY <1>b, <3>1, <3>3, <4>1
    <3>7. CASE LinkOf(s)' = "up"
      <4>1. link' = link
        BY <3>3, <3>4, <3>7
      <4> QED
        BY <1>a, <3>1, <4>1
    <3> QED
      BY <3>5, <3>6, <3>7
  <2>8. CASE pc[t] \notin {"spawn", "recv"}
    <3>1. LoadedCount' = LoadedCount /\ \A s \in Servers : Loaded(s)' <=> Loaded(s)
      BY <2>1, <2>8 DEF Loaded
    <3>2. \A s \in Servers : LinkOf(s)' = LinkOf(s)
      BY <2>2, <2>8, <3>1 DEF LinkOf
    <3> QED
      BY <1>a, <3>1, <3>2
  <2> QED
    BY <2>5, <2>6, <2>7, <2>8
<1> QED
  BY <1>1, <1>2 DEF Next

LEMMA LinkInit == Init => Link!Init
<1> SUFFICES ASSUME Init PROVE Link!Init
  OBVIOUS
<1>1. /\ next = 1 /\ pc[Main] \in {"connect", "input"}
      /\ \A t \in Workers : pc[t] \in {"free", "connect", "input"}
  BY NamesAssumption DEF Init, MainAt
<1>2. LoadedCount = 0
  BY <1>1 DEF LoadedCount
<1>3. \A s \in Servers : ~Read(s)
  BY <1>1 DEF Read
<1>4. ~\E i \in 1..LoadedCount : TRUE
  BY <1>2
<1> QED
  BY <1>2, <1>3, <1>4 DEF Link!Init

\* Seen from outside, the threads of all servers together load the servers
\* in file order and then lose and reopen them one at a time.
THEOREM ImplementsLink == Spec => LinkSpec
  BY LinkInit, LinkStep, FullInvariance, PTL DEF Spec, LinkSpec, Link!Spec

=============================================================================
