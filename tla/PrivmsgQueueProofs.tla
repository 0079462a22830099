------------------------- MODULE PrivmsgQueueProofs -------------------------
(***************************************************************************)
(* Proofs about PrivmsgQueue, for every set of calling threads, every size *)
(* of the queue and of the history and every number of calls.              *)
(*                                                                         *)
(* OneProducer rests on who holds local_mutex, CountBounded on what the    *)
(* threads have read of msg_count and not yet written back.  IInv adds     *)
(* both.  global_msglist_mutex plays no part: the handler may free it      *)
(* under a caller, and the argument does not use that it is held.          *)
(***************************************************************************)
EXTENDS PrivmsgQueue, FiniteSetTheorems, SequenceTheorems, TLAPS

\* Who is inside add_to_privmsg_queue holds local_mutex.
HoldsLocal == \A c \in Callers : Producing(c) => localMutex = c

\* The handler's thread exists once handler_started is set, and who goes to
\* create it has seen that it is not.
HandlerOnce ==
    /\ handlerStarted <=> handlerPc # "off"
    /\ \A c \in Callers : pc[c] = "start" => ~handlerStarted

\* A caller that passed the test for a full queue still has room.
RoomLeft ==
    \A c \in Callers :
        /\ pc[c] \in {"lockGlobal", "store", "load"} => msgCount < MaxMsgCount
        /\ pc[c] = "put" => reg[c] < MaxMsgCount

\* The handler that serves a message still counts it.
CountsServed ==
    /\ handlerPc \in {"serve", "load"} => msgCount > 0
    /\ handlerPc = "put" => handlerReg \in 1..MaxMsgCount

LockInv == HoldsLocal /\ HandlerOnce
CountInv == CountBounded /\ RoomLeft /\ CountsServed
IInv == TypeOK /\ LockInv /\ CountInv

-----------------------------------------------------------------------------
\* An entry of msg_list is a message, or was never written.
LEMMA FetchType ==
    ASSUME NEW list \in Seq(Messages \cup {Junk}), NEW i \in Nat, i > 0
    PROVE  Fetch(list, i) \in Messages \cup {Junk}
  BY DEF Fetch

\* The state the program starts in is one of IInv's.
LEMMA InitIInv == Init => IInv
<1> SUFFICES ASSUME Init PROVE IInv
  OBVIOUS
<1> USE DEF Init
<1>1. TypeOK
  <2>1. /\ pc \in [Callers -> {"idle", "lock"} \cup InCall]
        /\ \A c \in Callers : pc[c] = "idle"
        /\ msg \in [Callers -> Messages \cup {None}]
        /\ reg \in [Callers -> Nat]
    OBVIOUS
  <2>2. /\ <<>> \in Seq(Messages \cup {Junk})
        /\ <<>> \in Seq(Messages)
    OBVIOUS
  <2>3. 0 \in 0..HistorySize /\ 0 \in 0..MaxCalls
    BY SizesAssumption
  <2> QED
    BY <2>1, <2>2, <2>3 DEF TypeOK
<1>2. LockInv
  BY DEF LockInv, HoldsLocal, HandlerOnce, Producing, InCall, InList
<1>3. CountInv
  BY SizesAssumption
     DEF CountInv, CountBounded, RoomLeft, CountsServed
<1> QED
  BY <1>1, <1>2, <1>3 DEF IInv

-----------------------------------------------------------------------------
(* What a step of a caller preserves. *)

LEMMA CallerTypes ==
    ASSUME IInv, NEW c \in Callers, Call(c) \/ CallerStep(c)
    PROVE  TypeOK'
<1> USE DEF IInv, TypeOK, InCall, InList
<1>1. CASE Call(c)
  <2>1. PICK drop \in BOOLEAN :
           msg' = [msg EXCEPT ![c] = [id |-> calls + 1, drop |-> drop]]
    BY <1>1 DEF Call
  <2>2. [id |-> calls + 1, drop |-> drop] \in Messages
    BY <1>1, SizesAssumption DEF Call, Messages
  <2> QED
    BY <1>1, <2>1, <2>2, SizesAssumption DEF Call, Goto, handlerVars
<1>2. CASE LockLocal(c)
  BY <1>2 DEF LockLocal, Goto, handlerVars
<1>3. CASE Refuse(c)
  BY <1>3 DEF Refuse, Goto, handlerVars
<1>4. CASE Accept(c)
  BY <1>4 DEF Accept, Goto, handlerVars
<1>5. CASE LockGlobal(c)
  BY <1>5 DEF LockGlobal, Goto, handlerVars
<1>6. CASE Store(c)
  <2>1. msg[c] \in Messages
    BY <1>6 DEF Store
  <2>2. ASSUME NEW i \in 1..(msgCount + 1)
        PROVE  Fetch(msgList, i) \in Messages \cup {Junk}
    <3>1. msgList \in Seq(Messages \cup {Junk}) /\ i \in Nat /\ i > 0
      OBVIOUS
    <3> QED
      BY ONLY <3>1, FetchType
  <2>3. msgList' \in Seq(Messages \cup {Junk})
    BY <1>6, <2>1, <2>2 DEF Store
  <2>4. accepted' \in Seq(Messages)
    BY <1>6, <2>1 DEF Store
  <2> QED
    BY <1>6, <2>3, <2>4 DEF Store, Goto, handlerVars
<1>7. CASE LoadCount(c)
  BY <1>7 DEF LoadCount, Goto, handlerVars
<1>8. CASE PutCount(c)
  BY <1>8 DEF PutCount, Goto, handlerVars
<1>9. CASE UnlockGlobal(c)
  BY <1>9 DEF UnlockGlobal, Goto, handlerVars
<1>10. CASE StartHandler(c)
  BY <1>10 DEF StartHandler, Return, Goto
<1>11. CASE Signal(c)
  BY <1>11 DEF Signal, Return, Goto
<1> QED
  BY <1>1, <1>2, <1>3, <1>4, <1>5, <1>6, <1>7, <1>8, <1>9, <1>10, <1>11
     DEF CallerStep

LEMMA CallerLocks ==
    ASSUME IInv, NEW c \in Callers, Call(c) \/ CallerStep(c)
    PROVE  LockInv'
<1> USE DEF IInv, TypeOK, LockInv, HoldsLocal, HandlerOnce, Producing, InCall,
            InList
<1>1. CASE Call(c)
  BY <1>1 DEF Call, Goto, handlerVars
<1>2. CASE LockLocal(c)
  <2>1. \A d \in Callers : pc[d] \notin InCall
    BY <1>2, NamesAssumption DEF LockLocal
  <2> QED
    BY <1>2, <2>1 DEF LockLocal, Goto, handlerVars
<1>3. CASE Refuse(c)
  BY <1>3 DEF Refuse, Goto, handlerVars
<1>4. CASE Accept(c)
  BY <1>4 DEF Accept, Goto, handlerVars
<1>5. CASE LockGlobal(c)
  BY <1>5 DEF LockGlobal, Goto, handlerVars
<1>6. CASE Store(c)
  BY <1>6 DEF Store, Goto, handlerVars
<1>7. CASE LoadCount(c)
  BY <1>7 DEF LoadCount, Goto, handlerVars
<1>8. CASE PutCount(c)
  BY <1>8 DEF PutCount, Goto, handlerVars
<1>9. CASE UnlockGlobal(c)
  BY <1>9 DEF UnlockGlobal, Goto, handlerVars
<1>10. CASE StartHandler(c)
  <2>1. \A d \in Callers : d # c => pc[d] \notin InCall
    BY <1>10 DEF StartHandler
  <2> QED
    BY <1>10, <2>1 DEF StartHandler, Return, Goto
<1>11. CASE Signal(c)
  <2>1. \A d \in Callers : d # c => pc[d] \notin InCall
    BY <1>11 DEF Signal
  <2> QED
    BY <1>11, <2>1 DEF Signal, Return, Goto
<1> QED
  BY <1>1, <1>2, <1>3, <1>4, <1>5, <1>6, <1>7, <1>8, <1>9, <1>10, <1>11
     DEF CallerStep

LEMMA CallerCounts ==
    ASSUME IInv, NEW c \in Callers, Call(c) \/ CallerStep(c)
    PROVE  CountInv'
<1> USE SizesAssumption
    DEF IInv, TypeOK, CountInv, CountBounded, RoomLeft, CountsServed, InCall,
        InList
<1>1. CASE Call(c)
  BY <1>1 DEF Call, Goto, handlerVars
<1>2. CASE LockLocal(c)
  BY <1>2 DEF LockLocal, Goto, handlerVars
<1>3. CASE Refuse(c)
  BY <1>3 DEF Refuse, Goto, handlerVars
<1>4. CASE Accept(c)
  BY <1>4 DEF Accept, Full, Goto, handlerVars
<1>5. CASE LockGlobal(c)
  BY <1>5 DEF LockGlobal, Goto, handlerVars
<1>6. CASE Store(c)
  BY <1>6 DEF Store, Goto, handlerVars
<1>7. CASE LoadCount(c)
  BY <1>7 DEF LoadCount, Goto, handlerVars
<1>8. CASE PutCount(c)
  <2>1. \A d \in Callers : d # c => pc[d] \notin InCall
    BY <1>8 DEF PutCount, LockInv, HoldsLocal, Producing
  <2> QED
    BY <1>8, <2>1 DEF PutCount, Goto, handlerVars
<1>9. CASE UnlockGlobal(c)
  BY <1>9 DEF UnlockGlobal, Goto, handlerVars
<1>10. CASE StartHandler(c)
  BY <1>10 DEF StartHandler, Return, Goto
<1>11. CASE Signal(c)
  BY <1>11 DEF Signal, Return, Goto
<1> QED
  BY <1>1, <1>2, <1>3, <1>4, <1>5, <1>6, <1>7, <1>8, <1>9, <1>10, <1>11
     DEF CallerStep

-----------------------------------------------------------------------------
(* What a step of the handler, or a spurious wake-up, preserves. *)

LEMMA HandlerTypes ==
    ASSUME IInv, HandlerStep \/ SpuriousWakeup
    PROVE  TypeOK'
<1> USE DEF IInv, TypeOK, InCall, InList, callerVars
<1>1. CASE Top
  BY <1>1 DEF Top
<1>2. CASE HandlerLock
  BY <1>2 DEF HandlerLock
<1>3. CASE TestEmpty
  BY <1>3 DEF TestEmpty
<1>4. CASE TestNonEmpty
  BY <1>4 DEF TestNonEmpty
<1>5. CASE CondWait
  BY <1>5 DEF CondWait
<1>6. CASE Serve
  <2>1. Fetch(msgList, 1) \in Messages \cup {Junk}
    <3>1. msgList \in Seq(Messages \cup {Junk})
      OBVIOUS
    <3> QED
      BY ONLY <3>1, FetchType
  <2>2. sent' \in Seq(Messages \cup {Junk})
    <3>1. \/ sent' = Append(sent, Fetch(msgList, 1))
          \/ sent' = sent
      BY <1>6 DEF Serve
    <3>2. sent \in Seq(Messages \cup {Junk})
      OBVIOUS
    <3> QED
      BY ONLY <2>1, <3>1, <3>2
  <2>3. dropped' \subseteq Messages \cup {Junk}
    <3>1. \/ dropped' = dropped \cup {Fetch(msgList, 1)}
          \/ dropped' = dropped
      BY <1>6 DEF Serve
    <3>2. dropped \subseteq Messages \cup {Junk}
      OBVIOUS
    <3> QED
      BY ONLY <2>1, <3>1, <3>2
  <2> QED
    BY <1>6, <2>2, <2>3 DEF Serve
<1>7. CASE HandlerLoadCount
  BY <1>7 DEF HandlerLoadCount
<1>8. CASE HandlerPutCount
  BY <1>8 DEF HandlerPutCount, CountInv, CountsServed
<1>9. CASE Copy
  <2>1. ASSUME NEW i \in 1..msgCount
        PROVE  Fetch(msgList, i + 1) \in Messages \cup {Junk}
    <3>1. /\ msgList \in Seq(Messages \cup {Junk})
          /\ i + 1 \in Nat
          /\ i + 1 > 0
      OBVIOUS
    <3> QED
      BY ONLY <3>1, FetchType
  <2>2. handlerList' \in Seq(Messages \cup {Junk})
    BY <1>9, <2>1 DEF Copy
  <2> QED
    BY <1>9, <2>2 DEF Copy
<1>10. CASE Install
  BY <1>10 DEF Install
<1>11. CASE HandlerUnlock
  BY <1>11, SizesAssumption DEF HandlerUnlock
<1>12. CASE SpuriousWakeup
  BY <1>12 DEF SpuriousWakeup
<1> QED
  BY <1>1, <1>2, <1>3, <1>4, <1>5, <1>6, <1>7, <1>8, <1>9, <1>10, <1>11,
     <1>12 DEF HandlerStep

\* The handler touches neither local_mutex nor handler_started, and does not
\* end.
LEMMA HandlerLocks ==
    ASSUME IInv, HandlerStep \/ SpuriousWakeup
    PROVE  LockInv'
<1>1. UNCHANGED callerVars
  BY DEF HandlerStep, Top, HandlerLock, TestEmpty, TestNonEmpty, CondWait,
         Serve, HandlerLoadCount, HandlerPutCount, Copy, Install,
         HandlerUnlock, SpuriousWakeup
<1>2. handlerPc # "off" /\ handlerPc' # "off"
  BY DEF HandlerStep, Top, HandlerLock, TestEmpty, TestNonEmpty, CondWait,
         Serve, HandlerLoadCount, HandlerPutCount, Copy, Install,
         HandlerUnlock, SpuriousWakeup
<1> QED
  BY <1>1, <1>2
     DEF IInv, LockInv, HoldsLocal, HandlerOnce, Producing, callerVars

LEMMA HandlerCounts ==
    ASSUME IInv, HandlerStep \/ SpuriousWakeup
    PROVE  CountInv'
<1> USE SizesAssumption
    DEF IInv, TypeOK, CountInv, CountBounded, RoomLeft, CountsServed,
        callerVars
<1>1. CASE Top
  BY <1>1 DEF Top
<1>2. CASE HandlerLock
  BY <1>2 DEF HandlerLock
<1>3. CASE TestEmpty
  BY <1>3 DEF TestEmpty
<1>4. CASE TestNonEmpty
  BY <1>4 DEF TestNonEmpty
<1>5. CASE CondWait
  BY <1>5 DEF CondWait
<1>6. CASE Serve
  BY <1>6 DEF Serve
<1>7. CASE HandlerLoadCount
  BY <1>7 DEF HandlerLoadCount
<1>8. CASE HandlerPutCount
  BY <1>8 DEF HandlerPutCount
<1>9. CASE Copy
  BY <1>9 DEF Copy
<1>10. CASE Install
  BY <1>10 DEF Install
<1>11. CASE HandlerUnlock
  BY <1>11 DEF HandlerUnlock
<1>12. CASE SpuriousWakeup
  BY <1>12 DEF SpuriousWakeup
<1> QED
  BY <1>1, <1>2, <1>3, <1>4, <1>5, <1>6, <1>7, <1>8, <1>9, <1>10, <1>11,
     <1>12 DEF HandlerStep

-----------------------------------------------------------------------------
\* Every step preserves IInv.
LEMMA NextIInv == IInv /\ [Next]_vars => IInv'
<1> SUFFICES ASSUME IInv, [Next]_vars PROVE IInv'
  OBVIOUS
<1>1. ASSUME NEW c \in Callers, Call(c) \/ CallerStep(c)
      PROVE  IInv'
  <2>1. TypeOK'
    BY <1>1, CallerTypes
  <2>2. LockInv'
    BY <1>1, CallerLocks
  <2>3. CountInv'
    BY <1>1, CallerCounts
  <2> QED
    BY <2>1, <2>2, <2>3 DEF IInv
<1>2. CASE HandlerStep \/ SpuriousWakeup
  BY <1>2, HandlerTypes, HandlerLocks, HandlerCounts DEF IInv
<1>3. CASE UNCHANGED vars
  <2> USE <1>3 DEF vars, callerVars, handlerVars
  <2>1. TypeOK'
    BY DEF IInv, TypeOK
  <2>2. LockInv'
    BY DEF IInv, LockInv, HoldsLocal, HandlerOnce, Producing
  <2>3. CountInv'
    BY DEF IInv, CountInv, CountBounded, RoomLeft, CountsServed
  <2> QED
    BY <2>1, <2>2, <2>3 DEF IInv
<1> QED
  BY <1>1, <1>2, <1>3 DEF Next

LEMMA Invariance == Spec => []IInv
  BY InitIInv, NextIInv, PTL DEF Spec

-----------------------------------------------------------------------------
\* The queue's variables keep their types: in particular msg_count is never
\* negative, whatever the handler decrements (irc.c:132).
THEOREM QueueTypes == Spec => []TypeOK
<1>1. IInv => TypeOK
  BY DEF IInv
<1> QED
  BY <1>1, Invariance, PTL

\* At any number of callers, msg_count stays between 0 and MAX_MSG_COUNT
\* though callers and the handler update it without excluding each other
\* (irc.c:45, 63, 132).
THEOREM QueueBounded == Spec => []CountBounded
<1>1. IInv => CountBounded
  BY DEF IInv, CountInv
<1> QED
  BY <1>1, Invariance, PTL

\* At any number of callers, local_mutex (irc.c:43) keeps them apart, and the
\* handler's thread is created once.
THEOREM QueueOneProducer == Spec => []OneProducer
<1>1. ASSUME IInv, NEW c \in Callers, NEW d \in Callers,
             Producing(c), Producing(d)
      PROVE  c = d
  BY <1>1 DEF IInv, LockInv, HoldsLocal
<1>2. ASSUME IInv, NEW c \in Callers, pc[c] = "start"
      PROVE  handlerPc = "off"
  BY <1>2 DEF IInv, LockInv, HandlerOnce
<1>3. IInv => OneProducer
  BY <1>1, <1>2 DEF OneProducer
<1> QED
  BY <1>3, Invariance, PTL
-----------------------------------------------------------------------------
(***************************************************************************)
(* QueueExact, until the handler serves the queue without having it to     *)
(* itself.  Every accepted message is another one; the handler that has    *)
(* the queue keeps it until it unlocks; and between two looks at the queue *)
(* at rest, the list and msg_count differ from it by what is in hand.      *)
(***************************************************************************)
Pending(c) == pc[c] \in {"lock", "test", "lockGlobal", "store"}
Serving == handlerPc \in {"serve", "load", "put", "copy", "install", "unlock"}

\* No two calls pass the same message.
FreshInv ==
    /\ \A i \in 1..Len(accepted) : accepted[i].id <= calls
    /\ \A i, j \in 1..Len(accepted) : accepted[i].id = accepted[j].id => i = j
    /\ \A c \in Callers : Pending(c) =>
          /\ msg[c].id <= calls
          /\ \A i \in 1..Len(accepted) : accepted[i].id # msg[c].id
          /\ \A d \in Callers : Pending(d) /\ msg[c].id = msg[d].id => c = d

ServesAlone ==
    Serving => globalMutex = Handler /\ \A c \in Callers : pc[c] \notin InList

\* list holds what was accepted, but for the first n.
Holds(list, n) ==
    /\ n \in 0..Len(accepted)
    /\ Len(list) = Len(accepted) - n
    /\ \A i \in 1..Len(list) : list[i] = accepted[n + i]

ListExact ==
    /\ handlerPc \in {"load", "put", "copy"} => Holds(msgList, Handled - 1)
    /\ handlerPc = "install" => Holds(handlerList, Handled)
    /\ handlerPc \notin {"load", "put", "copy", "install"} => Holds(msgList, Handled)

CountExact ==
    /\ handlerPc = "put" => handlerReg = msgCount
    /\ handlerPc = "copy" => msgCount = Len(msgList) - 1
    /\ handlerPc = "install" => msgCount = Len(handlerList)
    /\ handlerPc \notin {"copy", "install"} =>
          /\ \A c \in Callers : pc[c] \in {"load", "put"} => msgCount = Len(msgList) - 1
          /\ (\A c \in Callers : pc[c] \notin {"load", "put"}) => msgCount = Len(msgList)
    /\ \A c \in Callers : pc[c] = "put" => reg[c] = msgCount

SentExact ==
    /\ Kept(sent, accepted, Handled, dropped)
    /\ \A m \in dropped : \E i \in 1..Handled : m = accepted[i]

ExactInv ==
    /\ IsFiniteSet(dropped)
    /\ FreshInv
    /\ ~raced => ServesAlone /\ ListExact /\ CountExact /\ SentExact

LEMMA HandledType ==
    ASSUME IInv, ExactInv
    PROVE  Handled \in Nat /\ Len(sent) \in Nat /\ Cardinality(dropped) \in Nat
           /\ Len(accepted) \in Nat /\ Len(msgList) \in Nat /\ msgCount \in Nat
<1>1. Cardinality(dropped) \in Nat
  BY FS_CardinalityType DEF ExactInv
<1>2. Len(sent) \in Nat /\ Len(accepted) \in Nat /\ Len(msgList) \in Nat
  BY LenProperties DEF IInv, TypeOK
<1> QED
  BY <1>1, <1>2 DEF Handled, IInv, TypeOK

LEMMA FreshFrame ==
    ASSUME FreshInv, UNCHANGED <<accepted, msg, calls>>,
           \A c \in Callers : Pending(c)' => Pending(c)
    PROVE  FreshInv'
  BY DEF FreshInv

LEMMA FreshKeeps ==
    ASSUME IInv, FreshInv, [Next]_vars PROVE FreshInv'
<1>0. /\ pc \in [Callers -> {"idle", "lock"} \cup InCall] /\ msg \in [Callers -> Messages \cup {None}]
      /\ accepted \in Seq(Messages) /\ calls \in Nat
  BY SizesAssumption DEF IInv, TypeOK
<1>1. ASSUME NEW c \in Callers, Call(c) PROVE FreshInv'
<2>1. PICK drop \in BOOLEAN : msg' = [msg EXCEPT ![c] = [id |-> calls + 1, drop |-> drop]]
  BY <1>1 DEF Call
<2>2. calls' = calls + 1 /\ accepted' = accepted
      /\ pc' = [pc EXCEPT ![c] = "lock"]
  BY <1>1 DEF Call, Goto
<2>3. msg'[c].id = calls + 1 /\ \A d \in Callers : d # c => msg'[d] = msg[d]
  BY <1>0, <2>1
<2>4. \A d \in Callers : d # c => (Pending(d)' <=> Pending(d))
  BY <1>0, <2>2 DEF Pending
<2>5. \A i \in 1..Len(accepted) : accepted[i] \in Messages /\ accepted[i].id \in Nat
<3>1. \A i \in 1..Len(accepted) : accepted[i] \in Messages
  BY <1>0, ElementOfSeq
<3>2. \A m \in Messages : m.id \in Nat
  BY DEF Messages
<3> QED
  BY <3>1, <3>2
<2>6. ASSUME NEW d \in Callers, Pending(d)'
      PROVE  /\ msg'[d].id <= calls'
             /\ \A i \in 1..Len(accepted) : accepted[i].id # msg'[d].id
             /\ \A e \in Callers : Pending(e)' /\ msg'[d].id = msg'[e].id => d = e
<3>1. \A e \in Callers : e # c /\ Pending(e)' =>
         msg'[e] = msg[e] /\ msg[e].id <= calls /\ msg[e].id \in Nat
<4> SUFFICES ASSUME NEW e \in Callers, e # c, Pending(e)'
             PROVE msg'[e] = msg[e] /\ msg[e].id <= calls /\ msg[e].id \in Nat
  OBVIOUS
<4>1. Pending(e)
  BY <2>4
<4>2. msg[e] \in Messages
  BY <4>1 DEF IInv, TypeOK, Pending
<4> QED
  BY <2>3, <4>1, <4>2 DEF FreshInv, Messages
<3>2. CASE d = c
<4>1. \A i \in 1..Len(accepted) : accepted[i].id # calls + 1
  BY <1>0, <2>5 DEF FreshInv
<4> QED
  BY <1>0, <2>2, <2>3, <3>1, <3>2, <4>1
<3>3. CASE d # c
<4>1. Pending(d)
  BY <2>4, <2>6, <3>3
<4>2. \A e \in Callers : Pending(e)' /\ msg'[d].id = msg'[e].id => d = e
<5> SUFFICES ASSUME NEW e \in Callers, Pending(e)', msg'[d].id = msg'[e].id PROVE d = e
  OBVIOUS
<5>1. e # c
  BY <1>0, <2>3, <2>6, <3>1, <3>3
<5>2. Pending(e)
  BY <2>4, <5>1
<5> QED
  BY <2>3, <3>3, <4>1, <5>1, <5>2 DEF FreshInv
<4> QED
  BY <1>0, <2>2, <2>6, <3>1, <3>3, <4>1, <4>2 DEF FreshInv
<3> QED
  BY <3>2, <3>3
<2>7. \A i \in 1..Len(accepted) : accepted[i].id <= calls'
  BY <1>0, <2>2, <2>5 DEF FreshInv
<2>8. \A i, j \in 1..Len(accepted) : accepted[i].id = accepted[j].id => i = j
  BY DEF FreshInv
<2> QED
  BY <2>2, <2>6, <2>7, <2>8 DEF FreshInv
<1>2. ASSUME NEW c \in Callers, Store(c) PROVE FreshInv'
<2>1. /\ pc[c] = "store" /\ accepted' = Append(accepted, msg[c])
      /\ pc' = [pc EXCEPT ![c] = "load"] /\ UNCHANGED <<msg, calls>>
  BY <1>2 DEF Store, Goto
<2>2. Pending(c) /\ msg[c] \in Messages
  BY <2>1 DEF Pending, IInv, TypeOK
<2>3. /\ Len(accepted') = Len(accepted) + 1 /\ Len(accepted) \in Nat
      /\ \A i \in 1..Len(accepted) : accepted'[i] = accepted[i]
      /\ accepted'[Len(accepted) + 1] = msg[c]
  BY <1>0, <2>1, <2>2, AppendProperties, LenProperties
<2>4. \A i \in 1..(Len(accepted) + 1) : i \in 1..Len(accepted) \/ i = Len(accepted) + 1
  BY <2>3
<2>5. \A d \in Callers : Pending(d)' => d # c /\ Pending(d)
  BY <1>0, <2>1 DEF Pending
<2>6. \A i \in 1..Len(accepted') : accepted'[i].id <= calls'
  BY <2>1, <2>2, <2>3, <2>4 DEF FreshInv
<2>7. \A i, j \in 1..Len(accepted') : accepted'[i].id = accepted'[j].id => i = j
  BY <2>2, <2>3, <2>4 DEF FreshInv
<2>8. \A d \in Callers : Pending(d)' =>
         \A i \in 1..Len(accepted') : accepted'[i].id # msg[d].id
  BY <2>2, <2>3, <2>4, <2>5 DEF FreshInv
<2> QED
  BY <2>1, <2>5, <2>6, <2>7, <2>8 DEF FreshInv
<1>3. ASSUME NEW c \in Callers,
             \/ LockLocal(c) \/ Refuse(c) \/ Accept(c) \/ LockGlobal(c) \/ LoadCount(c)
             \/ PutCount(c) \/ UnlockGlobal(c) \/ StartHandler(c) \/ Signal(c)
      PROVE  FreshInv'
<2>1. UNCHANGED <<accepted, msg, calls>>
  BY <1>3 DEF LockLocal, Refuse, Accept, LockGlobal, LoadCount, PutCount, UnlockGlobal,
              StartHandler, Signal
<2>2. \A d \in Callers : Pending(d)' => Pending(d)
  BY <1>0, <1>3 DEF LockLocal, Refuse, Accept, LockGlobal, LoadCount, PutCount, UnlockGlobal,
              StartHandler, Signal, Return, Goto, Pending
<2> QED
  BY <2>1, <2>2, FreshFrame
<1>4. ASSUME HandlerStep \/ SpuriousWakeup \/ UNCHANGED vars PROVE FreshInv'
<2>1. UNCHANGED callerVars
  BY <1>4 DEF HandlerStep, Top, HandlerLock, TestEmpty, TestNonEmpty, CondWait,
         Serve, HandlerLoadCount, HandlerPutCount, Copy, Install,
         HandlerUnlock, SpuriousWakeup, vars
<2> QED
  BY <2>1, FreshFrame DEF callerVars, Pending
<1> QED
  BY <1>1, <1>2, <1>3, <1>4 DEF Next, CallerStep

\* The handler keeps the queue while it serves a message.
LEMMA AloneKeeps ==
    ASSUME IInv, ~raced', ~raced => ServesAlone, [Next]_vars
    PROVE  ServesAlone' /\ ~raced
<1>0. pc \in [Callers -> {"idle", "lock"} \cup InCall] /\ None # Handler
  BY NamesAssumption DEF IInv, TypeOK
<1>1. ASSUME NEW c \in Callers, Call(c) \/ CallerStep(c) PROVE ServesAlone' /\ ~raced
<2>0. raced' = raced
  BY <1>1 DEF Call, CallerStep, LockLocal, Refuse, Accept, LockGlobal, Store, LoadCount, PutCount,
              UnlockGlobal, StartHandler, Signal, handlerVars
<2>1. CASE StartHandler(c)
  BY <2>0, <2>1 DEF StartHandler, ServesAlone, Serving
<2>2. CASE ~StartHandler(c)
<3>1. Serving' => Serving
  BY <1>1, <2>2 DEF Call, CallerStep, LockLocal, Refuse, Accept, LockGlobal, Store, LoadCount,
                    PutCount, UnlockGlobal, Signal, handlerVars, Serving
<3>2. CASE Serving
<4>1. globalMutex = Handler /\ \A d \in Callers : pc[d] \notin InList
  BY <2>0, <3>2 DEF ServesAlone
<4>2. pc' \in [Callers -> {"idle", "lock"} \cup InCall]
      /\ globalMutex' = globalMutex /\ \A d \in Callers : pc'[d] \notin InList
  BY <1>0, <1>1, <2>2, <4>1
     DEF Call, CallerStep, LockLocal, Refuse, Accept, LockGlobal, Store, LoadCount, PutCount,
         UnlockGlobal, Signal, Return, Goto, InList, InCall
<4> QED
  BY <2>0, <4>1, <4>2 DEF ServesAlone
<3> QED
  BY <2>0, <3>1, <3>2 DEF ServesAlone
<2> QED
  BY <2>1, <2>2
<1>2. ASSUME HandlerStep \/ SpuriousWakeup PROVE ServesAlone' /\ ~raced
<2>0. ~raced /\ pc' = pc
<3>1. CASE TestNonEmpty
  BY <3>1 DEF TestNonEmpty, callerVars
<3>2. CASE ~TestNonEmpty
<4>1. raced' = raced /\ UNCHANGED callerVars
  BY <1>2, <3>2 DEF HandlerStep, Top, HandlerLock, TestEmpty, CondWait,
         Serve, HandlerLoadCount, HandlerPutCount, Copy, Install,
         HandlerUnlock, SpuriousWakeup
<4> QED
  BY <4>1 DEF callerVars
<3> QED
  BY <3>1, <3>2
<2>1. CASE TestNonEmpty
  BY <2>0, <2>1 DEF TestNonEmpty, ServesAlone
<2>2. CASE Serve \/ HandlerLoadCount \/ HandlerPutCount \/ Copy \/ Install
<3>1. Serving /\ globalMutex' = globalMutex
  BY <2>2 DEF Serve, HandlerLoadCount, HandlerPutCount, Copy, Install, Serving
<3> QED
  BY <2>0, <3>1 DEF ServesAlone
<2>3. CASE Top \/ HandlerLock \/ TestEmpty \/ CondWait \/ HandlerUnlock \/ SpuriousWakeup
<3>1. ~Serving'
  BY <2>3 DEF Top, HandlerLock, TestEmpty, CondWait, HandlerUnlock, SpuriousWakeup, Serving
<3> QED
  BY <2>0, <3>1 DEF ServesAlone
<2> QED
  BY <1>2, <2>1, <2>2, <2>3 DEF HandlerStep
<1>3. ASSUME UNCHANGED vars PROVE ServesAlone' /\ ~raced
  BY <1>3 DEF vars, callerVars, handlerVars, ServesAlone, Serving
<1> QED
  BY <1>1, <1>2, <1>3 DEF Next

-----------------------------------------------------------------------------
(* Kept when more is accepted, and when the next message is sent or dropped. *)

LEMMA KeptFrame ==
    ASSUME NEW kept, NEW all, NEW more, NEW n, NEW gone,
           Kept(kept, all, n, gone), \A i \in 1..n : more[i] = all[i]
    PROVE  Kept(kept, more, n, gone)
<1>1. \A i \in 1..n : more[i] \in gone \/ \E k \in DOMAIN kept : kept[k] = more[i]
  BY DEF Kept
<1>2. \A k \in DOMAIN kept : kept[k] \notin gone /\ \E i \in 1..n : kept[k] = more[i]
  BY DEF Kept
<1>3. \A k, m \in DOMAIN kept : k < m =>
         \E i, j \in 1..n : i < j /\ kept[k] = more[i] /\ kept[m] = more[j]
  BY DEF Kept
<1> QED
  BY <1>1, <1>2, <1>3 DEF Kept

LEMMA KeptDrop ==
    ASSUME NEW kept, NEW all, NEW n \in Nat, NEW gone,
           Kept(kept, all, n, gone), \A i \in 1..n : all[i] # all[n + 1]
    PROVE  Kept(kept, all, n + 1, gone \cup {all[n + 1]})
<1>0. \A i \in 1..(n + 1) : i \in 1..n \/ i = n + 1
  OBVIOUS
<1>1. \A i \in 1..n : i \in 1..(n + 1)
  OBVIOUS
<1>2. \A i \in 1..(n + 1) : all[i] \in gone \cup {all[n + 1]}
                             \/ \E k \in DOMAIN kept : kept[k] = all[i]
  BY <1>0 DEF Kept
<1>3. \A k \in DOMAIN kept : /\ kept[k] \notin gone \cup {all[n + 1]}
                              /\ \E i \in 1..(n + 1) : kept[k] = all[i]
  BY <1>1 DEF Kept
<1>4. \A k, m \in DOMAIN kept : k < m =>
         \E i, j \in 1..(n + 1) : i < j /\ kept[k] = all[i] /\ kept[m] = all[j]
  BY <1>1 DEF Kept
<1> QED
  BY <1>2, <1>3, <1>4 DEF Kept

LEMMA KeptSend ==
    ASSUME NEW S, NEW kept \in Seq(S), NEW all, NEW n \in Nat, NEW gone,
           Kept(kept, all, n, gone), all[n + 1] \in S, all[n + 1] \notin gone
    PROVE  Kept(Append(kept, all[n + 1]), all, n + 1, gone)
<1> DEFINE longer == Append(kept, all[n + 1])
<1>0. /\ Len(kept) \in Nat /\ DOMAIN kept = 1..Len(kept)
      /\ DOMAIN longer = 1..(Len(kept) + 1)
      /\ \A k \in 1..Len(kept) : longer[k] = kept[k]
      /\ longer[Len(kept) + 1] = all[n + 1]
  BY AppendProperties, LenProperties
<1> HIDE DEF longer
<1>1. \A k \in DOMAIN longer : k \in DOMAIN kept \/ k = Len(kept) + 1
  BY <1>0
<1>2. \A i \in 1..(n + 1) : i \in 1..n \/ i = n + 1
  OBVIOUS
<1>3. /\ \A i \in 1..n : i \in 1..(n + 1) /\ i < n + 1
      /\ n + 1 \in 1..(n + 1)
  OBVIOUS
<1>4. /\ DOMAIN kept \subseteq DOMAIN longer
      /\ Len(kept) + 1 \in DOMAIN longer
      /\ \A k \in DOMAIN kept : longer[k] = kept[k]
  BY <1>0
<1>5. \A i \in 1..(n + 1) : all[i] \in gone \/ \E k \in DOMAIN longer : longer[k] = all[i]
  <2> SUFFICES ASSUME NEW i \in 1..(n + 1), all[i] \notin gone
               PROVE  \E k \in DOMAIN longer : longer[k] = all[i]
    OBVIOUS
  <2>1. CASE i = n + 1
    BY <1>0, <1>4, <2>1
  <2>2. CASE i \in 1..n
    BY <1>4, <2>2 DEF Kept
  <2> QED
    BY <1>2, <2>1, <2>2
<1>6. \A k \in DOMAIN longer : longer[k] \notin gone /\ \E i \in 1..(n + 1) : longer[k] = all[i]
  <2> SUFFICES ASSUME NEW k \in DOMAIN longer
               PROVE  longer[k] \notin gone /\ \E i \in 1..(n + 1) : longer[k] = all[i]
    OBVIOUS
  <2>1. CASE k = Len(kept) + 1
    BY <1>0, <1>3, <2>1
  <2>2. CASE k \in DOMAIN kept
    BY <1>3, <1>4, <2>2 DEF Kept
  <2> QED
    BY <1>1, <2>1, <2>2
<1>7. \A k, m \in DOMAIN longer : k < m =>
         \E i, j \in 1..(n + 1) : i < j /\ longer[k] = all[i] /\ longer[m] = all[j]
  <2> SUFFICES ASSUME NEW k \in DOMAIN longer, NEW m \in DOMAIN longer, k < m
               PROVE  \E i, j \in 1..(n + 1) : i < j /\ longer[k] = all[i] /\ longer[m] = all[j]
    OBVIOUS
  <2>1. k \in DOMAIN kept
    BY <1>0
  <2>2. CASE m = Len(kept) + 1
    <3>1. PICK i \in 1..n : kept[k] = all[i]
      BY <2>1 DEF Kept
    <3> QED
      BY <1>0, <1>3, <1>4, <2>1, <2>2, <3>1
  <2>3. CASE m \in DOMAIN kept
    <3>1. PICK i \in 1..n, j \in 1..n : i < j /\ kept[k] = all[i] /\ kept[m] = all[j]
      BY <2>1, <2>3 DEF Kept
    <3> QED
      BY <1>3, <1>4, <2>1, <2>3, <3>1
  <2> QED
    BY <1>1, <2>2, <2>3
<1>8. Kept(longer, all, n + 1, gone)
  BY <1>5, <1>6, <1>7 DEF Kept
<1> QED
  BY <1>8 DEF longer

Exact == ListExact /\ CountExact /\ SentExact

\* A step that changes neither the list nor what is known of it.
LEMMA QuietKeeps ==
    ASSUME Exact,
           UNCHANGED <<accepted, msgList, handlerList, sent, dropped, msgCount, handlerReg, reg>>,
           \/ handlerPc' = handlerPc
           \/ /\ handlerPc \notin {"load", "put", "copy", "install"}
              /\ handlerPc' \notin {"load", "put", "copy", "install"},
           \A c \in Callers : (pc'[c] = "load" <=> pc[c] = "load") /\ (pc'[c] = "put" <=> pc[c] = "put")
    PROVE  Exact'
<1>1. ListExact'
  BY DEF Exact, ListExact, Holds, Handled
<1>2. CountExact'
  BY DEF Exact, CountExact
<1>3. SentExact'
  BY DEF Exact, SentExact, Kept, Handled
<1> QED
  BY <1>1, <1>2, <1>3 DEF Exact

LEMMA CallerQuiet ==
    ASSUME IInv, Exact, NEW c \in Callers,
           \/ Call(c) \/ LockLocal(c) \/ Refuse(c) \/ Accept(c) \/ LockGlobal(c)
           \/ UnlockGlobal(c) \/ StartHandler(c) \/ Signal(c)
    PROVE  Exact'
<1>0. pc \in [Callers -> {"idle", "lock"} \cup InCall] /\ reg \in [Callers -> Nat]
  BY DEF IInv, TypeOK
<1>1. UNCHANGED <<accepted, msgList, handlerList, sent, dropped, msgCount, handlerReg, reg>>
  BY DEF Call, LockLocal, Refuse, Accept, LockGlobal, UnlockGlobal, StartHandler, Signal, handlerVars
<1>2. \/ handlerPc' = handlerPc
      \/ /\ handlerPc \notin {"load", "put", "copy", "install"}
         /\ handlerPc' \notin {"load", "put", "copy", "install"}
<2>1. CASE StartHandler(c)
<3>1. handlerPc = "off"
  BY <2>1 DEF StartHandler, IInv, LockInv, HandlerOnce
<3> QED
  BY <2>1, <3>1 DEF StartHandler
<2>2. CASE Signal(c)
  BY <2>2 DEF Signal
<2>3. CASE ~StartHandler(c) /\ ~Signal(c)
  BY <2>3 DEF Call, LockLocal, Refuse, Accept, LockGlobal, UnlockGlobal, handlerVars
<2> QED
  BY <2>1, <2>2, <2>3
<1>3. \A d \in Callers : (pc'[d] = "load" <=> pc[d] = "load") /\ (pc'[d] = "put" <=> pc[d] = "put")
  BY <1>0 DEF Call, LockLocal, Refuse, Accept, LockGlobal, UnlockGlobal, StartHandler, Signal,
              Return, Goto
<1> QED
  BY <1>1, <1>2, <1>3, QuietKeeps

LEMMA HandlerQuiet ==
    ASSUME Exact,
           \/ Top \/ HandlerLock \/ TestEmpty \/ TestNonEmpty \/ CondWait
           \/ HandlerUnlock \/ SpuriousWakeup \/ UNCHANGED vars
    PROVE  Exact'
<1>1. UNCHANGED <<accepted, msgList, handlerList, sent, dropped, msgCount, handlerReg, reg, pc>>
  BY DEF Top, HandlerLock, TestEmpty, TestNonEmpty, CondWait, HandlerUnlock, SpuriousWakeup,
         vars, callerVars, handlerVars
<1>2. \/ handlerPc' = handlerPc
      \/ /\ handlerPc \notin {"load", "put", "copy", "install"}
         /\ handlerPc' \notin {"load", "put", "copy", "install"}
  BY DEF Top, HandlerLock, TestEmpty, TestNonEmpty, CondWait, HandlerUnlock, SpuriousWakeup,
         vars, handlerVars
<1> QED
  BY <1>1, <1>2, QuietKeeps

\* A caller inside the list is the only one, and the handler is not serving.
LEMMA CallerAlone ==
    ASSUME IInv, ServesAlone, NEW c \in Callers, pc[c] \in InList
    PROVE  /\ handlerPc \notin {"load", "put", "copy", "install"}
           /\ \A d \in Callers : d # c => pc[d] \notin {"load", "put"}
  BY DEF IInv, LockInv, HoldsLocal, Producing, InCall, InList, ServesAlone, Serving

LEMMA StoreKeeps ==
    ASSUME IInv, ExactInv, ServesAlone, Exact, NEW c \in Callers, Store(c)
    PROVE  Exact'
<1>0. /\ pc[c] = "store" /\ pc' = [pc EXCEPT ![c] = "load"]
      /\ msgList' = [i \in 1..(msgCount + 1) |->
                        IF i = msgCount + 1 THEN msg[c] ELSE Fetch(msgList, i)]
      /\ accepted' = Append(accepted, msg[c])
      /\ UNCHANGED <<handlerPc, handlerReg, handlerList, sent, dropped, msgCount, reg>>
  BY DEF Store, Goto, handlerVars
<1>1. /\ handlerPc \notin {"load", "put", "copy", "install"}
      /\ \A d \in Callers : pc[d] \notin {"load", "put"}
  BY <1>0, CallerAlone DEF InList
<1>2. /\ msgCount = Len(msgList) /\ Holds(msgList, Handled) /\ SentExact
      /\ Handled \in Nat /\ Len(accepted) \in Nat /\ msgCount \in Nat
  BY <1>1, HandledType DEF Exact, ListExact, CountExact
<1>3. /\ pc \in [Callers -> {"idle", "lock"} \cup InCall]
      /\ msg[c] \in Messages /\ accepted \in Seq(Messages)
      /\ msgList \in Seq(Messages \cup {Junk})
  BY <1>0 DEF IInv, TypeOK
<1>4. /\ Len(accepted') = Len(accepted) + 1
      /\ \A i \in 1..Len(accepted) : accepted'[i] = accepted[i]
      /\ accepted'[Len(accepted) + 1] = msg[c]
  BY <1>0, <1>3, AppendProperties
<1>5. /\ Len(msgList') = msgCount + 1
      /\ \A i \in 1..(msgCount + 1) :
            msgList'[i] = IF i = msgCount + 1 THEN msg[c] ELSE msgList[i]
<2>1. msgList' \in Seq(Messages \cup {Junk})
  BY CallerTypes DEF CallerStep, TypeOK
<2>2. DOMAIN msgList' = 1..(msgCount + 1)
  BY <1>0
<2>3. Len(msgList') = msgCount + 1
  BY <1>2, <2>1, <2>2, LenProperties
<2>4. \A i \in 1..(msgCount + 1) : i # msgCount + 1 => i <= Len(msgList)
  BY <1>2
<2> QED
  BY <1>0, <2>3, <2>4 DEF Fetch
<1>6. Handled' = Handled
  BY <1>0 DEF Handled
<1>7. Holds(msgList, Handled)'
<2>1. Handled \in 0..(Len(accepted) + 1)
      /\ msgCount + 1 = (Len(accepted) + 1) - Handled
  BY <1>2 DEF Holds
<2>2. ASSUME NEW i \in 1..(msgCount + 1) PROVE msgList'[i] = accepted'[Handled + i]
<3>1. CASE i = msgCount + 1
<4>1. Handled + i = Len(accepted) + 1
  BY <1>2, <2>1, <3>1
<4> QED
  BY <1>4, <1>5, <3>1, <4>1
<3>2. CASE i # msgCount + 1
<4>1. i \in 1..Len(msgList) /\ Handled + i \in 1..Len(accepted)
  BY <1>2, <2>1, <3>2
<4> QED
  BY <1>2, <1>4, <1>5, <3>2, <4>1 DEF Holds
<3> QED
  BY <3>1, <3>2
<2> QED
  BY <1>4, <1>5, <1>6, <2>1, <2>2 DEF Holds
<1>8. ListExact'
  BY <1>0, <1>1, <1>7 DEF ListExact
<1>9. CountExact'
<2>1. msgCount' = Len(msgList') - 1 /\ pc'[c] = "load"
  BY <1>0, <1>2, <1>3, <1>5
<2>2. \A d \in Callers : pc'[d] # "put"
  BY <1>0, <1>1, <1>3
<2> QED
  BY <1>0, <1>1, <2>1, <2>2 DEF CountExact
<1>10. SentExact'
<2>1. \A i \in 1..Handled : accepted'[i] = accepted[i]
  BY <1>2, <1>4 DEF Holds
<2>2. Kept(sent, accepted, Handled, dropped)
      /\ \A m \in dropped : \E i \in 1..Handled : m = accepted[i]
  BY <1>2 DEF SentExact
<2>3. Kept(sent, accepted', Handled, dropped)
  BY ONLY <2>1, <2>2, KeptFrame
<2>4. \A m \in dropped : \E i \in 1..Handled : m = accepted'[i]
  BY <2>1, <2>2
<2> QED
  BY <1>0, <1>6, <2>3, <2>4 DEF SentExact
<1> QED
  BY <1>8, <1>9, <1>10 DEF Exact

LEMMA CountingKeeps ==
    ASSUME IInv, ServesAlone, Exact, NEW c \in Callers, LoadCount(c) \/ PutCount(c)
    PROVE  Exact'
<1>0. /\ pc[c] \in {"load", "put"}
      /\ UNCHANGED <<handlerPc, handlerReg, handlerList, sent, dropped, accepted, msgList>>
  BY DEF LoadCount, PutCount, handlerVars
<1>1. /\ handlerPc \notin {"load", "put", "copy", "install"}
      /\ \A d \in Callers : d # c => pc[d] \notin {"load", "put"}
  BY <1>0, CallerAlone DEF InList
<1>2. /\ msgCount = Len(msgList) - 1 /\ (pc[c] = "put" => reg[c] = msgCount)
      /\ Len(msgList) \in Nat
      /\ pc \in [Callers -> {"idle", "lock"} \cup InCall] /\ reg \in [Callers -> Nat]
  BY <1>0, <1>1, LenProperties DEF Exact, CountExact, IInv, TypeOK
<1>3. ListExact'
  BY <1>0 DEF Exact, ListExact, Holds, Handled
<1>4. CountExact'
<2>1. CASE LoadCount(c)
<3>1. pc' = [pc EXCEPT ![c] = "put"] /\ reg' = [reg EXCEPT ![c] = msgCount] /\ msgCount' = msgCount
  BY <2>1 DEF LoadCount, Goto
<3>2. \A d \in Callers : (d # c => pc'[d] = pc[d]) /\ (d = c => pc'[d] = "put" /\ reg'[d] = msgCount)
  BY <1>2, <3>1
<3> QED
  BY <1>0, <1>1, <1>2, <3>1, <3>2 DEF CountExact
<2>2. CASE PutCount(c)
<3>1. pc' = [pc EXCEPT ![c] = "unlockGlobal"] /\ msgCount' = Len(msgList)
  BY <1>2, <2>2 DEF PutCount, Goto
<3>2. \A d \in Callers : pc'[d] \notin {"load", "put"}
  BY <1>1, <1>2, <3>1
<3> QED
  BY <1>0, <1>1, <3>1, <3>2 DEF CountExact
<2> QED
  BY <2>1, <2>2
<1>5. SentExact'
  BY <1>0 DEF Exact, SentExact, Kept, Handled
<1> QED
  BY <1>3, <1>4, <1>5 DEF Exact

\* The oldest message of the list is the next one of accepted, and new.
LEMMA ServeKeeps ==
    ASSUME IInv, ExactInv, ServesAlone, Exact, Serve
    PROVE  Exact' /\ IsFiniteSet(dropped')
<1> DEFINE m == Fetch(msgList, 1)
<1>0. /\ handlerPc = "serve" /\ handlerPc' = "load"
      /\ UNCHANGED <<pc, reg, accepted, msgList, msgCount, handlerReg, handlerList>>
  BY DEF Serve, callerVars
<1>1. \A c \in Callers : pc[c] \notin {"load", "put"}
  BY <1>0 DEF ServesAlone, Serving, InList
<1>2. /\ Holds(msgList, Handled) /\ msgCount = Len(msgList) /\ msgCount > 0
      /\ Kept(sent, accepted, Handled, dropped)
      /\ \A d \in dropped : \E i \in 1..Handled : d = accepted[i]
  BY <1>0, <1>1 DEF Exact, ListExact, CountExact, SentExact, IInv, CountInv, CountsServed
<1>3. /\ accepted \in Seq(Messages) /\ sent \in Seq(Messages \cup {Junk})
      /\ IsFiniteSet(dropped) /\ msgCount \in Nat /\ Len(accepted) \in Nat /\ Len(sent) \in Nat
  BY LenProperties DEF IInv, TypeOK, ExactInv
<1>4. Cardinality(dropped) \in Nat /\ Handled = Len(sent) + Cardinality(dropped) /\ Handled \in Nat
  BY <1>3, FS_CardinalityType DEF Handled
<1>5. Handled + 1 \in 1..Len(accepted) /\ m = accepted[Handled + 1]
<2>1. Len(msgList) = Len(accepted) - Handled /\ 1 \in 1..Len(msgList) /\ 1 <= Len(msgList)
  BY <1>2, <1>3, <1>4 DEF Holds
<2>2. Fetch(msgList, 1) = msgList[1]
  BY <2>1 DEF Fetch
<2>3. msgList[1] = accepted[Handled + 1]
  BY <1>2, <2>1 DEF Holds
<2> QED
  BY <1>2, <1>3, <1>4, <2>1, <2>2, <2>3
<1> HIDE DEF m
<1>6. \A i \in 1..Handled : accepted[i] # accepted[Handled + 1]
<2> SUFFICES ASSUME NEW i \in 1..Handled, accepted[i] = accepted[Handled + 1] PROVE FALSE
  OBVIOUS
<2>1. i \in 1..Len(accepted) /\ i # Handled + 1
  BY <1>3, <1>4, <1>5
<2> QED
  BY <1>5, <2>1 DEF ExactInv, FreshInv
<1>7. m \notin dropped
  BY <1>2, <1>5, <1>6
<1>8. \/ dropped' = dropped \cup {m} /\ sent' = sent
      \/ sent' = Append(sent, m) /\ dropped' = dropped
  BY DEF Serve, m
<1>9. /\ IsFiniteSet(dropped') /\ Handled' = Handled + 1
      /\ Kept(sent', accepted, Handled + 1, dropped')
      /\ \A d \in dropped' : \E i \in 1..(Handled + 1) : d = accepted[i]
<2>1. CASE dropped' = dropped \cup {m} /\ sent' = sent
<3>1. IsFiniteSet(dropped') /\ Cardinality(dropped') = Cardinality(dropped) + 1
  BY <1>3, <1>7, <2>1, FS_AddElement
<3>2. Handled' = Handled + 1
  BY <1>3, <1>4, <2>1, <3>1 DEF Handled
<3>3. Kept(sent, accepted, Handled + 1, dropped \cup {accepted[Handled + 1]})
  BY ONLY <1>2, <1>4, <1>6, KeptDrop
<3>4. \A d \in dropped' : \E i \in 1..(Handled + 1) : d = accepted[i]
<4>1. \A i \in 1..Handled : i \in 1..(Handled + 1)
  BY <1>4
<4>2. Handled + 1 \in 1..(Handled + 1)
  BY <1>4
<4> QED
  BY <1>2, <1>5, <2>1, <4>1, <4>2
<3> QED
  BY <1>5, <2>1, <3>1, <3>2, <3>3, <3>4
<2>2. CASE sent' = Append(sent, m) /\ dropped' = dropped
<3>1. m \in Messages \cup {Junk}
  BY <1>3, <1>5, ElementOfSeq
<3>2. Len(sent') = Len(sent) + 1
  BY <1>3, <2>2, <3>1, AppendProperties
<3>3. Handled' = Handled + 1
  BY <1>3, <1>4, <2>2, <3>2 DEF Handled
<3>4. Kept(Append(sent, accepted[Handled + 1]), accepted, Handled + 1, dropped)
  BY ONLY <1>2, <1>3, <1>4, <1>5, <1>7, <3>1, KeptSend
<3>5. \A d \in dropped' : \E i \in 1..(Handled + 1) : d = accepted[i]
<4>1. \A i \in 1..Handled : i \in 1..(Handled + 1)
  BY <1>4
<4> QED
  BY <1>2, <2>2, <4>1
<3> QED
  BY <1>3, <1>5, <2>2, <3>3, <3>4, <3>5
<2> QED
  BY <1>8, <2>1, <2>2
<1>10. ListExact'
<2>1. Handled' - 1 = Handled
  BY <1>4, <1>9
<2> QED
  BY <1>0, <1>2, <2>1 DEF ListExact, Holds
<1>11. CountExact'
  BY <1>0, <1>1, <1>2 DEF CountExact
<1>12. SentExact'
  BY <1>0, <1>9 DEF SentExact
<1> QED
  BY <1>9, <1>10, <1>11, <1>12 DEF Exact

\* msg_count-- and the move to the new list.
LEMMA ShiftKeeps ==
    ASSUME IInv, ExactInv, ServesAlone, Exact,
           HandlerLoadCount \/ HandlerPutCount \/ Copy \/ Install
    PROVE  Exact'
<1>0. UNCHANGED <<pc, reg, accepted, sent, dropped>>
  BY DEF HandlerLoadCount, HandlerPutCount, Copy, Install, callerVars
<1>1. \A c \in Callers : pc[c] \notin {"load", "put"}
  BY DEF ServesAlone, Serving, InList, HandlerLoadCount, HandlerPutCount, Copy, Install
<1>2. /\ msgCount \in Nat /\ Len(msgList) \in Nat /\ Len(accepted) \in Nat
      /\ Handled \in Nat /\ Handled' = Handled
<2>1. msgCount \in Nat /\ msgList \in Seq(Messages \cup {Junk}) /\ accepted \in Seq(Messages)
  BY DEF IInv, TypeOK
<2>2. Handled' = Handled
  BY <1>0 DEF Handled
<2> QED
<3>1. Len(msgList) \in Nat /\ Len(accepted) \in Nat
  BY <2>1, LenProperties
<3>2. Handled \in Nat
  BY HandledType
<3> QED
  BY <2>1, <2>2, <3>1, <3>2
<1>3. SentExact'
<2>1. Kept(sent, accepted, Handled, dropped)
      /\ \A m \in dropped : \E i \in 1..Handled : m = accepted[i]
  BY DEF Exact, SentExact
<2> QED
  BY <1>0, <1>2, <2>1 DEF SentExact
<1>4. CASE HandlerLoadCount
<2>1. /\ handlerPc = "load" /\ handlerPc' = "put" /\ handlerReg' = msgCount
      /\ UNCHANGED <<msgCount, msgList>>
  BY <1>4 DEF HandlerLoadCount
<2>2. ListExact'
  BY <1>0, <1>2, <2>1 DEF Exact, ListExact, Holds
<2>3. CountExact'
  BY <1>0, <1>1, <2>1 DEF Exact, CountExact
<2> QED
  BY <1>3, <2>2, <2>3 DEF Exact
<1>5. CASE HandlerPutCount
<2>1. /\ handlerPc = "put" /\ handlerPc' = "copy" /\ msgCount' = handlerReg - 1
      /\ UNCHANGED msgList
  BY <1>5 DEF HandlerPutCount
<2>2. ListExact'
  BY <1>0, <1>2, <2>1 DEF Exact, ListExact, Holds
<2>3. msgCount' = Len(msgList) - 1
  BY <1>1, <2>1 DEF Exact, CountExact
<2>4. CountExact'
  BY <1>0, <1>1, <2>1, <2>3 DEF CountExact
<2> QED
  BY <1>3, <2>2, <2>4 DEF Exact
<1>6. CASE Copy
<2>1. /\ handlerPc = "copy" /\ handlerPc' = "install" /\ UNCHANGED <<msgCount, msgList>>
      /\ handlerList' = [i \in 1..msgCount |-> Fetch(msgList, i + 1)]
  BY <1>6 DEF Copy
<2>2. Holds(msgList, Handled - 1) /\ msgCount = Len(msgList) - 1
  BY <2>1 DEF Exact, ListExact, CountExact
<2>3. handlerList' \in Seq(Messages \cup {Junk})
  BY <1>6, HandlerTypes DEF HandlerStep, TypeOK
<2>4. Len(handlerList') = msgCount
  BY <1>2, <2>1, <2>3, LenProperties
<2>5. ASSUME NEW i \in 1..msgCount PROVE handlerList'[i] = accepted[Handled + i]
<3>1. i + 1 \in 1..Len(msgList) /\ i + 1 <= Len(msgList) /\ Handled - 1 + (i + 1) = Handled + i
  BY <1>2, <2>2
<3>2. handlerList'[i] = msgList[i + 1]
  BY <2>1, <3>1 DEF Fetch
<3>3. msgList[i + 1] = accepted[Handled - 1 + (i + 1)]
  BY <2>2, <3>1 DEF Holds
<3> QED
  BY <3>1, <3>2, <3>3
<2>6. Handled \in 0..Len(accepted) /\ msgCount = Len(accepted) - Handled
  BY <1>2, <2>2 DEF Holds
<2>7. ListExact'
  BY <1>0, <1>2, <2>1, <2>4, <2>5, <2>6 DEF ListExact, Holds
<2>8. CountExact'
  BY <1>0, <1>1, <2>1, <2>4 DEF CountExact
<2> QED
  BY <1>3, <2>7, <2>8 DEF Exact
<1>7. CASE Install
<2>1. /\ handlerPc = "install" /\ handlerPc' = "unlock" /\ msgList' = handlerList
      /\ UNCHANGED msgCount
  BY <1>7 DEF Install
<2>2. Holds(handlerList, Handled) /\ msgCount = Len(handlerList)
  BY <2>1 DEF Exact, ListExact, CountExact
<2>3. ListExact'
  BY <1>0, <1>2, <2>1, <2>2 DEF ListExact, Holds
<2>4. CountExact'
  BY <1>0, <1>1, <2>1, <2>2 DEF CountExact
<2> QED
  BY <1>3, <2>3, <2>4 DEF Exact
<1> QED
  BY <1>4, <1>5, <1>6, <1>7

\* The state the program starts in.
LEMMA InitExact == Init => ExactInv
<1> SUFFICES ASSUME Init PROVE ExactInv
  OBVIOUS
<1>1. IsFiniteSet(dropped) /\ Cardinality(dropped) = 0
  BY FS_EmptySet DEF Init
<1>2. /\ Len(accepted) = 0 /\ Len(sent) = 0 /\ Len(msgList) = 0 /\ Handled = 0
      /\ DOMAIN sent = {} /\ 1..0 = {}
  BY <1>1 DEF Init, Handled
<1>3. FreshInv
  BY <1>2 DEF Init, FreshInv, Pending
<1>4. ServesAlone /\ ListExact
  BY <1>2 DEF Init, ServesAlone, Serving, ListExact, Holds
<1>5. CountExact
  BY <1>2 DEF Init, CountExact
<1>6. SentExact
  BY <1>2 DEF Init, SentExact, Kept
<1> QED
  BY <1>1, <1>3, <1>4, <1>5, <1>6 DEF ExactInv

\* Every step preserves ExactInv.
LEMMA NextExact == IInv /\ ExactInv /\ [Next]_vars => ExactInv'
<1> SUFFICES ASSUME IInv, ExactInv, [Next]_vars PROVE ExactInv'
  OBVIOUS
<1>1. FreshInv'
  BY FreshKeeps DEF ExactInv
<1>2. IsFiniteSet(dropped')
<2>1. dropped' = dropped \/ \E x : dropped' = dropped \cup {x}
<3>1. CASE Serve
  BY <3>1 DEF Serve
<3>2. CASE ~Serve
<4>1. CASE \E c \in Callers : Call(c) \/ CallerStep(c)
  BY <4>1 DEF Call, CallerStep, LockLocal, Refuse, Accept, LockGlobal, Store, LoadCount,
              PutCount, UnlockGlobal, StartHandler, Signal, handlerVars
<4>2. CASE HandlerStep \/ SpuriousWakeup
  BY <3>2, <4>2 DEF HandlerStep, Top, HandlerLock, TestEmpty, TestNonEmpty, CondWait,
         HandlerLoadCount, HandlerPutCount, Copy, Install, HandlerUnlock, SpuriousWakeup
<4>3. CASE UNCHANGED vars
  BY <4>3 DEF vars, handlerVars
<4> QED
  BY <4>1, <4>2, <4>3 DEF Next
<3> QED
  BY <3>1, <3>2
<2> QED
  BY <2>1, FS_AddElement DEF ExactInv
<1>3. ASSUME ~raced' PROVE ServesAlone' /\ Exact'
<2>0. Next \/ UNCHANGED vars
  OBVIOUS
<2>1. ServesAlone' /\ ~raced
  BY <1>3, AloneKeeps DEF ExactInv
<2>2. ServesAlone /\ Exact
  BY <2>1 DEF ExactInv, Exact
<2>3. ASSUME \E c \in Callers : Call(c) \/ CallerStep(c) PROVE Exact'
<3> SUFFICES ASSUME NEW c \in Callers, Call(c) \/ CallerStep(c) PROVE Exact'
  BY <2>3
<3>1. CASE Store(c)
  BY <2>2, <3>1, StoreKeeps
<3>2. CASE LoadCount(c) \/ PutCount(c)
  BY <2>2, <3>2, CountingKeeps
<3>3. CASE \/ Call(c) \/ LockLocal(c) \/ Refuse(c) \/ Accept(c) \/ LockGlobal(c)
           \/ UnlockGlobal(c) \/ StartHandler(c) \/ Signal(c)
  BY <2>2, <3>3, CallerQuiet
<3> QED
  BY <3>1, <3>2, <3>3 DEF CallerStep
<2>4. ASSUME HandlerStep \/ SpuriousWakeup \/ UNCHANGED vars PROVE Exact'
<3>1. CASE Serve
  BY <2>2, <3>1, ServeKeeps
<3>2. CASE HandlerLoadCount \/ HandlerPutCount \/ Copy \/ Install
  BY <2>2, <3>2, ShiftKeeps
<3>3. CASE \/ Top \/ HandlerLock \/ TestEmpty \/ TestNonEmpty \/ CondWait
           \/ HandlerUnlock \/ SpuriousWakeup \/ UNCHANGED vars
  BY <2>2, <3>3, HandlerQuiet
<3> QED
  BY <2>4, <3>1, <3>2, <3>3 DEF HandlerStep
<2> QED
  BY <2>0, <2>1, <2>3, <2>4 DEF Next
<1> QED
  BY <1>1, <1>2, <1>3 DEF ExactInv, Exact

\* At any number of callers, size of the queue and number of calls: as long as
\* the handler has had the queue to itself (irc.c:102), the list between its
\* updates is what was accepted and is not yet handled, and what was sent is
\* the rest without what was dropped, in order (irc.c:60-63, 124-148).
THEOREM QueueAlwaysExact == Spec => []QueueExact
<1>1. IInv /\ ExactInv => QueueExact
<2> SUFFICES ASSUME IInv, ExactInv, ~raced,
                    \A c \in Callers : pc[c] \notin InList,
                    handlerPc \notin {"load", "put", "copy", "install"}
             PROVE  /\ msgCount = Len(msgList)
                    /\ msgList = SubSeq(accepted, Handled + 1, Len(accepted))
                    /\ Kept(sent, accepted, Handled, dropped)
  BY DEF QueueExact
<2>1. Holds(msgList, Handled) /\ Kept(sent, accepted, Handled, dropped)
  BY DEF ExactInv, ListExact, SentExact
<2>2. msgCount = Len(msgList)
  BY DEF ExactInv, CountExact, InList
<2>3. msgList = SubSeq(accepted, Handled + 1, Len(accepted))
<3> DEFINE rest == SubSeq(accepted, Handled + 1, Len(accepted))
<3>0. /\ accepted \in Seq(Messages) /\ msgList \in Seq(Messages \cup {Junk})
      /\ Handled \in Nat /\ Len(accepted) \in Nat /\ Handled <= Len(accepted)
      /\ Len(msgList) = Len(accepted) - Handled
      /\ Handled + 1 \in 1..(Len(accepted) + 1)
  BY <2>1, HandledType, LenProperties DEF IInv, TypeOK, Holds
<3>1. /\ rest \in Seq(Messages) /\ Len(rest) = Len(accepted) - Handled
      /\ \A i \in 1..(Len(accepted) - Handled) : rest[i] = accepted[Handled + i]
<4>1. Len(accepted) \in Handled..Len(accepted)
  BY <3>0
<4>2. \A i \in 1..(Len(accepted) - Handled) : Handled + 1 + i - 1 = Handled + i
  BY <3>0
<4> QED
  BY <3>0, <4>1, <4>2, SubSeqProperties
<3> HIDE DEF rest
<3>2. \A i \in 1..Len(msgList) : msgList[i] = rest[i]
  BY <2>1, <3>0, <3>1 DEF Holds
<3>3. rest \in Seq(Messages \cup {Junk})
  BY <3>1
<3>4. msgList = rest
  BY ONLY <3>0, <3>1, <3>2, <3>3, SeqEqual
<3> QED
  BY <3>4 DEF rest
<2> QED
  BY <2>1, <2>2, <2>3
<1> QED
  BY <1>1, InitExact, NextExact, Invariance, PTL DEF Spec
=============================================================================
