---------------------------- MODULE PrivmsgQueue ----------------------------
(***************************************************************************)
(* The rate-limited queue of outgoing PRIVMSGs: add_to_privmsg_queue, run  *)
(* by any thread of the bot, and handle_privmsg_queue, run by the one      *)
(* thread the first call starts.                                           *)
(*                                                                         *)
(* Callers are serialised by local_mutex; the list is meant to be guarded  *)
(* by global_msglist_mutex.  The handler takes that mutex only if it saw   *)
(* msg_count > 0 (irc.c:102), and passes it to pthread_cond_wait either    *)
(* way.  A glibc mutex of the default type does not know its owner, so     *)
(* releasing it, also inside pthread_cond_wait, frees whoever holds it.    *)
(* msg_count and msg_list are read and written in separate steps, since    *)
(* the handler may do so while a caller does.  What such an overlap leaves *)
(* in an array that realloc or free took away is not followed further than *)
(* the values of the list.  last_message_times is written one past its end *)
(* (irc.c:151-152); gcc leaves padding there, so that only the number of   *)
(* entries that are set matters here.                                      *)
(***************************************************************************)
EXTENDS Integers, Sequences, FiniteSets

CONSTANTS
    Callers,      \* the threads that call add_to_privmsg_queue
    Handler,      \* the thread running handle_privmsg_queue
    None,         \* nobody: a free mutex, no message
    Junk,         \* an entry of msg_list that was never written
    MaxMsgCount,  \* MAX_MSG_COUNT
    HistorySize,  \* HISTORY_SIZE
    MaxCalls      \* bound: the calls the callers make together

ASSUME NamesAssumption ==
    /\ Handler \notin Callers
    /\ None \notin Callers \cup {Handler}

ASSUME SizesAssumption ==
    /\ MaxMsgCount \in Nat \ {0}
    /\ HistorySize \in Nat \ {0}
    /\ MaxCalls \in Nat

Messages == [id : 1..MaxCalls, drop : BOOLEAN]

VARIABLES
    localMutex,      \* the holder of local_mutex
    globalMutex,     \* the holder of global_msglist_mutex
    msgCount,        \* msg_count
    msgList,         \* the array msg_list points to
    handlerStarted,  \* handler_started
    pc,              \* where each caller is
    msg,             \* its argument, the message
    reg,             \* its copy of msg_count inside msg_count++
    handlerPc,       \* where the handler is
    handlerReg,      \* its copy of msg_count inside msg_count--
    handlerList,     \* new_msg_list
    history,         \* the entries of last_message_times that are set
    calls,           \* the calls made so far
    accepted,        \* the messages stored in msg_list, in order
    sent,            \* the messages passed to privmsg, in order
    dropped,         \* those dropped while busy
    refused,         \* whether a call found the queue full
    raced            \* whether the handler served the queue without
                     \* having it to itself

callerVars == <<localMutex, pc, msg, reg, handlerStarted, calls, accepted,
                refused>>
handlerVars == <<handlerPc, handlerReg, handlerList, history, sent, dropped,
                 raced>>
vars == <<callerVars, handlerVars, globalMutex, msgCount, msgList>>

Fetch(list, i) == IF i <= Len(list) THEN list[i] ELSE Junk
InList == {"store", "load", "put", "unlockGlobal"}
InCall == InList \cup {"test", "lockGlobal", "start", "signal"}
-----------------------------------------------------------------------------
Init ==
    /\ localMutex = None
    /\ globalMutex = None
    /\ msgCount = 0
    /\ msgList = <<>>
    /\ handlerStarted = FALSE
    /\ pc = [c \in Callers |-> "idle"]
    /\ msg = [c \in Callers |-> None]
    /\ reg = [c \in Callers |-> 0]
    /\ handlerPc = "off"
    /\ handlerReg = 0
    /\ handlerList = <<>>
    /\ history = 0
    /\ calls = 0
    /\ accepted = <<>>
    /\ sent = <<>>
    /\ dropped = {}
    /\ refused = FALSE
    /\ raced = FALSE
-----------------------------------------------------------------------------
(* add_to_privmsg_queue *)

Goto(c, step) == pc' = [pc EXCEPT ![c] = step]

\* A plugin calls it with a message that may or may not be dropped.
Call(c) ==
    /\ pc[c] = "idle"
    /\ calls < MaxCalls
    /\ calls' = calls + 1
    /\ \E drop \in BOOLEAN :
          msg' = [msg EXCEPT ![c] = [id |-> calls + 1, drop |-> drop]]
    /\ Goto(c, "lock")
    /\ UNCHANGED <<localMutex, reg, handlerStarted, accepted, refused,
                   handlerVars, globalMutex, msgCount, msgList>>

\* local_mutex is not static: every call locks its own.
BugLockLocal(c) ==
    /\ pc[c] = "lock"
    /\ localMutex' = c
    /\ Goto(c, "test")
    /\ UNCHANGED <<msg, reg, handlerStarted, calls, accepted, refused,
                   handlerVars, globalMutex, msgCount, msgList>>

LockLocal(c) ==
    /\ pc[c] = "lock"
    /\ localMutex = None
    /\ localMutex' = c
    /\ Goto(c, "test")
    /\ UNCHANGED <<msg, reg, handlerStarted, calls, accepted, refused,
                   handlerVars, globalMutex, msgCount, msgList>>

\* The queue is full: return 0, local_mutex still locked.
BugFull == msgCount > MaxMsgCount   \* off by one
Full == msgCount >= MaxMsgCount

Refuse(c) ==
    /\ pc[c] = "test"
    /\ Full
    /\ refused' = TRUE
    /\ Goto(c, "idle")
    /\ UNCHANGED <<localMutex, msg, reg, handlerStarted, calls, accepted,
                   handlerVars, globalMutex, msgCount, msgList>>

Accept(c) ==
    /\ pc[c] = "test"
    /\ ~Full
    /\ Goto(c, "lockGlobal")
    /\ UNCHANGED <<localMutex, msg, reg, handlerStarted, calls, accepted,
                   refused, handlerVars, globalMutex, msgCount, msgList>>

LockGlobal(c) ==
    /\ pc[c] = "lockGlobal"
    /\ globalMutex = None
    /\ globalMutex' = c
    /\ Goto(c, "store")
    /\ UNCHANGED <<localMutex, msg, reg, handlerStarted, calls, accepted,
                   refused, handlerVars, msgCount, msgList>>

\* msg_list = realloc(msg_list, msg_count + 1); msg_list[msg_count] = new.
Store(c) ==
    /\ pc[c] = "store"
    /\ msgList' = [i \in 1..(msgCount + 1) |->
                      IF i = msgCount + 1 THEN msg[c] ELSE Fetch(msgList, i)]
    /\ accepted' = Append(accepted, msg[c])
    /\ Goto(c, "load")
    /\ UNCHANGED <<localMutex, msg, reg, handlerStarted, calls, refused,
                   handlerVars, globalMutex, msgCount>>

\* msg_count++
LoadCount(c) ==
    /\ pc[c] = "load"
    /\ reg' = [reg EXCEPT ![c] = msgCount]
    /\ Goto(c, "put")
    /\ UNCHANGED <<localMutex, msg, handlerStarted, calls, accepted, refused,
                   handlerVars, globalMutex, msgCount, msgList>>

PutCount(c) ==
    /\ pc[c] = "put"
    /\ msgCount' = reg[c] + 1
    /\ reg' = [reg EXCEPT ![c] = 0]
    /\ Goto(c, "unlockGlobal")
    /\ UNCHANGED <<localMutex, msg, handlerStarted, calls, accepted, refused,
                   handlerVars, globalMutex, msgList>>

UnlockGlobal(c) ==
    /\ pc[c] = "unlockGlobal"
    /\ globalMutex' = None
    /\ Goto(c, IF handlerStarted THEN "signal" ELSE "start")
    /\ UNCHANGED <<localMutex, msg, reg, handlerStarted, calls, accepted,
                   refused, handlerVars, msgCount, msgList>>

\* Return 1, having unlocked local_mutex.
Return(c) ==
    /\ localMutex' = None
    /\ Goto(c, "idle")

\* The first call creates the handler's thread.
StartHandler(c) ==
    /\ pc[c] = "start"
    /\ handlerStarted' = TRUE
    /\ handlerPc' = "top"
    /\ Return(c)
    /\ UNCHANGED <<msg, reg, calls, accepted, refused, handlerReg,
                   handlerList, history, sent, dropped, raced, globalMutex,
                   msgCount, msgList>>

\* A later one signals the condition, which is lost unless the handler waits.
Signal(c) ==
    /\ pc[c] = "signal"
    /\ handlerPc' = IF handlerPc = "waiting" THEN "woken" ELSE handlerPc
    /\ Return(c)
    /\ UNCHANGED <<msg, reg, handlerStarted, calls, accepted, refused,
                   handlerReg, handlerList, history, sent, dropped, raced,
                   globalMutex, msgCount, msgList>>
-----------------------------------------------------------------------------
(* handle_privmsg_queue *)

\* if (msg_count > 0) pthread_mutex_lock(...), read without the mutex.
Top ==
    /\ handlerPc = "top"
    /\ handlerPc' = IF msgCount > 0 THEN "lock" ELSE "while"
    /\ UNCHANGED <<callerVars, handlerReg, handlerList, history, sent,
                   dropped, raced, globalMutex, msgCount, msgList>>

\* if (msg_count == 0) instead of while: no second look after a wake-up.
BugHandlerLock ==
    /\ handlerPc \in {"lock", "woken"}
    /\ globalMutex = None
    /\ globalMutex' = Handler
    /\ handlerPc' = IF handlerPc = "woken" THEN "serve" ELSE "while"
    /\ UNCHANGED <<callerVars, handlerReg, handlerList, history, sent,
                   dropped, raced, msgCount, msgList>>

\* pthread_mutex_lock, here and when pthread_cond_wait returns.
HandlerLock ==
    /\ handlerPc \in {"lock", "woken"}
    /\ globalMutex = None
    /\ globalMutex' = Handler
    /\ handlerPc' = "while"
    /\ UNCHANGED <<callerVars, handlerReg, handlerList, history, sent,
                   dropped, raced, msgCount, msgList>>

\* while (msg_count == 0)
TestEmpty ==
    /\ handlerPc = "while"
    /\ msgCount = 0
    /\ handlerPc' = "wait"
    /\ UNCHANGED <<callerVars, handlerReg, handlerList, history, sent,
                   dropped, raced, globalMutex, msgCount, msgList>>

TestNonEmpty ==
    /\ handlerPc = "while"
    /\ msgCount > 0
    /\ handlerPc' = "serve"
    /\ raced' = (raced \/ globalMutex # Handler
                       \/ \E c \in Callers : pc[c] \in InList)
    /\ UNCHANGED <<callerVars, handlerReg, handlerList, history, sent,
                   dropped, globalMutex, msgCount, msgList>>

\* The handler waits without giving the mutex up.
BugCondWait ==
    /\ handlerPc = "wait"
    /\ handlerPc' = "waiting"
    /\ UNCHANGED <<callerVars, handlerReg, handlerList, history, sent,
                   dropped, raced, globalMutex, msgCount, msgList>>

\* pthread_cond_wait gives the mutex up and waits, in one step.
CondWait ==
    /\ handlerPc = "wait"
    /\ globalMutex' = None
    /\ handlerPc' = "waiting"
    /\ UNCHANGED <<callerVars, handlerReg, handlerList, history, sent,
                   dropped, raced, msgCount, msgList>>

\* pthread_cond_wait may also return when nobody signalled.
SpuriousWakeup ==
    /\ handlerPc = "waiting"
    /\ handlerPc' = "woken"
    /\ UNCHANGED <<callerVars, handlerReg, handlerList, history, sent,
                   dropped, raced, globalMutex, msgCount, msgList>>

\* Whether time_now is within 300 s of the average of last_message_times,
\* which is far in the past until every entry has been set.
Busy == IF history < HistorySize THEN {FALSE} ELSE BOOLEAN

DropFlag(m) == IF m = Junk THEN BOOLEAN ELSE {m.drop}

\* The oldest message is sent, after a pause if busy, or dropped.
Serve ==
    /\ handlerPc = "serve"
    /\ \E busy \in Busy, drop \in DropFlag(Fetch(msgList, 1)) :
          IF busy /\ drop
          THEN /\ dropped' = dropped \cup {Fetch(msgList, 1)}
               /\ UNCHANGED sent
          ELSE /\ sent' = Append(sent, Fetch(msgList, 1))
               /\ UNCHANGED dropped
    /\ handlerPc' = "load"
    /\ UNCHANGED <<callerVars, handlerReg, handlerList, history, raced,
                   globalMutex, msgCount, msgList>>

\* msg_count--
HandlerLoadCount ==
    /\ handlerPc = "load"
    /\ handlerReg' = msgCount
    /\ handlerPc' = "put"
    /\ UNCHANGED <<callerVars, handlerList, history, sent, dropped, raced,
                   globalMutex, msgCount, msgList>>

HandlerPutCount ==
    /\ handlerPc = "put"
    /\ msgCount' = handlerReg - 1
    /\ handlerReg' = 0
    /\ handlerPc' = "copy"
    /\ UNCHANGED <<callerVars, handlerList, history, sent,
                   dropped, raced, globalMutex, msgList>>

\* The shift by one is missing.
BugCopy ==
    /\ handlerPc = "copy"
    /\ handlerList' = [i \in 1..msgCount |-> Fetch(msgList, i)]
    /\ handlerPc' = "install"
    /\ UNCHANGED <<callerVars, handlerReg, history, sent, dropped, raced,
                   globalMutex, msgCount, msgList>>

\* The msg_count entries after the first are copied to new_msg_list ...
Copy ==
    /\ handlerPc = "copy"
    /\ handlerList' = [i \in 1..msgCount |-> Fetch(msgList, i + 1)]
    /\ handlerPc' = "install"
    /\ UNCHANGED <<callerVars, handlerReg, history, sent, dropped, raced,
                   globalMutex, msgCount, msgList>>

\* ... which then replaces msg_list.
Install ==
    /\ handlerPc = "install"
    /\ msgList' = handlerList
    /\ handlerList' = <<>>
    /\ handlerPc' = "unlock"
    /\ UNCHANGED <<callerVars, handlerReg, history, sent, dropped, raced,
                   globalMutex, msgCount>>

\* The mutex is released, held or not, and the send is put on record.
HandlerUnlock ==
    /\ handlerPc = "unlock"
    /\ globalMutex' = None
    /\ history' = IF history < HistorySize THEN history + 1 ELSE history
    /\ handlerPc' = "top"
    /\ UNCHANGED <<callerVars, handlerReg, handlerList, sent, dropped, raced,
                   msgCount, msgList>>
-----------------------------------------------------------------------------
CallerStep(c) ==
    \/ LockLocal(c)
    \/ Refuse(c)
    \/ Accept(c)
    \/ LockGlobal(c)
    \/ Store(c)
    \/ LoadCount(c)
    \/ PutCount(c)
    \/ UnlockGlobal(c)
    \/ StartHandler(c)
    \/ Signal(c)

HandlerStep ==
    \/ Top
    \/ HandlerLock
    \/ TestEmpty
    \/ TestNonEmpty
    \/ CondWait
    \/ Serve
    \/ HandlerLoadCount
    \/ HandlerPutCount
    \/ Copy
    \/ Install
    \/ HandlerUnlock

Next ==
    \/ \E c \in Callers : Call(c) \/ CallerStep(c)
    \/ HandlerStep
    \/ SpuriousWakeup

\* Threads that can run are scheduled, and a thread blocked on a mutex that
\* is free again and again gets it, also while the handler wakes up for
\* nothing.  Nothing makes a plugin call, nor the condition wake up by itself.
Fairness ==
    /\ WF_vars(HandlerStep)
    /\ \A c \in Callers :
          /\ WF_vars(CallerStep(c))
          /\ SF_vars(LockLocal(c))
          /\ SF_vars(LockGlobal(c))

Spec == Init /\ [][Next]_vars
FairSpec == Spec /\ Fairness
-----------------------------------------------------------------------------
(***************************************************************************)
(* Properties.                                                             *)
(***************************************************************************)
Producing(c) == pc[c] \in InCall
Handled == Len(sent) + Cardinality(dropped)

\* Every variable holds a value of its range.  The mutexes are held by a
\* caller, by the handler (the global one) or by nobody.
TypeOK ==
    /\ localMutex \in Callers \cup {None}
    /\ globalMutex \in Callers \cup {Handler, None}
    /\ msgCount \in Nat
    /\ msgList \in Seq(Messages \cup {Junk})
    /\ handlerStarted \in BOOLEAN
    /\ pc \in [Callers -> {"idle", "lock"} \cup InCall]
    /\ msg \in [Callers -> Messages \cup {None}]
    /\ \A c \in Callers : pc[c] # "idle" => msg[c] \in Messages
    /\ reg \in [Callers -> Nat]
    /\ handlerPc \in {"off", "top", "lock", "while", "wait", "waiting",
                      "woken", "serve", "load", "put", "copy", "install",
                      "unlock"}
    /\ handlerReg \in Nat
    /\ handlerList \in Seq(Messages \cup {Junk})
    /\ history \in 0..HistorySize
    /\ calls \in 0..MaxCalls
    /\ accepted \in Seq(Messages)
    /\ sent \in Seq(Messages \cup {Junk})
    /\ dropped \subseteq Messages \cup {Junk}
    /\ refused \in BOOLEAN
    /\ raced \in BOOLEAN

\* msg_count stays within 0 .. MAX_MSG_COUNT (irc.c:45), even though
\* msg_count++ and msg_count-- may overlap and lose each other's update.
CountBounded == msgCount \in 0..MaxMsgCount

\* One caller at a time is between the locking and the unlocking of
\* local_mutex, also when the handler freed the global mutex under it, and
\* there is at most one handler thread.
OneProducer ==
    /\ \A c, d \in Callers : Producing(c) /\ Producing(d) => c = d
    /\ \A c \in Callers : pc[c] = "start" => handlerPc = "off"

\* kept is what the first n of all have beside gone, in the order of all.
Kept(kept, all, n, gone) ==
    /\ \A i \in 1..n : all[i] \in gone \/ \E k \in DOMAIN kept : kept[k] = all[i]
    /\ \A k \in DOMAIN kept : kept[k] \notin gone /\ \E i \in 1..n : kept[k] = all[i]
    /\ \A k, m \in DOMAIN kept : k < m =>
          \E i, j \in 1..n : i < j /\ kept[k] = all[i] /\ kept[m] = all[j]

\* Until the handler has served the queue without having it to itself, the
\* list holds, in the order of their acceptance, the messages that were
\* accepted and neither sent nor dropped: none is lost, repeated or
\* overtaken.  (Looked at while nobody is changing the list.)
QueueExact ==
    /\ ~raced
    /\ \A c \in Callers : pc[c] \notin InList
    /\ handlerPc \notin {"load", "put", "copy", "install"}
    => /\ msgCount = Len(msgList)
       /\ msgList = SubSeq(accepted, Handled + 1, Len(accepted))
       /\ Kept(sent, accepted, Handled, dropped)

\* As long as no call finds the queue full, every call returns: waiting for
\* the handler, which sends while it holds the mutex, comes to an end.
CallsReturnUnlessRefused ==
    [](~refused) => \A c \in Callers : pc[c] # "idle" ~> pc[c] = "idle"

\* privmsg_queue "Adds message to queue to be sent." (pymain.c:39): what was
\* accepted is sent or dropped in the end, here in runs in which the handler
\* always has the queue to itself.
Settled(id) ==
    \/ \E j \in DOMAIN sent : sent[j] # Junk /\ sent[j].id = id
    \/ \E m \in dropped : m # Junk /\ m.id = id
AcceptedIsSent ==
    [](~raced) =>
        \A id \in 1..MaxCalls :
            (\E i \in DOMAIN accepted : accepted[i].id = id) ~> Settled(id)
=============================================================================
