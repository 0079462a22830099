------------------------------ MODULE Channels ------------------------------
(***************************************************************************)
(* The channel list of channel.c and the events that use it: get_chan_event*)
(* (JOIN, PART, KICK, QUIT, INVITE) and get_channel_info (the numeric      *)
(* replies about a channel), which find a channel or create it and then    *)
(* work on its fields.                                                     *)
(*                                                                         *)
(* Every server has one reader at a time, so that a reader stands here for *)
(* its server, over all reconnects.  The readers share channel_list and    *)
(* channel_count.  create_channel changes them under channel_global_mutex; *)
(* get_channel reads channel_count without it, takes it for one comparison *)
(* at a time, and reads channel_list[i] again after releasing it.          *)
(***************************************************************************)
EXTENDS Integers, Sequences, FiniteSets

CONSTANTS
    Readers,     \* the server_recv threads, one for each server
    Names,       \* names of channels
    Nicks,       \* nicks of users
    Garbled,     \* a string that is no nick: uninitialised or run together
    NotThere,    \* the word of a QUIT message, the name of no channel
    None,        \* no thread, no channel, no user list
    MaxEvents    \* bound: the events handled together

\* The events that reach the search for a channel, by what they do with it:
\* PART and KICK remove a user, RPL_NAMREPLY adds users, QUIT searches only,
\* and JOIN, INVITE, RPL_TOPIC, RPL_TOPICWHOTIME and RPL_ENDOFNAMES change no
\* field another step looks at.
Kinds == {"part", "names", "quit", "look"}
Creating == Kinds \ {"quit"}

\* struct channel: the fields that identify it, and its address.
Entries == [id : 1..MaxEvents, name : Names, srv : Readers]

ASSUME ValuesAssumption ==
    /\ None \notin Readers \cup Names \cup Nicks \cup {Garbled} \cup Entries
    /\ Garbled \notin Nicks
    /\ NotThere \notin Names
    /\ MaxEvents \in Nat

VARIABLES
    channelList,   \* the channels channel_list points to
    channelCount,  \* channel_count
    allocated,     \* whether channel_list points to memory that is allocated
    mutex,         \* the holder of channel_global_mutex
    users,         \* the first word of chan->users, by the address of chan
    pc,            \* where each reader is
    event,         \* the event it handles
    at,            \* the index i of its loop in get_channel
    chan,          \* the channel it works on
    stale,         \* the readers that read channel_list[i] from freed memory
    created,       \* the channels created so far
    events         \* the events handled so far

list == <<channelList, channelCount, allocated, mutex, created>>
vars == <<list, users, pc, event, at, chan, stale, events>>

Goto(r, step) == pc' = [pc EXCEPT ![r] = step]
-----------------------------------------------------------------------------
Init ==
    /\ channelList = <<>>
    /\ channelCount = 0
    /\ allocated = TRUE
    /\ mutex = None
    /\ users = [c \in 1..MaxEvents |-> None]
    /\ pc = [r \in Readers |-> "idle"]
    /\ event = [r \in Readers |-> None]
    /\ at = [r \in Readers |-> 1]
    /\ chan = [r \in Readers |-> None]
    /\ stale = {}
    /\ created = 0
    /\ events = 0

\* get_chan_event, or get_numeric and get_channel_info, on a line that names
\* a channel; any other line, and any before motd_sent, changes nothing.
\* The channel a line is about is one of Names; a QUIT has none, and the
\* first word of its reason is looked up instead.
GetEvent(r) ==
    /\ pc[r] = "idle"
    /\ events < MaxEvents
    /\ events' = events + 1
    /\ \E kind \in Kinds, nick \in Nicks, name \in Names :
          event' = [event EXCEPT ![r] =
                      [kind |-> kind, nick |-> nick,
                       name |-> IF kind = "quit" THEN NotThere ELSE name]]
    /\ Goto(r, "test")
    /\ UNCHANGED <<list, users, at, chan, stale>>
-----------------------------------------------------------------------------
(* get_channel *)

\* The last entry is never looked at.
BugWithin(i) == i < channelCount

\* i < channel_count, read without the mutex.
Within(i) == i <= channelCount

\* The server is not compared.
BugMatches(r, entry) == entry.name = event[r].name

\* The name and the server of the entry are those asked for.
Matches(r, entry) == entry.name = event[r].name /\ entry.srv = r

TestWithin(r) ==
    /\ pc[r] = "test"
    /\ Within(at[r])
    /\ Goto(r, "compare")
    /\ UNCHANGED <<list, users, event, at, chan, stale, events>>

\* One comparison, between a lock and an unlock.
CompareOther(r) ==
    /\ pc[r] = "compare"
    /\ mutex = None
    /\ ~Matches(r, channelList[at[r]])
    /\ at' = [at EXCEPT ![r] = @ + 1]
    /\ Goto(r, "test")
    /\ UNCHANGED <<list, users, event, chan, stale, events>>

CompareFound(r) ==
    /\ pc[r] = "compare"
    /\ mutex = None
    /\ Matches(r, channelList[at[r]])
    /\ Goto(r, "read")
    /\ UNCHANGED <<list, users, event, at, chan, stale, events>>

\* return channel_list[i], after the unlock.  While create_channel has freed
\* the array and not yet set channel_list, the entry comes from freed memory:
\* it is still the old one, or anything; what happens then is not followed.
ReadEntry(r) ==
    /\ pc[r] = "read"
    /\ chan' = [chan EXCEPT ![r] = channelList[at[r]]]
    /\ stale' = IF allocated THEN stale ELSE stale \cup {r}
    /\ Goto(r, "use")
    /\ UNCHANGED <<list, users, event, at, events>>

\* return NULL: all callers but the one for QUIT create the channel then.
NotFound(r) ==
    /\ pc[r] = "test"
    /\ ~Within(at[r])
    /\ Goto(r, IF event[r].kind \in Creating THEN "create" ELSE "use")
    /\ UNCHANGED <<list, users, event, at, chan, stale, events>>
-----------------------------------------------------------------------------
(* create_channel *)

\* The mutex is not taken.
BugLock(r) ==
    /\ pc[r] = "create"
    /\ UNCHANGED mutex

Lock(r) ==
    /\ pc[r] = "create"
    /\ mutex = None
    /\ mutex' = r

\* pthread_mutex_lock, and realloc, which frees the old array.
Realloc(r) ==
    /\ Lock(r)
    /\ allocated' = FALSE
    /\ at' = [at EXCEPT ![r] = channelCount + 1]
    /\ Goto(r, "install")
    /\ UNCHANGED <<channelList, channelCount, created, users, event, chan,
                   stale, events>>

\* The mutex stays locked.
BugUnlock == UNCHANGED mutex

Unlock == mutex' = None

\* The new channel is stored at the end of the new array, channel_count
\* counts it, and channel_list becomes the new array.
Install(r) ==
    /\ pc[r] = "install"
    /\ LET new == [id |-> created + 1, name |-> event[r].name, srv |-> r] IN
          /\ channelList' = [i \in 1..at[r] |-> IF i = at[r] THEN new ELSE channelList[i]]
          /\ chan' = [chan EXCEPT ![r] = new]
    /\ channelCount' = channelCount + 1
    /\ created' = created + 1
    /\ allocated' = TRUE
    /\ Unlock
    /\ Goto(r, "use")
    /\ UNCHANGED <<users, event, at, stale, events>>
-----------------------------------------------------------------------------
(* What is done with the channel. *)

\* The locals of the handlers end with them.
Done(r) ==
    /\ Goto(r, "idle")
    /\ event' = [event EXCEPT ![r] = None]
    /\ at' = [at EXCEPT ![r] = 1]
    /\ chan' = [chan EXCEPT ![r] = None]

\* get_channel_users: the names are appended to chan->users, or, if there
\* are none yet, to what malloc left in the new memory.  Two lists are not
\* separated, so that a first word that was alone is run together with the
\* next one.
GetChannelUsers(r) ==
    /\ pc[r] = "use" /\ event[r].kind = "names"
    /\ LET c == chan[r].id IN
       \E first \in {Garbled, IF users[c] = None THEN event[r].nick ELSE users[c]} :
          users' = [users EXCEPT ![c] = first]
    /\ Done(r)
    /\ UNCHANGED <<list, stale, events>>

\* remove_user, when the first word of chan->users is the nick: the loop
\* goes round without taking the next word.
RemoveUserForever(r) ==
    /\ pc[r] = "use" /\ event[r].kind = "part"
    /\ users[chan[r].id] = event[r].nick
    /\ Goto(r, "forever")
    /\ UNCHANGED <<list, users, event, at, chan, stale, events>>

\* remove_user, when it is another word: strtok_r has cut the string behind
\* it, which leaves nothing to keep and the list is freed.
RemoveUsers(r) ==
    /\ pc[r] = "use" /\ event[r].kind = "part"
    /\ users[chan[r].id] \notin {None, event[r].nick}
    /\ users' = [users EXCEPT ![chan[r].id] = None]
    /\ Done(r)
    /\ UNCHANGED <<list, stale, events>>

\* remove_user without a list: strtok_r starts at an uninitialised pointer.
\* It finds an empty string and the list stays NULL, or it faults, or it finds
\* the nick.
RemoveUserOfNone(r) ==
    /\ pc[r] = "use" /\ event[r].kind = "part"
    /\ users[chan[r].id] = None
    /\ \/ Done(r)
       \/ /\ Goto(r, "fault") \/ Goto(r, "forever")
          /\ UNCHANGED <<event, at, chan>>
    /\ UNCHANGED <<list, users, stale, events>>

\* JOIN and INVITE, whose callbacks only look at the channel; QUIT, whose
\* callbacks get no channel; and the other numerics, which set the topic.
OtherEvent(r) ==
    /\ pc[r] = "use" /\ event[r].kind \in {"quit", "look"}
    /\ Done(r)
    /\ UNCHANGED <<list, users, stale, events>>

Use(r) ==
    \/ GetChannelUsers(r)
    \/ RemoveUserForever(r)
    \/ RemoveUsers(r)
    \/ RemoveUserOfNone(r)
    \/ OtherEvent(r)

Step(r) ==
    \/ TestWithin(r)
    \/ CompareOther(r)
    \/ CompareFound(r)
    \/ ReadEntry(r)
    \/ NotFound(r)
    \/ Realloc(r)
    \/ Install(r)
    \/ Use(r)

Next ==
    /\ \A r \in Readers : pc[r] # "fault"
    /\ \E r \in Readers : GetEvent(r) \/ Step(r)

\* Readers run, and one that waits for the mutex gets it if it is free again
\* and again.
Fairness ==
    \A r \in Readers :
        /\ WF_vars(Step(r))
        /\ SF_vars(CompareOther(r))
        /\ SF_vars(CompareFound(r))
        /\ SF_vars(Realloc(r))

Spec == Init /\ [][Next]_vars
FairSpec == Spec /\ Fairness
-----------------------------------------------------------------------------
(***************************************************************************)
(* Properties.                                                             *)
(***************************************************************************)
Steps == {"idle", "test", "compare", "read", "create", "install", "use",
          "forever", "fault"}
Events == [kind : Kinds, nick : Nicks, name : Names \cup {NotThere}]

\* Every variable holds a value of its range; outside create_channel the
\* count is the length of the list and the list is allocated; a reader has
\* an event while it handles one and a channel when it uses one.
TypeOK ==
    /\ channelList \in Seq(Entries)
    /\ channelCount = Len(channelList)
    /\ created = channelCount
    /\ mutex \in Readers \cup {None}
    /\ allocated \in BOOLEAN
    /\ ~allocated => mutex # None /\ pc[mutex] = "install"
    /\ users \in [1..MaxEvents -> Nicks \cup {Garbled, None}]
    /\ pc \in [Readers -> Steps]
    /\ event \in [Readers -> Events \cup {None}]
    /\ at \in [Readers -> 1..(MaxEvents + 1)]
    /\ chan \in [Readers -> Entries \cup {None}]
    /\ stale \in SUBSET Readers
    /\ events \in 0..MaxEvents
    /\ \A r \in Readers :
          /\ pc[r] # "idle" => event[r] \in Events
          /\ pc[r] \in {"compare", "read"} => at[r] \in DOMAIN channelList
          /\ pc[r] = "install" => mutex = r
          /\ pc[r] = "use" /\ event[r].kind # "quit" => chan[r] # None

\* No channel of a server is in the list twice, although the search and the
\* creation are not one critical section and other readers create channels
\* in between.
NoDuplicates ==
    \A i, j \in DOMAIN channelList :
        /\ channelList[i].name = channelList[j].name
        /\ channelList[i].srv = channelList[j].srv
        => i = j

\* channel_list only grows, at its end: no creation is lost and no channel
\* another reader found is replaced.
OnlyAppends ==
    [][/\ Len(channelList') >= Len(channelList)
       /\ \A i \in DOMAIN channelList : channelList'[i] = channelList[i]]_vars

\* What a reader works on is the channel of its event on its own server, and
\* no other reader works on it, so that the fields of a channel need no lock;
\* unless get_channel read the list while it was being reallocated.
OwnChannel ==
    \A r \in Readers :
        chan[r] # None /\ r \notin stale =>
            /\ chan[r].name = event[r].name /\ chan[r].srv = r
            /\ \A q \in Readers \ ({r} \cup stale) : chan[q] # chan[r]

\* A reader comes back from every event, the waiting for the mutex included,
\* unless it is caught in remove_user or the process faults there.
Caught(r) == pc[r] = "forever" \/ \E q \in Readers : pc[q] = "fault"
EventsReturn ==
    \A r \in Readers : pc[r] # "idle" ~> (pc[r] = "idle" \/ Caught(r))
=============================================================================
