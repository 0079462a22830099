--------------------------- MODULE ChannelsProofs ---------------------------
(***************************************************************************)
(* Proofs about Channels, for every set of readers, names and nicks and    *)
(* every number of events.                                                 *)
(*                                                                         *)
(* NoDuplicates needs to know what a search has already established while  *)
(* the list grows behind it: the entries before the index of the search    *)
(* are not the channel sought, and new entries belong to other readers.    *)
(***************************************************************************)
EXTENDS Channels, FiniteSetTheorems, TLAPS

\* The readers that may still create a channel for their event.
Searching == {"test", "compare", "read", "create", "install"}
Active == {r \in Readers : pc[r] \in Searching}

\* Every channel was created by an event of its own.
Budget ==
    /\ IsFiniteSet(Active)
    /\ created + Cardinality(Active) <= events

\* A search begins with the first entry and is never more than one past the
\* list, and a creation extends it by one.
InRange ==
    \A r \in Readers :
        /\ pc[r] = "idle" => at[r] = 1
        /\ at[r] <= Len(channelList) + 1
        /\ pc[r] = "install" => at[r] = Len(channelList) + 1

\* The entries a search has passed are not the channel it is for, and none is
\* when the search has led to a creation.
Searched ==
    \A r \in Readers, i \in DOMAIN channelList :
        /\ pc[r] \in {"test", "compare"} /\ i < at[r]
              => ~Matches(r, channelList[i])
        /\ pc[r] \in {"create", "install"} => ~Matches(r, channelList[i])

\* A search for a QUIT's word, the only one for no name, creates nothing.
OnlyNamed ==
    \A r \in Readers :
        /\ pc[r] # "idle" /\ event[r].kind \in Creating => event[r].name \in Names
        /\ pc[r] \in {"create", "install"} => event[r].kind \in Creating

\* What a reader found or created is the channel of its event on its server.
Chosen ==
    \A r \in Readers :
        /\ pc[r] = "read" => Matches(r, channelList[at[r]])
        /\ chan[r] # None => Matches(r, chan[r])
        /\ pc[r] = "idle" => chan[r] = None

IInv ==
    TypeOK /\ Budget /\ InRange /\ Searched /\ OnlyNamed /\ Chosen /\ NoDuplicates

-----------------------------------------------------------------------------
LEMMA InitIInv == Init => IInv
<1> SUFFICES ASSUME Init PROVE IInv
  OBVIOUS
<1> USE DEF Init
<1>1. TypeOK
  BY ValuesAssumption DEF TypeOK, Steps
<1>2. Budget
  <2>1. Active = {}
    BY DEF Active, Searching
  <2> QED
    BY <2>1, FS_EmptySet DEF Budget
<1>3. InRange /\ Searched /\ OnlyNamed /\ Chosen /\ NoDuplicates
  BY DEF InRange, Searched, OnlyNamed, Chosen, NoDuplicates
<1> QED
  BY <1>1, <1>2, <1>3 DEF IInv

-----------------------------------------------------------------------------
\* How Budget follows a step of one reader: an event begins, a creation ends,
\* a reader leaves the search without one, or none of these.
LEMMA BudgetStep ==
    ASSUME TypeOK, TypeOK', Budget, NEW r \in Readers,
           pc' = [pc EXCEPT ![r] = pc'[r]],
           \/ pc[r] \notin Searching /\ events' = events + 1 /\ created' = created
           \/ pc[r] \in Searching /\ pc'[r] \notin Searching
              /\ events' = events /\ created' = created + 1
           \/ (pc'[r] \in Searching => pc[r] \in Searching)
              /\ events' = events /\ created' = created
    PROVE  Budget'
<1>1. /\ IsFiniteSet(Active) /\ Cardinality(Active) \in Nat
      /\ created + Cardinality(Active) <= events
  BY FS_CardinalityType DEF Budget
<1>2. created \in Nat /\ events \in Nat /\ events' \in Nat
  BY DEF TypeOK
<1>3. CASE pc'[r] \in Searching /\ pc[r] \notin Searching
  <2>1. Active' = Active \cup {r} /\ r \notin Active
    BY <1>3 DEF Active, TypeOK
  <2>2. IsFiniteSet(Active') /\ Cardinality(Active') = Cardinality(Active) + 1
    BY <1>1, <2>1, FS_AddElement
  <2>3. events' = events + 1 /\ created' = created
    BY <1>3
  <2> QED
    BY <1>1, <1>2, <2>2, <2>3 DEF Budget
<1>4. CASE pc'[r] \notin Searching /\ pc[r] \in Searching
  <2>1. Active' = Active \ {r} /\ r \in Active
    BY <1>4 DEF Active, TypeOK
  <2>2. IsFiniteSet(Active') /\ Cardinality(Active') = Cardinality(Active) - 1
    BY <1>1, <2>1, FS_RemoveElement
  <2>3. events' = events /\ created' \in {created, created + 1}
    BY <1>4
  <2> QED
    BY <1>1, <1>2, <2>2, <2>3 DEF Budget
<1>5. CASE pc'[r] \in Searching <=> pc[r] \in Searching
  <2>1. Active' = Active
    BY <1>5 DEF Active, TypeOK
  <2>2. events' \in {events, events + 1} /\ created' = created
    BY <1>5
  <2> QED
    BY <1>1, <1>2, <2>1, <2>2 DEF Budget
<1> QED
  BY <1>3, <1>4, <1>5

\* There is room for the channel of a reader that searches.
LEMMA RoomToCreate ==
    ASSUME TypeOK, Budget, NEW r \in Readers, pc[r] \in Searching
    PROVE  created < MaxEvents
<1>1. r \in Active /\ IsFiniteSet(Active)
  BY DEF Active, Budget
<1>2. Cardinality(Active) \in Nat /\ Cardinality(Active) # 0
  BY <1>1, FS_CardinalityType, FS_EmptySet
<1> QED
  BY <1>2, ValuesAssumption DEF Budget, TypeOK

-----------------------------------------------------------------------------
\* The list after create_channel: one entry more, at the end.
LEMMA InstallAppends ==
    ASSUME IInv, NEW r \in Readers, Install(r)
    PROVE  /\ channelList' \in Seq(Entries)
           /\ Len(channelList') = Len(channelList) + 1
           /\ \A i \in DOMAIN channelList : channelList'[i] = channelList[i]
           /\ channelList'[Len(channelList) + 1] = chan'[r]
           /\ chan'[r] \in Entries
           /\ chan'[r].name = event[r].name
           /\ chan'[r].srv = r
<1> DEFINE new == [id |-> created + 1, name |-> event[r].name, srv |-> r]
<1> HIDE DEF new
<1>1. created \in 0..(MaxEvents - 1)
  BY RoomToCreate, ValuesAssumption DEF IInv, Install, Searching, TypeOK
<1>2. event[r].name \in Names
  BY DEF IInv, OnlyNamed, Install
<1>3. new \in Entries /\ new.name = event[r].name /\ new.srv = r
  BY <1>1, <1>2, ValuesAssumption DEF new, Entries
<1>4. /\ at[r] = Len(channelList) + 1
      /\ channelList \in Seq(Entries)
      /\ chan \in [Readers -> Entries \cup {None}]
  BY DEF IInv, InRange, Install, TypeOK
<1>5. /\ channelList' = [i \in 1..at[r] |-> IF i = at[r] THEN new ELSE channelList[i]]
      /\ chan' = [chan EXCEPT ![r] = new]
  BY DEF Install, new
<1>6. chan'[r] = new
  BY <1>4, <1>5
<1>7. /\ channelList' \in Seq(Entries)
      /\ Len(channelList') = Len(channelList) + 1
      /\ \A i \in DOMAIN channelList : channelList'[i] = channelList[i]
      /\ channelList'[Len(channelList) + 1] = new
  BY <1>3, <1>4, <1>5
<1> QED
  BY <1>3, <1>6, <1>7

\* What every reader's step keeps of the types.
LEMMA TypeStep ==
    ASSUME IInv, NEW r \in Readers, GetEvent(r) \/ Step(r)
    PROVE  TypeOK'
<1> USE ValuesAssumption DEF IInv, TypeOK, Goto, list, Steps
<1>1. CASE GetEvent(r)
  <2>1. event' \in [Readers -> Events \cup {None}] /\ event'[r] \in Events
    BY <1>1 DEF GetEvent, Events
  <2> QED
    BY <1>1, <2>1 DEF GetEvent
<1>2. CASE TestWithin(r)
  <2>1. at[r] \in DOMAIN channelList
    BY <1>2 DEF TestWithin, Within
  <2> QED
    BY <1>2, <2>1 DEF TestWithin
<1>3. CASE CompareOther(r)
  <2>1. at[r] < MaxEvents + 1
    BY <1>3, RoomToCreate DEF CompareOther, Searching
  <2> QED
    BY <1>3, <2>1 DEF CompareOther
<1>4. CASE CompareFound(r)
  BY <1>4 DEF CompareFound
<1>5. CASE ReadEntry(r)
  <2>1. channelList[at[r]] \in Entries
    BY <1>5 DEF ReadEntry
  <2> QED
    BY <1>5, <2>1 DEF ReadEntry
<1>6. CASE NotFound(r)
  <2>1. pc'[r] \in {"create", "use"} /\ (pc'[r] = "use" => event[r].kind = "quit")
    BY <1>6 DEF NotFound, Creating, Events
  <2> QED
    BY <1>6, <2>1 DEF NotFound
<1>7. CASE Realloc(r)
  <2>1. channelCount + 1 \in 1..(MaxEvents + 1)
    BY <1>7, RoomToCreate DEF Realloc, Lock, Searching
  <2> QED
    BY <1>7, <2>1 DEF Realloc, Lock
<1>8. CASE Install(r)
  <2>1. \A q \in Readers : q # r => pc[q] # "install"
    BY <1>8 DEF Install
  <2>2. /\ channelList' \in Seq(Entries)
        /\ Len(channelList') = Len(channelList) + 1
        /\ chan'[r] \in Entries
    BY <1>8, InstallAppends
  <2>3. channelCount' = Len(channelList') /\ created' = channelCount'
    BY <1>8, <2>2 DEF Install
  <2>4. chan' \in [Readers -> Entries \cup {None}] /\ chan'[r] # None
        /\ \A q \in Readers : q # r => chan'[q] = chan[q]
    BY <1>8, <2>2 DEF Install
  <2>5. DOMAIN channelList \subseteq DOMAIN channelList'
    BY <2>2
  <2> QED
    BY <1>8, <2>1, <2>2, <2>3, <2>4, <2>5 DEF Install, Unlock
<1>9. CASE GetChannelUsers(r)
  <2>1. chan[r] \in Entries
    BY <1>9 DEF GetChannelUsers
  <2>2. chan[r].id \in 1..MaxEvents /\ event[r].nick \in Nicks
    BY <1>9, <2>1 DEF GetChannelUsers, Entries, Events
  <2>3. users' \in [1..MaxEvents -> Nicks \cup {Garbled, None}]
    BY <1>9, <2>2 DEF GetChannelUsers
  <2> QED
    BY <1>9, <2>3 DEF GetChannelUsers, Done
<1>10. CASE RemoveUserForever(r)
  BY <1>10 DEF RemoveUserForever
<1>11. CASE RemoveUsers(r)
  <2>1. chan[r].id \in 1..MaxEvents
    BY <1>11 DEF RemoveUsers, Entries
  <2> QED
    BY <1>11, <2>1 DEF RemoveUsers, Done
<1>12. CASE RemoveUserOfNone(r)
  <2>1. CASE Done(r)
    BY <1>12, <2>1 DEF RemoveUserOfNone, Done
  <2>2. CASE /\ Goto(r, "fault") \/ Goto(r, "forever")
             /\ UNCHANGED <<event, at, chan>>
    <3>1. UNCHANGED <<list, users, event, at, chan, stale, events>>
      BY <1>12, <2>2 DEF RemoveUserOfNone
    <3>2. CASE Goto(r, "fault")
      BY <3>1, <3>2, <1>12 DEF RemoveUserOfNone
    <3>3. CASE Goto(r, "forever")
      BY <3>1, <3>3, <1>12 DEF RemoveUserOfNone
    <3> QED
      BY <2>2, <3>2, <3>3
  <2> QED
    BY <1>12, <2>1, <2>2 DEF RemoveUserOfNone
<1>13. CASE OtherEvent(r)
  BY <1>13 DEF OtherEvent, Done
<1> QED
  BY <1>1, <1>2, <1>3, <1>4, <1>5, <1>6, <1>7, <1>8, <1>9, <1>10, <1>11,
     <1>12, <1>13 DEF Step, Use

LEMMA BudgetPreserved ==
    ASSUME IInv, NEW r \in Readers, GetEvent(r) \/ Step(r)
    PROVE  Budget'
<1> USE DEF Goto, list, Searching
<1>1. TypeOK /\ TypeOK' /\ Budget
  BY TypeStep DEF IInv
<1>2. pc' = [pc EXCEPT ![r] = pc'[r]]
  BY <1>1 DEF TypeOK, GetEvent, Step, TestWithin, CompareOther, CompareFound,
     ReadEntry, NotFound, Realloc, Install, Use, GetChannelUsers,
     RemoveUserForever, RemoveUsers, RemoveUserOfNone, OtherEvent, Done
<1>3. CASE GetEvent(r)
  BY <1>1, <1>2, <1>3, BudgetStep DEF GetEvent
<1>4. CASE Install(r)
  <2>1. pc'[r] = "use"
    BY <1>1, <1>4 DEF Install, TypeOK
  <2> QED
    BY <1>1, <1>2, <1>4, <2>1, BudgetStep DEF Install
<1>5. CASE Step(r) /\ ~Install(r)
  <2>1. events' = events /\ created' = created
    BY <1>5 DEF Step, TestWithin, CompareOther, CompareFound,
       ReadEntry, NotFound, Realloc, Use, GetChannelUsers,
       RemoveUserForever, RemoveUsers, RemoveUserOfNone, OtherEvent
  <2>2. pc'[r] \in Searching => pc[r] \in Searching
    BY <1>1, <1>5 DEF TypeOK, Step, TestWithin, CompareOther, CompareFound,
       ReadEntry, NotFound, Realloc, Lock, Use, GetChannelUsers,
       RemoveUserForever, RemoveUsers, RemoveUserOfNone, OtherEvent, Done
  <2> QED
    BY <1>1, <1>2, <2>1, <2>2, BudgetStep
<1> QED
  BY <1>3, <1>4, <1>5

LEMMA SearchStep ==
    ASSUME IInv, NEW r \in Readers, GetEvent(r) \/ Step(r)
    PROVE  InRange' /\ Searched' /\ OnlyNamed' /\ Chosen'
<1> USE ValuesAssumption
    DEF IInv, TypeOK, InRange, Searched, OnlyNamed, Chosen, Matches, Goto, list
<1>1. CASE GetEvent(r)
  <2>1. PICK kind \in Kinds, nick \in Nicks, name \in Names :
           event' = [event EXCEPT ![r] =
                       [kind |-> kind, nick |-> nick,
                        name |-> IF kind = "quit" THEN NotThere ELSE name]]
    BY <1>1 DEF GetEvent
  <2>2. event'[r].kind \in Creating => event'[r].name \in Names
    BY <2>1 DEF Creating
  <2>3. \A q \in Readers : q # r => event'[q] = event[q]
    BY <2>1
  <2>4. /\ pc[r] = "idle" /\ pc'[r] = "test"
        /\ \A q \in Readers : q # r => pc'[q] = pc[q]
        /\ UNCHANGED <<channelList, at, chan>>
    BY <1>1 DEF GetEvent
  <2>5. InRange'
    BY <2>4
  <2>6. OnlyNamed'
    BY <2>2, <2>3, <2>4
  <2>7. Chosen'
    BY <2>3, <2>4
  <2>8. Searched'
    BY <1>1, <2>3, <2>4, SMTT(40)
  <2> QED
    BY <2>5, <2>6, <2>7, <2>8
<1>2. CASE TestWithin(r)
  BY <1>2 DEF TestWithin
<1>3. CASE CompareOther(r)
  BY <1>3 DEF CompareOther
<1>4. CASE CompareFound(r)
  BY <1>4 DEF CompareFound
<1>5. CASE ReadEntry(r)
  BY <1>5 DEF ReadEntry
<1>6. CASE NotFound(r)
  BY <1>6 DEF NotFound, Within
<1>7. CASE Realloc(r)
  BY <1>7 DEF Realloc, Lock
<1>8. CASE Install(r)
  <2>1. /\ Len(channelList') = Len(channelList) + 1
        /\ \A i \in DOMAIN channelList : channelList'[i] = channelList[i]
        /\ channelList'[Len(channelList) + 1] = chan'[r]
        /\ chan'[r].name = event[r].name
        /\ chan'[r].srv = r
    BY <1>8, InstallAppends
  <2>2. /\ \A q \in Readers : q # r => pc'[q] = pc[q] /\ chan'[q] = chan[q]
        /\ UNCHANGED <<event, at>>
        /\ pc'[r] = "use"
        /\ pc[r] = "install"
    BY <1>8 DEF Install
  <2>3. \A q \in Readers : q # r => pc[q] # "install"
    BY <1>8 DEF Install
  <2>4. DOMAIN channelList' = 1..(Len(channelList) + 1)
        /\ DOMAIN channelList = 1..Len(channelList)
    BY <2>1, <1>8, InstallAppends
  <2>5. InRange'
    BY <2>1, <2>2, <2>3
  <2>6. OnlyNamed'
    BY <2>2
  <2>7. Chosen'
    BY <2>1, <2>2, <2>4
  <2>8. Searched'
    BY <2>1, <2>2, <2>4
  <2> QED
    BY <2>5, <2>6, <2>7, <2>8
<1>9. CASE GetChannelUsers(r)
  BY <1>9 DEF GetChannelUsers, Done
<1>10. CASE RemoveUserForever(r)
  BY <1>10 DEF RemoveUserForever
<1>11. CASE RemoveUsers(r)
  BY <1>11 DEF RemoveUsers, Done
<1>12. CASE RemoveUserOfNone(r)
  <2>1. CASE Done(r)
    BY <1>12, <2>1 DEF RemoveUserOfNone, Done
  <2>2. CASE Goto(r, "fault") /\ UNCHANGED <<event, at, chan>>
    BY <1>12, <2>2 DEF RemoveUserOfNone
  <2>3. CASE Goto(r, "forever") /\ UNCHANGED <<event, at, chan>>
    BY <1>12, <2>3 DEF RemoveUserOfNone
  <2> QED
    BY <1>12, <2>1, <2>2, <2>3 DEF RemoveUserOfNone
<1>13. CASE OtherEvent(r)
  BY <1>13 DEF OtherEvent, Done
<1> QED
  BY <1>1, <1>2, <1>3, <1>4, <1>5, <1>6, <1>7, <1>8, <1>9, <1>10, <1>11,
     <1>12, <1>13 DEF Step, Use

\* create_channel is the only step that changes the list.
LEMMA ListUnchanged ==
    ASSUME NEW r \in Readers, GetEvent(r) \/ Step(r), ~Install(r)
    PROVE  channelList' = channelList
  BY DEF list, GetEvent, Step, TestWithin, CompareOther, CompareFound,
     ReadEntry, NotFound, Realloc, Use, GetChannelUsers, RemoveUserForever,
     RemoveUsers, RemoveUserOfNone, OtherEvent

LEMMA NoDuplicatesStep ==
    ASSUME IInv, NEW r \in Readers, GetEvent(r) \/ Step(r)
    PROVE  NoDuplicates'
<1>1. CASE Install(r)
  <2> DEFINE n == Len(channelList)
  <2>1. /\ Len(channelList') = n + 1
        /\ \A i \in DOMAIN channelList : channelList'[i] = channelList[i]
        /\ channelList'[n + 1].name = event[r].name
        /\ channelList'[n + 1].srv = r
    BY <1>1, InstallAppends
  <2>2. DOMAIN channelList' = 1..(n + 1) /\ DOMAIN channelList = 1..n /\ n \in Nat
    BY <1>1, <2>1, InstallAppends DEF IInv, TypeOK
  <2>3. \A i \in 1..n : ~(channelList[i].name = event[r].name /\ channelList[i].srv = r)
    BY <1>1, <2>2 DEF IInv, Searched, Matches, Install
  <2> QED
    BY <2>1, <2>2, <2>3 DEF IInv, NoDuplicates
<1>2. CASE ~Install(r)
  BY <1>2, ListUnchanged DEF IInv, NoDuplicates
<1> QED
  BY <1>1, <1>2

-----------------------------------------------------------------------------
\* Every step preserves IInv.
LEMMA NextIInv == IInv /\ [Next]_vars => IInv'
<1> SUFFICES ASSUME IInv, [Next]_vars PROVE IInv'
  OBVIOUS
<1>1. ASSUME NEW r \in Readers, GetEvent(r) \/ Step(r)
      PROVE  IInv'
  BY <1>1, TypeStep, BudgetPreserved, SearchStep, NoDuplicatesStep DEF IInv
<1>2. CASE UNCHANGED vars
  <2> USE <1>2 DEF vars, list
  <2>1. TypeOK'
    BY DEF IInv, TypeOK
  <2>2. Budget'
    BY DEF IInv, Budget, Active
  <2>3. InRange' /\ Searched' /\ OnlyNamed' /\ Chosen' /\ NoDuplicates'
    BY DEF IInv, InRange, Searched, OnlyNamed, Chosen, NoDuplicates, Matches
  <2> QED
    BY <2>1, <2>2, <2>3 DEF IInv
<1> QED
  BY <1>1, <1>2 DEF Next

\* The invariant holds in every reachable state.
THEOREM Invariance == Spec => []IInv
  BY InitIInv, NextIInv, PTL DEF Spec

-----------------------------------------------------------------------------
\* With any number of readers, the count, the list and the mutex agree, and
\* the channels never outnumber the events that asked for them (channel.c).
THEOREM ChannelsTyped == Spec => []TypeOK
<1>1. IInv => TypeOK
  BY DEF IInv
<1> QED
  BY <1>1, Invariance, PTL

\* get_channel and create_channel are two critical sections, and the list
\* grows in between; still no channel of a server is created twice.
THEOREM ChannelsUnique == Spec => []NoDuplicates
<1>1. IInv => NoDuplicates
  BY DEF IInv
<1> QED
  BY <1>1, Invariance, PTL

\* No two readers ever work on the same channel, so that its fields need no
\* lock.
THEOREM ChannelsOwned == Spec => []OwnChannel
<1>1. ASSUME IInv, NEW r \in Readers, NEW q \in Readers,
             chan[r] # None, q # r
      PROVE  chan[q] # chan[r]
  BY <1>1 DEF IInv, Chosen, Matches
<1>2. IInv => OwnChannel
  BY <1>1 DEF IInv, Chosen, Matches, OwnChannel
<1> QED
  BY <1>2, Invariance, PTL

\* Whatever readers overlap, a step never takes a channel out of channel_list
\* or replaces one.
THEOREM ChannelsOnlyAppend == Spec => OnlyAppends
<1> DEFINE Grows ==
             /\ Len(channelList') >= Len(channelList)
             /\ \A i \in DOMAIN channelList : channelList'[i] = channelList[i]
<1>1. ASSUME IInv, [Next]_vars
      PROVE  [Grows]_vars
  <2>1. Len(channelList) \in Nat
    BY <1>1 DEF IInv, TypeOK
  <2>2. ASSUME NEW r \in Readers, GetEvent(r) \/ Step(r)
        PROVE  Grows
    <3>1. CASE Install(r)
      BY <1>1, <2>1, <3>1, InstallAppends
    <3>2. CASE ~Install(r)
      BY <2>1, <2>2, <3>2, ListUnchanged
    <3> QED
      BY <3>1, <3>2
  <2>3. CASE UNCHANGED vars
    BY <2>3
  <2> QED
    BY <1>1, <2>2, <2>3 DEF Next
<1> QED
  BY <1>1, Invariance, PTL DEF Spec, OnlyAppends
=============================================================================
