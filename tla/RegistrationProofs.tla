------------------------- MODULE RegistrationProofs -------------------------
(***************************************************************************)
(* Proofs about Registration, for every set of nicks, channels and PINGs,  *)
(* every configuration and every number of losses and requests.            *)
(***************************************************************************)
EXTENDS Registration, SequenceTheorems, TLAPS

\* The nick a user asks for has no underscore appended.
CommandsPlain ==
    \A i \in DOMAIN toBot : toBot[i].cmd = "!nick" => toBot[i].arg.tail = 0

\* The last NICK on its way to the server carries srv->nick.
LastSent ==
    \A i \in DOMAIN toServer :
        /\ toServer[i].cmd = "NICK"
        /\ \A j \in DOMAIN toServer : j > i => toServer[j].cmd # "NICK"
        => toServer[i].arg = nick

\* The server sends no channel event before RPL_WELCOME.
WelcomeFirst ==
    ~motdSent =>
        /\ serverNick # None => Coming("RPL_WELCOME")
        /\ \A i \in DOMAIN toBot :
              toBot[i].cmd \in {"INVITE", "JOIN"} =>
                  \E j \in DOMAIN toBot : j < i /\ toBot[j].cmd = "RPL_WELCOME"

IInv ==
    /\ TypeOK
    /\ CommandsPlain
    /\ LastSent
    /\ NickSettles
    /\ WelcomeFirst
    /\ NothingMissed

-----------------------------------------------------------------------------
(* Queues of lines. *)

LEMMA TailShifts ==
    ASSUME NEW S, NEW s \in Seq(S), s # <<>>
    PROVE  /\ Head(s) = s[1] /\ Head(s) \in S
           /\ Tail(s) \in Seq(S)
           /\ 1 \in DOMAIN s
           /\ \A i \in DOMAIN Tail(s) : i + 1 \in DOMAIN s /\ Tail(s)[i] = s[i + 1]
           /\ \A i \in DOMAIN s : i # 1 => i - 1 \in DOMAIN Tail(s)
  OBVIOUS

LEMMA AppendExtends ==
    ASSUME NEW S, NEW s \in Seq(S), NEW e \in S
    PROVE  /\ Append(s, e) \in Seq(S)
           /\ DOMAIN Append(s, e) = DOMAIN s \cup {Len(s) + 1}
           /\ \A i \in DOMAIN s : Append(s, e)[i] = s[i] /\ i < Len(s) + 1
           /\ Append(s, e)[Len(s) + 1] = e
           /\ Len(s) + 1 \notin DOMAIN s
  OBVIOUS

\* What follows from a line of one of the two directions having a command.
LEMMA LineArgs ==
    /\ \A l \in ServerLines : l.cmd = "NICK" => l.arg \in Nicks
    /\ \A l \in ServerLines : l.cmd = "JOIN" => l.arg \in Channels
    /\ \A l \in BotLines : l.cmd \in {"ERR_NICK", "RPL_WELCOME", "!nick"} => l.arg \in Nicks
    /\ \A l \in BotLines : l.cmd \in {"INVITE", "JOIN"} => l.arg \in Channels
    /\ \A l \in BotLines : l.cmd = "PING" => l.arg \in PingSizes
  BY DEF ServerLines, BotLines, Lines

LEMMA LineTypes ==
    /\ \A n \in Nicks : Line("NICK", n) \in ServerLines
    /\ \A c \in Channels : Line("JOIN", c) \in ServerLines
    /\ \A size \in PingSizes : Line("PONG", size) \in ServerLines
    /\ \A n \in Nicks : /\ Line("ERR_NICK", n) \in BotLines
                        /\ Line("RPL_WELCOME", n) \in BotLines
                        /\ Line("!nick", n) \in BotLines
    /\ \A c \in Channels : Line("INVITE", c) \in BotLines /\ Line("JOIN", c) \in BotLines
    /\ \A size \in PingSizes : Line("PING", size) \in BotLines
  BY DEF Line, ServerLines, BotLines, Lines

\* The bot's configured nicks are nicks without an underscore.
LEMMA ConfiguredNicks ==
    /\ FirstNick \in Nicks /\ FirstNick.tail = 0
    /\ AltNick \in Nicks /\ AltNick.tail = 0
  BY RegistrationAssumption DEF Nicks

\* The nick tried after a refusal.
LEMMA OtherNickTypes ==
    ASSUME TypeOK
    PROVE  OtherNick \in Nicks /\ OtherNick.tail <= 1
<1>1. CASE nick # AltNick
  BY <1>1, ConfiguredNicks DEF OtherNick
<1>2. CASE nick = AltNick
  <2>1. nick \in Nicks /\ nick.tail = 0
    BY <1>2, ConfiguredNicks
  <2>2. OtherNick = [nick EXCEPT !.tail = nick.tail + 1]
    BY <1>2 DEF OtherNick
  <2> QED
    BY <2>1, <2>2, RegistrationAssumption DEF Nicks
<1> QED
  BY <1>1, <1>2

LEMMA JoinAllLines ==
    /\ JoinAll \in Seq(ServerLines)
    /\ \A i \in DOMAIN JoinAll : JoinAll[i].cmd = "JOIN"
<1>1. Autojoin \in Seq(Channels)
  BY RegistrationAssumption
<1>2. \A i \in 1..Len(Autojoin) : Line("JOIN", Autojoin[i]) \in ServerLines
  BY <1>1, LineTypes
<1>3. JoinAll \in Seq(ServerLines)
  BY <1>1, <1>2 DEF JoinAll
<1>4. \A i \in DOMAIN JoinAll : JoinAll[i].cmd = "JOIN"
  BY <1>1 DEF JoinAll, Line
<1> QED
  BY <1>3, <1>4

-----------------------------------------------------------------------------
LEMMA InitIInv == Init => IInv
<1> SUFFICES ASSUME Init PROVE IInv
  OBVIOUS
<1> USE DEF Init
<1>1. TypeOK
  <2>1. toServer \in Seq(ServerLines) /\ toBot \in Seq(BotLines)
    OBVIOUS
  <2>2. nick \in Nicks /\ nick.tail <= 1
    BY ConfiguredNicks
  <2>3. asked \in 0..MaxAsked /\ losses \in 0..MaxLosses
    BY RegistrationAssumption
  <2> QED
    BY <2>1, <2>2, <2>3 DEF TypeOK
<1>2. CommandsPlain /\ LastSent /\ WelcomeFirst
  BY DEF CommandsPlain, LastSent, WelcomeFirst, Coming
<1>3. NickSettles /\ NothingMissed
  BY DEF NickSettles, NothingMissed
<1> QED
  BY <1>1, <1>2, <1>3 DEF IInv

-----------------------------------------------------------------------------
(* What the bot's steps preserve. *)

\* A line received is the first one of the queue, and leaves it.
LEMMA ReceivedLine ==
    ASSUME TypeOK, NEW cmd, Received(cmd)
    PROVE  /\ toBot[1] \in BotLines /\ toBot[1] = Head(toBot) /\ toBot[1].cmd = cmd
           /\ toBot' \in Seq(BotLines)
           /\ 1 \in DOMAIN toBot
           /\ \A i \in DOMAIN toBot' : i + 1 \in DOMAIN toBot /\ toBot'[i] = toBot[i + 1]
           /\ \A i \in DOMAIN toBot : i # 1 => i - 1 \in DOMAIN toBot'
  BY TailShifts DEF Received, TypeOK

LEMMA SendNickTypes ==
    ASSUME TypeOK, NEW cmd, Received(cmd), NEW n \in Nicks, n.tail <= 1, SendNick(n)
    PROVE  TypeOK'
<1>1. toServer' \in Seq(ServerLines)
  BY LineTypes, AppendExtends DEF TypeOK, SendNick
<1>2. toBot' \in Seq(BotLines)
  BY ReceivedLine
<1> QED
  BY <1>1, <1>2 DEF TypeOK, Received, SendNick, Stored, bounds

LEMMA BotTypes ==
    ASSUME IInv, BotStep
    PROVE  TypeOK'
<1>0. TypeOK
  BY DEF IInv
<1>1. CASE HandleNick
  BY <1>0, <1>1, OtherNickTypes, SendNickTypes DEF HandleNick
<1>2. CASE NickCommand
  <2>1. Head(toBot).arg \in Nicks /\ Head(toBot).arg.tail = 0
    BY <1>0, <1>2, ReceivedLine, LineArgs DEF IInv, NickCommand, CommandsPlain
  <2> QED
    BY <1>0, <1>2, <2>1, SendNickTypes DEF NickCommand
<1>3. CASE GotIn
  <2>1. toServer' \in Seq(ServerLines)
    BY <1>0, <1>3, JoinAllLines, ConcatProperties DEF GotIn, TypeOK
  <2>2. toBot' \in Seq(BotLines)
    BY <1>0, <1>3, ReceivedLine DEF GotIn
  <2> QED
    BY <1>0, <1>3, <2>1, <2>2 DEF TypeOK, GotIn, Received, Welcomed, bounds
<1>4. CASE HandlePing
  <2>1. Head(toBot).arg \in PingSizes
    BY <1>0, <1>4, ReceivedLine, LineArgs DEF HandlePing
  <2>2. Append(toServer, Line("PONG", Head(toBot).arg)) \in Seq(ServerLines)
    BY <1>0, <2>1, LineTypes, AppendExtends DEF TypeOK
  <2>3. toServer' \in Seq(ServerLines) /\ unanswered' \in SUBSET PingSizes
    BY <1>0, <1>4, <2>2 DEF HandlePing, TypeOK
  <2>4. toBot' \in Seq(BotLines)
    BY <1>0, <1>4, ReceivedLine DEF HandlePing
  <2> QED
    BY <1>0, <1>4, <2>3, <2>4 DEF TypeOK, HandlePing, Received, bot, bounds
<1>5. CASE ChanEvent
  <2>1. PICK cmd \in {"INVITE", "JOIN"} : Received(cmd)
    BY <1>5 DEF ChanEvent
  <2>2. Head(toBot).arg \in Channels
    BY <1>0, <2>1, ReceivedLine, LineArgs
  <2>3. Append(toServer, Line("JOIN", Head(toBot).arg)) \in Seq(ServerLines)
    BY <1>0, <2>2, LineTypes, AppendExtends DEF TypeOK
  <2>4. toServer' \in Seq(ServerLines)
    BY <1>0, <1>5, <2>3 DEF ChanEvent, TypeOK
  <2>5. toBot' \in Seq(BotLines)
    BY <1>0, <2>1, ReceivedLine
  <2> QED
    BY <1>0, <1>5, <2>1, <2>4, <2>5 DEF TypeOK, ChanEvent, Received, bot, bounds
<1> QED
  BY <1>1, <1>2, <1>3, <1>4, <1>5 DEF BotStep

\* A line that is neither a NICK nor stands before the last one leaves
\* LastSent alone.
LEMMA AppendNoNick ==
    ASSUME TypeOK, LastSent, NEW more \in Seq(ServerLines),
           \A i \in DOMAIN more : more[i].cmd # "NICK",
           toServer' = toServer \o more, nick' = nick
    PROVE  LastSent' /\ (Sending("NICK")' <=> Sending("NICK"))
<1>1. toServer \in Seq(ServerLines)
  BY DEF TypeOK
<1>2. /\ DOMAIN toServer' = 1..(Len(toServer) + Len(more))
      /\ DOMAIN toServer = 1..Len(toServer)
      /\ DOMAIN more = 1..Len(more)
      /\ Len(toServer) \in Nat /\ Len(more) \in Nat
  BY <1>1
<1>3. \A i \in 1..Len(toServer) : i \in DOMAIN toServer' /\ toServer'[i] = toServer[i]
  BY <1>1, <1>2, ConcatProperties
<1>4. \A i \in DOMAIN toServer' : i > Len(toServer) => toServer'[i].cmd # "NICK"
  <2> SUFFICES ASSUME NEW i \in DOMAIN toServer', i > Len(toServer)
               PROVE  toServer'[i].cmd # "NICK"
    OBVIOUS
  <2>1. i - Len(toServer) \in DOMAIN more /\ toServer'[i] = more[i - Len(toServer)]
    BY <1>1, <1>2, ConcatProperties
  <2> QED
    BY <2>1
<1>5. LastSent'
  BY <1>2, <1>3, <1>4 DEF LastSent
<1>6. Sending("NICK")' <=> Sending("NICK")
  BY <1>2, <1>3, <1>4 DEF Sending
<1> QED
  BY <1>5, <1>6

LEMMA AppendOne ==
    ASSUME TypeOK, NEW e \in ServerLines, toServer' = Append(toServer, e)
    PROVE  toServer' = toServer \o <<e>> /\ <<e>> \in Seq(ServerLines)
           /\ \A i \in DOMAIN <<e>> : <<e>>[i] = e
  BY AppendIsConcat DEF TypeOK

\* What nick() sends is the last NICK on its way.
LEMMA SendNickLast ==
    ASSUME TypeOK, NEW n \in Nicks, SendNick(n)
    PROVE  LastSent' /\ Sending("NICK")'
<1>1. /\ toServer \in Seq(ServerLines) /\ Line("NICK", n) \in ServerLines
      /\ toServer' = Append(toServer, Line("NICK", n))
      /\ nick' = n
  BY LineTypes DEF TypeOK, SendNick, Stored
<1>2. /\ DOMAIN toServer' = DOMAIN toServer \cup {Len(toServer) + 1}
      /\ \A i \in DOMAIN toServer : i < Len(toServer) + 1
      /\ toServer'[Len(toServer) + 1] = Line("NICK", n)
  BY <1>1, AppendExtends
<1>3. LastSent'
  BY <1>1, <1>2 DEF LastSent, Line
<1>4. Sending("NICK")'
  BY <1>2 DEF Sending, Line
<1> QED
  BY <1>3, <1>4

\* A step that is no answer to a NICK and takes no refusal.
LEMMA StaysSettled ==
    ASSUME NickSettles, phase' = phase, nick' = nick, serverNick' = serverNick,
           Sending("NICK") => Sending("NICK")',
           Coming("ERR_NICK") => Coming("ERR_NICK")'
    PROVE  NickSettles'
  BY DEF NickSettles

LEMMA ReceivedOther ==
    ASSUME TypeOK, NEW cmd, Received(cmd), NEW other, other # cmd, Coming(other)
    PROVE  Coming(other)'
<1>1. PICK i \in DOMAIN toBot : toBot[i].cmd = other
  BY DEF Coming
<1>2. i # 1
  BY <1>1, ReceivedLine
<1>3. i - 1 \in DOMAIN toBot' /\ toBot'[i - 1] = toBot[i]
  <2>1. i \in Int
    BY DEF TypeOK
  <2> QED
    BY <1>2, <2>1, ReceivedLine
<1> QED
  BY <1>1, <1>3 DEF Coming

\* The bot's answers keep LastSent and NickSettles.
LEMMA BotNick ==
    ASSUME IInv, BotStep
    PROVE  LastSent' /\ NickSettles'
<1>0. TypeOK /\ LastSent /\ NickSettles
  BY DEF IInv
<1>1. CASE HandleNick \/ NickCommand
  <2>1. PICK n \in Nicks : SendNick(n)
    <3>1. CASE HandleNick
      BY <1>0, <3>1, OtherNickTypes DEF HandleNick
    <3>2. CASE NickCommand
      <4>1. Head(toBot).arg \in Nicks
        BY <1>0, <3>2, ReceivedLine, LineArgs DEF NickCommand
      <4> QED
        BY <3>2, <4>1 DEF NickCommand
    <3> QED
      BY <1>1, <3>1, <3>2
  <2>2. LastSent' /\ Sending("NICK")'
    BY <1>0, <2>1, SendNickLast
  <2> QED
    BY <2>2 DEF NickSettles
<1>2. CASE GotIn
  <2>1. toServer' = toServer \o JoinAll /\ nick' = nick
    BY <1>2 DEF GotIn
  <2>2. LastSent' /\ (Sending("NICK")' <=> Sending("NICK"))
    BY <1>0, <2>1, JoinAllLines, AppendNoNick
  <2>3. Coming("ERR_NICK") => Coming("ERR_NICK")'
    BY <1>0, <1>2, ReceivedOther DEF GotIn
  <2>4. phase' = phase /\ serverNick' = serverNick
    BY <1>2 DEF GotIn, Received
  <2> QED
    BY <1>0, <2>1, <2>2, <2>3, <2>4, StaysSettled
<1>3. CASE HandlePing \/ ChanEvent
  <2>1. PICK cmd \in {"PING", "INVITE", "JOIN"} : Received(cmd)
    BY <1>3 DEF HandlePing, ChanEvent
  <2>2. phase' = phase /\ serverNick' = serverNick /\ nick' = nick
    BY <1>3, <2>1 DEF HandlePing, ChanEvent, bot, Received
  <2>3. \/ toServer' = toServer
        \/ \E e \in ServerLines : e.cmd # "NICK" /\ toServer' = Append(toServer, e)
    <3>1. CASE HandlePing
      <4>1. Line("PONG", Head(toBot).arg) \in ServerLines
        BY <1>0, <3>1, ReceivedLine, LineArgs, LineTypes DEF HandlePing
      <4> QED
        BY <3>1, <4>1 DEF HandlePing, Line
    <3>2. CASE ChanEvent
      <4>1. PICK c \in {"INVITE", "JOIN"} : Received(c)
        BY <3>2 DEF ChanEvent
      <4>2. Line("JOIN", Head(toBot).arg) \in ServerLines
        BY <1>0, <4>1, ReceivedLine, LineArgs, LineTypes
      <4> QED
        BY <3>2, <4>2 DEF ChanEvent, Line
    <3> QED
      BY <1>3, <3>1, <3>2
  <2>4. LastSent' /\ (Sending("NICK")' <=> Sending("NICK"))
    <3>1. CASE toServer' = toServer
      BY <1>0, <2>2, <3>1 DEF LastSent, Sending
    <3>2. CASE \E e \in ServerLines : e.cmd # "NICK" /\ toServer' = Append(toServer, e)
      <4>1. PICK e \in ServerLines : e.cmd # "NICK" /\ toServer' = Append(toServer, e)
        BY <3>2
      <4> QED
        BY <1>0, <2>2, <4>1, AppendOne, AppendNoNick
    <3> QED
      BY <2>3, <3>1, <3>2
  <2>5. Coming("ERR_NICK") => Coming("ERR_NICK")'
    BY <1>0, <2>1, ReceivedOther
  <2> QED
    BY <1>0, <2>2, <2>4, <2>5, StaysSettled
<1> QED
  BY <1>1, <1>2, <1>3 DEF BotStep

\* Receiving a line shifts the queue: commands stay plain, and a channel
\* event keeps an RPL_WELCOME before it until that is received.
LEMMA BotLinesKept ==
    ASSUME IInv, BotStep
    PROVE  CommandsPlain' /\ WelcomeFirst' /\ NothingMissed'
<1>0. TypeOK /\ CommandsPlain /\ WelcomeFirst /\ NothingMissed
  BY DEF IInv
<1>1. PICK cmd \in {"ERR_NICK", "!nick", "RPL_WELCOME", "PING", "INVITE", "JOIN"} :
         Received(cmd)
  BY DEF BotStep, HandleNick, NickCommand, GotIn, HandlePing, ChanEvent
<1>2. \A i \in DOMAIN toBot' : i + 1 \in DOMAIN toBot /\ toBot'[i] = toBot[i + 1]
  BY <1>0, <1>1, ReceivedLine
<1>3. CommandsPlain'
  BY <1>0, <1>2 DEF CommandsPlain
<1>4. CASE GotIn
  BY <1>0, <1>3, <1>4 DEF GotIn, Welcomed, WelcomeFirst, NothingMissed
<1>5. CASE ~GotIn
  <2>1. cmd # "RPL_WELCOME" /\ motdSent' = motdSent /\ serverNick' = serverNick
    BY <1>1, <1>5 DEF BotStep, HandleNick, NickCommand, SendNick, HandlePing,
       ChanEvent, Received, bot
  <2>2. WelcomeFirst'
    <3> SUFFICES ASSUME ~motdSent
                 PROVE  /\ serverNick # None => Coming("RPL_WELCOME")'
                        /\ \A i \in DOMAIN toBot' :
                              toBot'[i].cmd \in {"INVITE", "JOIN"} =>
                                \E j \in DOMAIN toBot' :
                                    j < i /\ toBot'[j].cmd = "RPL_WELCOME"
      BY <2>1 DEF WelcomeFirst
    <3>1. serverNick # None => Coming("RPL_WELCOME")'
      BY <1>0, <1>1, <2>1, ReceivedOther DEF WelcomeFirst
    <3>2. ASSUME NEW i \in DOMAIN toBot', toBot'[i].cmd \in {"INVITE", "JOIN"}
          PROVE  \E j \in DOMAIN toBot' : j < i /\ toBot'[j].cmd = "RPL_WELCOME"
      <4>1. PICK j \in DOMAIN toBot : j < i + 1 /\ toBot[j].cmd = "RPL_WELCOME"
        BY <1>0, <1>2, <3>2 DEF WelcomeFirst
      <4>2. j # 1 /\ j \in Int /\ i \in Int
        BY <1>0, <1>1, <2>1, <4>1, ReceivedLine DEF TypeOK
      <4>3. j - 1 \in DOMAIN toBot' /\ toBot'[j - 1] = toBot[j]
        BY <1>0, <1>1, <1>2, <4>2, ReceivedLine
      <4> QED
        BY <4>1, <4>2, <4>3
    <3> QED
      BY <3>1, <3>2
  <2>3. NothingMissed'
    <3>1. CASE ChanEvent
      <4>1. toBot[1].cmd \in {"INVITE", "JOIN"} /\ 1 \in DOMAIN toBot
        BY <1>0, <3>1, ReceivedLine DEF ChanEvent
      <4>2. \A j \in DOMAIN toBot : ~(j < 1)
        BY <1>0 DEF TypeOK
      <4>3. motdSent
        BY <1>0, <4>1, <4>2 DEF WelcomeFirst
      <4> QED
        BY <1>0, <3>1, <4>3 DEF ChanEvent, NothingMissed
    <3>2. CASE ~ChanEvent
      BY <1>0, <1>5, <3>2 DEF NothingMissed, BotStep, HandleNick, NickCommand,
         SendNick, HandlePing
    <3> QED
      BY <3>1, <3>2
  <2> QED
    BY <1>3, <2>2, <2>3
<1> QED
  BY <1>4, <1>5, <1>3

-----------------------------------------------------------------------------
(* What the steps of the server and its users preserve. *)

\* One line more for the bot.
LEMMA BotGetsOne ==
    ASSUME TypeOK, NEW e \in BotLines, toBot' = Append(toBot, e)
    PROVE  /\ toBot' \in Seq(BotLines)
           /\ \A cmd : Coming(cmd) => Coming(cmd)'
           /\ Coming(e.cmd)'
           /\ (e.cmd = "!nick" => e.arg.tail = 0) /\ CommandsPlain => CommandsPlain'
<1>1. /\ toBot' \in Seq(BotLines)
      /\ DOMAIN toBot' = DOMAIN toBot \cup {Len(toBot) + 1}
      /\ \A i \in DOMAIN toBot : toBot'[i] = toBot[i]
      /\ toBot'[Len(toBot) + 1] = e
  BY AppendExtends DEF TypeOK
<1>2. \A cmd : Coming(cmd) => Coming(cmd)'
  BY <1>1 DEF Coming
<1>3. Coming(e.cmd)'
  BY <1>1 DEF Coming
<1>4. (e.cmd = "!nick" => e.arg.tail = 0) /\ CommandsPlain => CommandsPlain'
  BY <1>1 DEF CommandsPlain
<1> QED
  BY <1>1, <1>2, <1>3, <1>4

\* It may be a channel event if the server has registered the bot.
LEMMA WelcomeKept ==
    ASSUME TypeOK, WelcomeFirst, NEW e \in BotLines, toBot' = Append(toBot, e),
           motdSent' = motdSent,
           e.cmd \in {"INVITE", "JOIN"} => serverNick # None,
           serverNick' # None => serverNick # None \/ e.cmd = "RPL_WELCOME"
    PROVE  WelcomeFirst'
<1>1. /\ DOMAIN toBot' = DOMAIN toBot \cup {Len(toBot) + 1}
      /\ \A i \in DOMAIN toBot : toBot'[i] = toBot[i] /\ i < Len(toBot) + 1
      /\ toBot'[Len(toBot) + 1] = e
  BY AppendExtends DEF TypeOK
<1>2. /\ \A cmd : Coming(cmd) => Coming(cmd)'
      /\ Coming(e.cmd)'
  BY BotGetsOne
<1> SUFFICES ASSUME ~motdSent
             PROVE  /\ serverNick' # None => Coming("RPL_WELCOME")'
                    /\ \A i \in DOMAIN toBot' :
                          toBot'[i].cmd \in {"INVITE", "JOIN"} =>
                            \E j \in DOMAIN toBot' :
                                j < i /\ toBot'[j].cmd = "RPL_WELCOME"
  BY DEF WelcomeFirst
<1>3. serverNick' # None => Coming("RPL_WELCOME")'
  BY <1>2 DEF WelcomeFirst
<1>4. ASSUME NEW i \in DOMAIN toBot', toBot'[i].cmd \in {"INVITE", "JOIN"}
      PROVE  \E j \in DOMAIN toBot' : j < i /\ toBot'[j].cmd = "RPL_WELCOME"
  <2>1. CASE i \in DOMAIN toBot
    <3>1. PICK j \in DOMAIN toBot : j < i /\ toBot[j].cmd = "RPL_WELCOME"
      BY <1>1, <1>4, <2>1 DEF WelcomeFirst
    <3> QED
      BY <1>1, <3>1
  <2>2. CASE i = Len(toBot) + 1
    <3>1. PICK j \in DOMAIN toBot : toBot[j].cmd = "RPL_WELCOME"
      BY <1>1, <1>4, <2>2 DEF WelcomeFirst, Coming
    <3> QED
      BY <1>1, <2>2, <3>1
  <2> QED
    BY <1>1, <1>4, <2>1, <2>2
<1> QED
  BY <1>3, <1>4

\* A line the server takes is the first one, and leaves the queue.
LEMMA AnsweredLine ==
    ASSUME TypeOK, NEW cmd, Answers(cmd)
    PROVE  /\ toServer[1] \in ServerLines /\ toServer[1] = Head(toServer)
           /\ toServer[1].cmd = cmd
           /\ toServer' \in Seq(ServerLines)
           /\ 1 \in DOMAIN toServer
           /\ \A i \in DOMAIN toServer' :
                 i + 1 \in DOMAIN toServer /\ toServer'[i] = toServer[i + 1]
           /\ \A i \in DOMAIN toServer : i # 1 => i - 1 \in DOMAIN toServer'
  BY TailShifts DEF Answers, TypeOK

LEMMA AnsweredLast ==
    ASSUME TypeOK, LastSent, NEW cmd, Answers(cmd)
    PROVE  /\ LastSent'
           /\ cmd # "NICK" /\ Sending("NICK") => Sending("NICK")'
           /\ cmd = "NICK" /\ ~Sending("NICK")' => Head(toServer).arg = nick
<1>1. /\ toServer[1] = Head(toServer) /\ toServer[1].cmd = cmd
      /\ 1 \in DOMAIN toServer
      /\ \A i \in DOMAIN toServer' :
            i + 1 \in DOMAIN toServer /\ toServer'[i] = toServer[i + 1]
      /\ \A i \in DOMAIN toServer : i # 1 => i - 1 \in DOMAIN toServer'
  BY AnsweredLine
<1>2. DOMAIN toServer \subseteq Int /\ DOMAIN toServer' \subseteq Int
      /\ \A i \in DOMAIN toServer : i >= 1
  BY AnsweredLine DEF TypeOK
<1>3. \A i \in DOMAIN toServer : i # 1 => toServer'[i - 1] = toServer[i]
  BY <1>1, <1>2
<1>4. nick' = nick
  BY DEF Answers, bot
<1>5. LastSent'
  <2> SUFFICES ASSUME NEW i \in DOMAIN toServer', toServer'[i].cmd = "NICK",
                      \A j \in DOMAIN toServer' : j > i => toServer'[j].cmd # "NICK"
               PROVE  toServer'[i].arg = nick
    BY <1>4 DEF LastSent
  <2>1. ASSUME NEW j \in DOMAIN toServer, j > i + 1
        PROVE  toServer[j].cmd # "NICK"
    <3>1. j # 1 /\ j - 1 \in DOMAIN toServer' /\ j - 1 > i
      BY <1>1, <1>2, <2>1
    <3> QED
      BY <1>3, <3>1
  <2>2. i + 1 \in DOMAIN toServer /\ toServer[i + 1].cmd = "NICK"
    BY <1>1
  <2> QED
    BY <1>1, <2>1, <2>2 DEF LastSent
<1>6. cmd # "NICK" /\ Sending("NICK") => Sending("NICK")'
  BY <1>1, <1>3 DEF Sending
<1>7. ASSUME cmd = "NICK", ~Sending("NICK")'
      PROVE  Head(toServer).arg = nick
  <2>1. \A j \in DOMAIN toServer : j > 1 => toServer[j].cmd # "NICK"
    BY <1>1, <1>2, <1>3, <1>7 DEF Sending
  <2> QED
    BY <1>1, <1>7, <2>1 DEF LastSent
<1> QED
  BY <1>5, <1>6, <1>7

LEMMA AnswerNickKeeps ==
    ASSUME IInv, AnswerNick
    PROVE  IInv'
<1>0. TypeOK /\ CommandsPlain /\ LastSent /\ NickSettles /\ WelcomeFirst /\ NothingMissed
  BY DEF IInv
<1> DEFINE n == Head(toServer).arg
<1>1. Answers("NICK") /\ n \in Nicks /\ toServer' \in Seq(ServerLines)
  BY <1>0, AnsweredLine, LineArgs DEF AnswerNick
<1>2. /\ UNCHANGED <<phase, nick, motdSent, rejoining, taken, unanswered, missed,
                     asked, losses, joined>>
      /\ phase = "up"
  BY <1>1 DEF Answers, AnswerNick, bot, bounds
<1>3. LastSent' /\ (~Sending("NICK")' => n = nick)
  BY <1>0, <1>1, AnsweredLast
<1> HIDE DEF n
<1>4. n # None
  BY <1>1, RegistrationAssumption
<1>5. CASE n \in taken
  <2>1. /\ toBot' = Append(toBot, Line("ERR_NICK", n))
        /\ serverNick' = serverNick
        /\ Line("ERR_NICK", n) \in BotLines
        /\ Line("ERR_NICK", n).cmd = "ERR_NICK"
    BY <1>1, <1>5, LineTypes DEF AnswerNick, n, Line
  <2>2. toBot' \in Seq(BotLines) /\ Coming("ERR_NICK")' /\ CommandsPlain'
    BY <1>0, <2>1, BotGetsOne
  <2>3. TypeOK'
    BY <1>0, <1>1, <1>2, <2>1, <2>2 DEF TypeOK
  <2>4. WelcomeFirst'
    BY <1>0, <1>2, <2>1, WelcomeKept
  <2>5. NickSettles' /\ NothingMissed'
    BY <1>0, <1>2, <2>2 DEF NickSettles, NothingMissed
  <2> QED
    BY <1>3, <2>2, <2>3, <2>4, <2>5 DEF IInv
<1>6. CASE n \notin taken /\ serverNick = None
  <2>1. /\ toBot' = Append(toBot, Line("RPL_WELCOME", n))
        /\ serverNick' = n
        /\ Line("RPL_WELCOME", n) \in BotLines
        /\ Line("RPL_WELCOME", n).cmd = "RPL_WELCOME"
    BY <1>1, <1>6, LineTypes DEF AnswerNick, n, Line
  <2>2. toBot' \in Seq(BotLines) /\ CommandsPlain'
    BY <1>0, <2>1, BotGetsOne
  <2>3. TypeOK'
    BY <1>0, <1>1, <1>2, <2>1, <2>2 DEF TypeOK
  <2>4. WelcomeFirst'
    BY <1>0, <1>2, <2>1, WelcomeKept
  <2>5. NickSettles' /\ NothingMissed'
    BY <1>0, <1>2, <1>3, <2>1 DEF NickSettles, NothingMissed
  <2> QED
    BY <1>3, <2>2, <2>3, <2>4, <2>5 DEF IInv
<1>7. CASE n \notin taken /\ serverNick # None
  <2>1. toBot' = toBot /\ serverNick' = n
    BY <1>7 DEF AnswerNick, n
  <2>2. TypeOK'
    BY <1>0, <1>1, <1>2, <2>1 DEF TypeOK
  <2>3. CommandsPlain' /\ WelcomeFirst' /\ NothingMissed'
    BY <1>0, <1>2, <1>7, <2>1 DEF CommandsPlain, WelcomeFirst, Coming, NothingMissed
  <2>4. NickSettles'
    BY <1>2, <1>3, <2>1 DEF NickSettles
  <2> QED
    BY <1>3, <2>2, <2>3, <2>4 DEF IInv
<1> QED
  BY <1>5, <1>6, <1>7

LEMMA AnswerJoinKeeps ==
    ASSUME IInv, AnswerJoin
    PROVE  IInv'
<1>0. TypeOK /\ CommandsPlain /\ LastSent /\ NickSettles /\ WelcomeFirst /\ NothingMissed
  BY DEF IInv
<1> DEFINE c == Head(toServer).arg
<1>1. Answers("JOIN") /\ c \in Channels /\ toServer' \in Seq(ServerLines)
  BY <1>0, AnsweredLine, LineArgs DEF AnswerJoin
<1>2. /\ UNCHANGED <<phase, nick, motdSent, rejoining, taken, unanswered, missed,
                     asked, losses, serverNick>>
      /\ phase = "up"
  BY <1>1 DEF Answers, AnswerJoin, bot, bounds
<1>3. LastSent' /\ (Sending("NICK") => Sending("NICK")')
  BY <1>0, <1>1, AnsweredLast
<1> HIDE DEF c
<1>4. CASE serverNick = None
  <2>1. UNCHANGED <<joined, toBot>>
    BY <1>4 DEF AnswerJoin
  <2>2. TypeOK'
    BY <1>0, <1>1, <1>2, <2>1 DEF TypeOK
  <2>3. CommandsPlain' /\ WelcomeFirst' /\ NothingMissed'
    BY <1>0, <1>2, <2>1 DEF CommandsPlain, WelcomeFirst, Coming, NothingMissed
  <2>4. NickSettles'
    BY <1>0, <1>2, <1>3, <2>1, StaysSettled DEF Coming
  <2> QED
    BY <1>3, <2>2, <2>3, <2>4 DEF IInv
<1>5. CASE serverNick # None
  <2>1. /\ toBot' = Append(toBot, Line("JOIN", c)) /\ joined' = joined \cup {c}
        /\ Line("JOIN", c) \in BotLines
        /\ Line("JOIN", c).cmd = "JOIN"
    BY <1>1, <1>5, LineTypes DEF AnswerJoin, c, Line
  <2>2. /\ toBot' \in Seq(BotLines) /\ CommandsPlain'
        /\ Coming("ERR_NICK") => Coming("ERR_NICK")'
    BY <1>0, <2>1, BotGetsOne
  <2>3. TypeOK'
    BY <1>0, <1>1, <1>2, <2>1, <2>2 DEF TypeOK
  <2>4. WelcomeFirst'
    BY <1>0, <1>2, <1>5, <2>1, WelcomeKept
  <2>5. NickSettles'
    BY <1>0, <1>2, <1>3, <2>2, StaysSettled
  <2>6. NothingMissed'
    BY <1>0, <1>2 DEF NothingMissed
  <2> QED
    BY <1>3, <2>2, <2>3, <2>4, <2>5, <2>6 DEF IInv
<1> QED
  BY <1>4, <1>5

LEMMA AnswerPongKeeps ==
    ASSUME IInv, AnswerPong
    PROVE  IInv'
<1>0. TypeOK /\ CommandsPlain /\ LastSent /\ NickSettles /\ WelcomeFirst /\ NothingMissed
  BY DEF IInv
<1>1. Answers("PONG") /\ toServer' \in Seq(ServerLines)
  BY <1>0, AnsweredLine DEF AnswerPong
<1>2. /\ UNCHANGED <<phase, nick, motdSent, rejoining, taken, unanswered, missed,
                     asked, losses, serverNick, joined, toBot>>
      /\ phase = "up"
  BY <1>1 DEF Answers, AnswerPong, bot, bounds
<1>3. LastSent' /\ (Sending("NICK") => Sending("NICK")')
  BY <1>0, <1>1, AnsweredLast
<1>4. TypeOK'
  BY <1>0, <1>1, <1>2 DEF TypeOK
<1>5. CommandsPlain' /\ WelcomeFirst' /\ NothingMissed'
  BY <1>0, <1>2 DEF CommandsPlain, WelcomeFirst, Coming, NothingMissed
<1>6. NickSettles'
  BY <1>0, <1>2, <1>3, StaysSettled DEF Coming
<1> QED
  BY <1>3, <1>4, <1>5, <1>6 DEF IInv

LEMMA UsersKeep ==
    ASSUME IInv,
           \/ \E size \in PingSizes : Ping(size)
           \/ \E c \in Channels : Invite(c)
           \/ \E n \in Nicks : n.tail = 0 /\ Command(n)
    PROVE  IInv'
<1>0. TypeOK /\ CommandsPlain /\ LastSent /\ NickSettles /\ WelcomeFirst /\ NothingMissed
  BY DEF IInv
<1>1. PICK e \in BotLines :
         /\ e.cmd \in {"PING", "INVITE", "!nick"}
         /\ e.cmd = "!nick" => e.arg.tail = 0
         /\ e.cmd = "INVITE" => serverNick # None
         /\ Asks(e.cmd, e.arg)
         /\ toBot' = Append(toBot, e)
         /\ unanswered' \in SUBSET PingSizes
  <2>1. CASE \E size \in PingSizes : Ping(size)
    <3>1. PICK size \in PingSizes : Ping(size)
      BY <2>1
    <3>2. Line("PING", size) \in BotLines
      BY LineTypes
    <3> QED
      BY <1>0, <3>1, <3>2 DEF Ping, Asks, Line, TypeOK
  <2>2. CASE \E c \in Channels : Invite(c)
    <3>1. PICK c \in Channels : Invite(c)
      BY <2>2
    <3>2. Line("INVITE", c) \in BotLines
      BY LineTypes
    <3> QED
      BY <1>0, <3>1, <3>2 DEF Invite, Asks, Line, TypeOK
  <2>3. CASE \E n \in Nicks : n.tail = 0 /\ Command(n)
    <3>1. PICK n \in Nicks : n.tail = 0 /\ Command(n)
      BY <2>3
    <3>2. Line("!nick", n) \in BotLines
      BY LineTypes
    <3> QED
      BY <1>0, <3>1, <3>2 DEF Command, Asks, Line, TypeOK
  <2> QED
    BY <2>1, <2>2, <2>3
<1>2. /\ UNCHANGED <<phase, nick, motdSent, rejoining, toServer, serverNick, joined,
                     taken, missed, losses>>
      /\ phase = "up" /\ asked' \in 0..MaxAsked
  BY <1>0, <1>1, RegistrationAssumption DEF Asks, bot, TypeOK
<1>3. /\ toBot' \in Seq(BotLines) /\ CommandsPlain'
      /\ Coming("ERR_NICK") => Coming("ERR_NICK")'
  BY <1>0, <1>1, BotGetsOne
<1>4. TypeOK'
  BY <1>0, <1>1, <1>2, <1>3 DEF TypeOK
<1>5. LastSent' /\ (Sending("NICK") => Sending("NICK")')
  BY <1>0, <1>2 DEF LastSent, Sending
<1>6. WelcomeFirst'
  BY <1>0, <1>1, <1>2, WelcomeKept
<1>7. NickSettles' /\ NothingMissed'
  BY <1>0, <1>2, <1>3, <1>5, StaysSettled DEF NothingMissed
<1> QED
  BY <1>3, <1>4, <1>5, <1>6, <1>7 DEF IInv

LEMMA ConnectKeeps ==
    ASSUME IInv, Connect
    PROVE  IInv'
<1> USE DEF IInv, Connect
<1>1. toServer' = <<Line("NICK", nick)>> /\ nick' = nick /\ nick \in Nicks
  BY DEF RegistrationLines, TypeOK
<1>2. toServer' \in Seq(ServerLines)
  BY <1>1, LineTypes
<1>3. TypeOK'
  BY <1>2 DEF TypeOK, server, bounds
<1>4. LastSent' /\ Sending("NICK")'
  BY <1>1 DEF LastSent, Sending, Line
<1>5. toBot' = <<>> /\ serverNick' = None
  BY DEF TypeOK, server
<1>6. CommandsPlain' /\ WelcomeFirst'
  BY <1>5 DEF CommandsPlain, WelcomeFirst
<1>7. NickSettles' /\ NothingMissed'
  BY <1>4 DEF NickSettles, NothingMissed
<1> QED
  BY <1>3, <1>4, <1>6, <1>7

LEMMA LoseKeeps ==
    ASSUME IInv, Lose
    PROVE  IInv'
<1> USE DEF IInv, Lose
<1>1. toServer' \in Seq(ServerLines) /\ toBot' \in Seq(BotLines)
  OBVIOUS
<1>2. TypeOK'
  BY <1>1, RegistrationAssumption DEF TypeOK, bot
<1>3. CommandsPlain' /\ LastSent' /\ WelcomeFirst'
  BY DEF CommandsPlain, LastSent, WelcomeFirst
<1>4. NickSettles' /\ NothingMissed'
  BY DEF NickSettles, NothingMissed
<1> QED
  BY <1>2, <1>3, <1>4

-----------------------------------------------------------------------------
\* Every step preserves IInv.
LEMMA NextIInv == IInv /\ [Next]_vars => IInv'
<1> SUFFICES ASSUME IInv, [Next]_vars PROVE IInv'
  OBVIOUS
<1>1. CASE Connect
  BY <1>1, ConnectKeeps
<1>2. CASE Lose
  BY <1>2, LoseKeeps
<1>3. CASE BotStep
  BY <1>3, BotTypes, BotNick, BotLinesKept DEF IInv
<1>4. CASE ServerStep
  BY <1>4, AnswerNickKeeps, AnswerJoinKeeps, AnswerPongKeeps DEF ServerStep
<1>5. CASE \/ \E size \in PingSizes : Ping(size)
           \/ \E c \in Channels : Invite(c)
           \/ \E n \in Nicks : n.tail = 0 /\ Command(n)
  BY <1>5, UsersKeep
<1>6. CASE (\E n \in Nicks : TakeOrGiveUp(n)) \/ UNCHANGED vars
  <2>1. UNCHANGED <<phase, nick, motdSent, rejoining, toServer, toBot, serverNick,
                    joined, unanswered, missed, asked, losses>>
    BY <1>6 DEF TakeOrGiveUp, vars, bot, server, bounds
  <2>2. taken' \in SUBSET Nicks
    BY <1>6 DEF TakeOrGiveUp, vars, IInv, TypeOK
  <2>3. TypeOK'
    BY <2>1, <2>2 DEF IInv, TypeOK
  <2>4. CommandsPlain' /\ LastSent' /\ WelcomeFirst' /\ NothingMissed' /\ NickSettles'
    BY <2>1 DEF IInv, CommandsPlain, LastSent, WelcomeFirst, NothingMissed,
       NickSettles, Sending, Coming
  <2> QED
    BY <2>3, <2>4 DEF IInv
<1> QED
  BY <1>1, <1>2, <1>3, <1>4, <1>5, <1>6 DEF Next

\* The invariant holds in every reachable state.
THEOREM Invariance == Spec => []IInv
  BY InitIInv, NextIInv, PTL DEF Spec

-----------------------------------------------------------------------------
\* With any nicks and channels, the lines of both directions are ones the
\* handlers know, and the nicks the bot tries have one underscore at most.
THEOREM RegistrationTyped == Spec => []TypeOK
<1>1. IInv => TypeOK
  BY DEF IInv
<1> QED
  BY <1>1, Invariance, PTL

\* nick() and handle_nick write srv->nick before the server has agreed; when
\* no NICK and no refusal is under way they agree all the same.
THEOREM NickAlwaysSettles == Spec => []NickSettles
<1>1. IInv => NickSettles
  BY DEF IInv
<1> QED
  BY <1>1, Invariance, PTL

\* No JOIN and no INVITE arrives while motd_sent makes get_chan_event drop it,
\* over any number of reconnects.
THEOREM NothingEverMissed == Spec => []NothingMissed
<1>1. IInv => NothingMissed
  BY DEF IInv
<1> QED
  BY <1>1, Invariance, PTL
=============================================================================
