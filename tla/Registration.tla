---------------------------- MODULE Registration ----------------------------
(***************************************************************************)
(* The dialogue of the bot with one IRC server: registration, the choice   *)
(* of another nick when one is refused, the joining of the configured      *)
(* channels, PING, and what users make the bot send (!nick, INVITE).       *)
(*                                                                         *)
(* On the bot's side all of this runs on the one thread that works for the *)
(* server.  Lines travel in order, one queue each way, and are lost with   *)
(* the connection.  The server is an environment: it answers NICK, JOIN    *)
(* and PONG the way the handlers expect, while other users take and give   *)
(* up nicks.  PASS and USER, which precede the first NICK, are left out:   *)
(* the server registers the bot when it accepts a nick.                    *)
(***************************************************************************)
EXTENDS Integers, SequencesExt

CONSTANTS
    Bases,       \* names a nick is made of
    FirstNick,   \* the "nick" of bcirc.conf
    AltNick,     \* its "alt_nick"
    Autojoin,    \* the "channels" list of the server, in file order
    Channels,    \* the channels of the network
    PingSizes,   \* the lengths of the PING lines the server may send
    MaxTail,     \* bound: the underscores of a nick the types allow for
    MaxAsked,    \* bound: the PINGs, !nick commands and INVITEs
    MaxLosses,   \* bound: how often the connection is lost
    None         \* no nick

\* A nick and the underscores appended to it.
Nicks == [base : Bases, tail : 0..MaxTail]

ASSUME RegistrationAssumption ==
    /\ MaxTail \in Nat \ {0} /\ MaxAsked \in Nat /\ MaxLosses \in Nat
    /\ FirstNick \in [base : Bases, tail : {0}]
    /\ AltNick \in [base : Bases, tail : {0}]
    /\ None \notin Nicks
    /\ Autojoin \in Seq(Channels)
    /\ PingSizes \subseteq Nat

VARIABLES
    phase,       \* "down", or "up" from connect() to the loss
    nick,        \* srv->nick
    motdSent,    \* srv->motd_sent
    rejoining,   \* whether try_rejoin, and not load_servers, connects
    toServer,    \* the lines on their way to the server
    toBot,       \* and to the bot
    serverNick,  \* the nick the server knows the bot by, once registered
    taken,       \* the nicks other users have
    joined,      \* the channels the server has the bot in
    unanswered,  \* the lengths of the PINGs the bot has not answered
    missed,      \* whether a channel event was dropped
    asked,       \* how much was asked of the bot so far
    losses       \* how often the connection was lost

bot == <<nick, motdSent>>
server == <<serverNick, joined, unanswered>>
bounds == <<asked, losses>>
vars == <<phase, bot, rejoining, toServer, toBot, server, taken, missed, bounds>>

Line(cmd, arg) == [cmd |-> cmd, arg |-> arg]
-----------------------------------------------------------------------------
Init ==
    /\ phase = "down"
    /\ nick = FirstNick
    /\ motdSent = FALSE
    /\ rejoining = FALSE
    /\ toServer = <<>>
    /\ toBot = <<>>
    /\ serverNick = None
    /\ taken \in SUBSET Nicks
    /\ joined = {}
    /\ unanswered = {}
    /\ missed = FALSE
    /\ asked = 0
    /\ losses = 0

\* autojoin_channels: one JOIN for each configured channel.
JoinAll == [i \in 1..Len(Autojoin) |-> Line("JOIN", Autojoin[i])]

\* handle_registeration sends the nick the bot last had.
RegistrationLines == <<Line("NICK", nick)>>

\* server_connect clears motd_sent and has handle_registeration called;
\* try_rejoin sets motd_sent again before the reader starts.
Connect ==
    /\ phase = "down"
    /\ phase' = "up"
    /\ motdSent' = rejoining
    /\ toServer' = RegistrationLines
    /\ UNCHANGED <<nick, rejoining, toBot, server, taken, missed, bounds>>

\* The connection is lost and what was under way with it.
Lose ==
    /\ phase = "up"
    /\ losses < MaxLosses
    /\ losses' = losses + 1
    /\ phase' = "down"
    /\ rejoining' = TRUE
    /\ toServer' = <<>>
    /\ toBot' = <<>>
    /\ serverNick' = None
    /\ joined' = {}
    /\ unanswered' = {}
    /\ UNCHANGED <<bot, taken, missed, asked>>
-----------------------------------------------------------------------------
(* The handlers: one line from the server.                                 *)

Received(cmd) ==
    /\ phase = "up" /\ toBot # <<>> /\ Head(toBot).cmd = cmd
    /\ toBot' = Tail(toBot)
    /\ UNCHANGED <<phase, rejoining, serverNick, joined, taken, bounds>>

\* The command leaves srv->nick to the server's answer.
BugStored(n) == nick

\* nick() writes srv->nick before the server has answered.
Stored(n) == n

SendNick(n) ==
    /\ nick' = Stored(n)
    /\ toServer' = Append(toServer, Line("NICK", n))
    /\ UNCHANGED <<motdSent, unanswered, missed>>

\* alt_nick is only the base of the nicks that are tried.
BugOtherNick == IF nick.base # AltNick.base THEN AltNick ELSE [nick EXCEPT !.tail = @ + 1]

\* The extended copy of alt_nick is made and alt_nick is sent again.
BugNotExtended == AltNick

\* alt_nick, or alt_nick with an underscore when it is alt_nick already.
OtherNick == IF nick # AltNick THEN AltNick ELSE [nick EXCEPT !.tail = @ + 1]

\* handle_nick, on ERR_NICKNAMEINUSE and the other refusals of a nick.
HandleNick == Received("ERR_NICK") /\ SendNick(OtherNick)

\* The nick plugin, on "!nick <word>" from any user.
NickCommand == Received("!nick") /\ SendNick(Head(toBot).arg)

\* motd_sent is left to try_rejoin.
BugWelcomed == motdSent

Welcomed == TRUE

\* got_in, on RPL_WELCOME.
GotIn ==
    /\ Received("RPL_WELCOME")
    /\ motdSent' = Welcomed
    /\ toServer' = toServer \o JoinAll
    /\ UNCHANGED <<nick, unanswered, missed>>

\* Lines of seven characters are too short as well.
BugLongEnough(size) == size > 7

\* handle_ping ignores lines shorter than "PING :x".
LongEnough(size) == size >= 7

HandlePing ==
    /\ Received("PING")
    /\ LET size == Head(toBot).arg IN
       IF LongEnough(size)
       THEN /\ toServer' = Append(toServer, Line("PONG", size))
            /\ unanswered' = unanswered \ {size}
       ELSE UNCHANGED <<toServer, unanswered>>
    /\ UNCHANGED <<bot, missed>>

\* get_chan_event drops what comes while motd_sent is 0; autojoin_on_invite
\* joins the channel the bot was invited to.
ChanEvent ==
    /\ \/ Received("INVITE")
       \/ Received("JOIN")
    /\ missed' = (missed \/ ~motdSent)
    /\ toServer' = IF Head(toBot).cmd = "INVITE" /\ motdSent
                   THEN Append(toServer, Line("JOIN", Head(toBot).arg))
                   ELSE toServer
    /\ UNCHANGED <<bot, unanswered>>

BotStep == HandleNick \/ NickCommand \/ GotIn \/ HandlePing \/ ChanEvent
-----------------------------------------------------------------------------
(* The server and its other users.                                         *)

Answers(cmd) ==
    /\ phase = "up" /\ toServer # <<>> /\ Head(toServer).cmd = cmd
    /\ toServer' = Tail(toServer)
    /\ UNCHANGED <<phase, bot, rejoining, taken, unanswered, missed, bounds>>

\* A nick somebody has is refused; the first one accepted registers the bot.
AnswerNick ==
    /\ Answers("NICK")
    /\ LET n == Head(toServer).arg IN
       IF n \in taken
       THEN /\ toBot' = Append(toBot, Line("ERR_NICK", n))
            /\ UNCHANGED serverNick
       ELSE /\ serverNick' = n
            /\ toBot' = IF serverNick = None THEN Append(toBot, Line("RPL_WELCOME", n))
                        ELSE toBot
    /\ UNCHANGED joined

\* A JOIN is echoed to a registered client.
AnswerJoin ==
    /\ Answers("JOIN")
    /\ IF serverNick = None THEN UNCHANGED <<joined, toBot>>
       ELSE /\ joined' = joined \cup {Head(toServer).arg}
            /\ toBot' = Append(toBot, Line("JOIN", Head(toServer).arg))
    /\ UNCHANGED serverNick

AnswerPong == Answers("PONG") /\ UNCHANGED <<toBot, serverNick, joined>>

ServerStep == AnswerNick \/ AnswerJoin \/ AnswerPong

Asks(cmd, arg) ==
    /\ phase = "up" /\ asked < MaxAsked
    /\ asked' = asked + 1
    /\ toBot' = Append(toBot, Line(cmd, arg))
    /\ UNCHANGED <<phase, bot, rejoining, toServer, serverNick, joined, taken, missed, losses>>

\* A server may send PING before it registers a client.
Ping(size) ==
    /\ size \notin unanswered
    /\ Asks("PING", size)
    /\ unanswered' = unanswered \cup {size}

Invite(c) == serverNick # None /\ Asks("INVITE", c) /\ UNCHANGED unanswered

Command(n) == serverNick # None /\ Asks("!nick", n) /\ UNCHANGED unanswered

TakeOrGiveUp(n) ==
    /\ n # serverNick
    /\ taken' = IF n \in taken THEN taken \ {n} ELSE taken \cup {n}
    /\ UNCHANGED <<phase, bot, rejoining, toServer, toBot, server, missed, bounds>>

Next ==
    \/ Connect
    \/ Lose
    \/ BotStep
    \/ ServerStep
    \/ \E size \in PingSizes : Ping(size)
    \/ \E c \in Channels : Invite(c)
    \/ \E n \in Nicks : n.tail = 0 /\ Command(n)
    \/ \E n \in Nicks : TakeOrGiveUp(n)

\* The reader runs and the server answers; nobody has to ask anything.
Fairness == WF_vars(BotStep) /\ WF_vars(ServerStep)

Spec == Init /\ [][Next]_vars
FairSpec == Spec /\ Fairness
-----------------------------------------------------------------------------
(***************************************************************************)
(* Properties.                                                             *)
(***************************************************************************)
Lines(cmds, args) == [cmd : cmds, arg : args]
ServerLines ==
    Lines({"NICK"}, Nicks) \cup Lines({"JOIN"}, Channels) \cup Lines({"PONG"}, PingSizes)
BotLines ==
    Lines({"ERR_NICK", "RPL_WELCOME", "!nick"}, Nicks)
        \cup Lines({"INVITE", "JOIN"}, Channels) \cup Lines({"PING"}, PingSizes)

\* Every variable holds a value of its range; the nicks the bot tries have
\* one underscore at most; without a connection there is no session.
TypeOK ==
    /\ phase \in {"down", "up"}
    /\ nick \in Nicks /\ nick.tail <= 1
    /\ motdSent \in BOOLEAN
    /\ rejoining \in BOOLEAN
    /\ toServer \in Seq(ServerLines)
    /\ toBot \in Seq(BotLines)
    /\ serverNick \in Nicks \cup {None}
    /\ taken \in SUBSET Nicks
    /\ joined \in SUBSET Channels
    /\ unanswered \in SUBSET PingSizes
    /\ missed \in BOOLEAN
    /\ asked \in 0..MaxAsked
    /\ losses \in 0..MaxLosses
    /\ phase = "down" =>
          toServer = <<>> /\ toBot = <<>> /\ serverNick = None /\ joined = {}

Sending(cmd) == \E i \in DOMAIN toServer : toServer[i].cmd = cmd
Coming(cmd) == \E i \in DOMAIN toBot : toBot[i].cmd = cmd

\* nick() stores a nick nobody has confirmed, and refusals may arrive when a
\* later nick was already sent.  Still, when no NICK and no refusal is under
\* way, srv->nick is the nick the server knows the bot by; in particular the
\* bot is registered, so that registration never stalls.
NickSettles ==
    phase = "up" /\ ~Sending("NICK") /\ ~Coming("ERR_NICK")
        => nick = serverNick

\* No channel event is dropped because motd_sent is 0: neither the echo of
\* the bot's own JOINs nor an INVITE, in the first session and in later ones.
NothingMissed == ~missed

\* If alt_nick with an underscore is left to the bot from some time on, every
\* session gets the bot into the channels of its configuration, unless the
\* connection is lost.
JoinsChannels ==
    (<>[]([AltNick EXCEPT !.tail = 1] \notin taken)) =>
        (phase = "up" ~> (phase = "down" \/ ToSet(Autojoin) \subseteq joined))

\* A PING of at least "PING :x" is answered, before the registration is
\* complete as well, unless the connection is lost.
PingsAnswered ==
    \A size \in PingSizes :
        size >= 7 => (size \in unanswered ~> size \notin unanswered)
=============================================================================
