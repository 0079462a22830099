----------------------------- MODULE LineStream -----------------------------
(***************************************************************************)
(* What server_recv makes of the bytes of one server: recv() returns any   *)
(* chunk of the stream, bcirc_escape_buf copies it with every % doubled,   *)
(* strtok_r cuts the copy at CR and LF, and each piece is handled as a     *)
(* line: raised as SERVER_RECV and, by the logger plugin, formatted into   *)
(* the log.  Nothing is kept from one chunk to the next.                   *)
(*                                                                         *)
(* A byte is a cell: the number of the line it was sent in and its place   *)
(* there.  Only "%", CR and LF matter to the code.  NUL, which would end a *)
(* chunk early, is not sent by IRC servers.                                *)
(***************************************************************************)
EXTENDS Integers, Sequences, SequencesExt

CONSTANTS
    Texts,       \* the lines a server may send, sequences over {"%", "c"}
    Garbled,     \* what an undefined conversion writes into the log
    BufSize,     \* sizeof tmpbuf
    MaxLines,    \* how many lines it sends
    MaxLosses    \* how often the connection is lost

ASSUME TextsAssumption == Texts \subseteq Seq({"%", "c"})
ASSUME GarbledAssumption == Garbled \notin Nat \X Nat  \* not a cell
ASSUME BoundsAssumption ==
    BufSize \in Nat \ {0} /\ MaxLines \in Nat /\ MaxLosses \in Nat

VARIABLES
    sent,      \* the lines the server sent, on all connections so far
    stream,    \* the cells of this connection not yet received
    buf,       \* to_tokenized from strtok_r's save pointer on
    handled,   \* the pieces raised as SERVER_RECV
    log,       \* the same as the logger plugin writes them
    cut,       \* the cells that came last in a chunk or were never received
    losses

vars == <<sent, stream, buf, handled, log, cut, losses>>
-----------------------------------------------------------------------------
\* A line as it is sent, and what each of its cells holds.
Wire(text) == text \o <<"CR", "LF">>
Line(n, text) == [i \in DOMAIN Wire(text) |-> <<n, i>>]
CellsOf(n) == Line(n, sent[n])
Char(c) == Wire(sent[c[1]])[c[2]]
IsDelimiter(c) == Char(c) \in {"CR", "LF"}
Percent(s, i) == i \in DOMAIN s /\ Char(s[i]) = "%"

\* A loop over n places, which adds out[i] at place i and goes on at next[i].
Loop(n, out, next) ==
    LET From[i \in 1..(n + 1)] ==
            IF i > n THEN <<>> ELSE out[i] \o From[next[i]]
    IN From[1]

\* Each "%" of s is copied twice, and one that follows it is passed over.
Doubled(s) ==
    Loop(Len(s),
         [i \in DOMAIN s |-> IF Percent(s, i) THEN <<s[i], s[i]>> ELSE <<s[i]>>],
         [i \in DOMAIN s |->
             IF Percent(s, i) /\ Percent(s, i + 1) THEN i + 2 ELSE i + 1])

\* No "%" is doubled.
BugEscaped(s) == Front(s)

\* bcirc_escape_buf: the terminator overwrites the last character copied.
Escaped(s) == Front(Doubled(s))

\* bcirc_log takes the text it is to write for a format without arguments:
\* "%%" is written as "%".  Any other conversion is undefined behaviour,
\* shown as Garbled where it stands, and nothing is known of the rest.
Formatted(s) ==
    Loop(Len(s),
         [i \in DOMAIN s |-> IF Percent(s, i) /\ ~Percent(s, i + 1)
                             THEN <<Garbled>> ELSE <<s[i]>>],
         [i \in DOMAIN s |-> IF ~Percent(s, i) THEN i + 1
                             ELSE IF Percent(s, i + 1) THEN i + 2
                             ELSE Len(s) + 1])

\* bcirc_printf: its own "%s" leaves the text as it is; the result is what
\* bcirc_log takes for a format.
Logged(s) == Formatted(s)

Init ==
    /\ sent = <<>>
    /\ stream = <<>>
    /\ buf = <<>>
    /\ handled = <<>>
    /\ log = <<>>
    /\ cut = {}
    /\ losses = 0

SendLine ==
    /\ Len(sent) < MaxLines
    /\ \E text \in Texts :
          /\ sent' = Append(sent, text)
          /\ stream' = stream \o Line(Len(sent) + 1, text)
    /\ UNCHANGED <<buf, handled, log, cut, losses>>

\* strtok_r's result is used once per chunk.
BugMore == buf # <<>> /\ ~IsDelimiter(buf[1])

\* strtok_r finds another piece in the buffer.
More == \E i \in DOMAIN buf : ~IsDelimiter(buf[i])

\* select(), recv() and bcirc_escape_buf: the chunk is as long as the
\* network made it, up to the size of tmpbuf.
Receive ==
    /\ ~More
    /\ stream # <<>>
    /\ \E n \in 1..BufSize :
          /\ n <= Len(stream)
          /\ buf' = Escaped(SubSeq(stream, 1, n))
          /\ stream' = SubSeq(stream, n + 1, Len(stream))
          /\ cut' = cut \cup {stream[n]}
    /\ UNCHANGED <<sent, handled, log, losses>>

\* Delimiters at the front are not skipped, as with strsep.
BugPieceStart == 1

PieceStart == SelectInSeq(buf, LAMBDA c : ~IsDelimiter(c))

\* Only LF ends a piece.
BugPieceEnd(first) ==
    LET rest == SubSeq(buf, first, Len(buf))
        i == SelectInSeq(rest, LAMBDA c : Char(c) = "LF")
    IN IF i = 0 THEN Len(buf) + 1 ELSE first + i - 1

\* The place of the delimiter that ends the piece, one past the end of the
\* buffer if there is none.
PieceEnd(first) ==
    LET rest == SubSeq(buf, first, Len(buf))
        i == SelectInSeq(rest, IsDelimiter)
    IN IF i = 0 THEN Len(buf) + 1 ELSE first + i - 1

\* The logger plugin's callback for SERVER_RECV.
OnRecv(line) == log' = Append(log, Logged(line))

\* strtok_r skips delimiters and cuts out a piece, which SERVER_RECV's
\* callbacks handle, the logger's among them.
HandleLine ==
    /\ More
    /\ LET end == PieceEnd(PieceStart)
           line == SubSeq(buf, PieceStart, end - 1)
       IN /\ handled' = Append(handled, line)
          /\ OnRecv(line)
          /\ buf' = SubSeq(buf, end + 1, Len(buf))
    /\ UNCHANGED <<sent, stream, cut, losses>>

\* The connection is lost and reopened: what was not received never is.
LoseConnection ==
    /\ ~More
    /\ losses < MaxLosses
    /\ losses' = losses + 1
    /\ stream' = <<>>
    /\ cut' = cut \cup Range(stream)
    /\ UNCHANGED <<sent, buf, handled, log>>

Next == SendLine \/ Receive \/ HandleLine \/ LoseConnection

\* server_recv is scheduled.
Fairness == WF_vars(Receive) /\ WF_vars(HandleLine)

Spec == Init /\ [][Next]_vars /\ Fairness
-----------------------------------------------------------------------------
(***************************************************************************)
(* Properties.                                                             *)
(***************************************************************************)
Cells == UNION {Range(CellsOf(n)) : n \in DOMAIN sent}

\* Every cell is one that was sent, the escaped chunk fits the 2 * BufSize
\* characters of `escaped` with its terminator, and a piece is not empty.
TypeOK ==
    /\ sent \in Seq(Texts) /\ Len(sent) <= MaxLines
    /\ Range(stream) \cup Range(buf) \cup cut \subseteq Cells
    /\ Len(buf) < 2 * BufSize
    /\ Len(log) = Len(handled)
    /\ \A i \in DOMAIN handled :
          handled[i] # <<>> /\ Range(handled[i]) \subseteq Cells
    /\ losses \in 0..MaxLosses

\* The cells from a to b of line n, doubled as they should be.
Part(n, a, b) == Doubled(SubSeq(CellsOf(n), a, b))

\* What is handled as a line, the last one in any state, is a part of one
\* line the server sent, with nothing of another.  Every % in it stands twice;
\* nothing is missing in it but the second of two % in a row and, at its end,
\* the character a chunk ended with.
PartOfOneLine ==
    handled # <<>> =>
        LET piece == Last(handled)
            n == piece[1][1]
            a == piece[1][2]
        IN \E b \in a..Len(sent[n]) :
              \/ piece = Part(n, a, b)
              \/ <<n, b>> \in cut /\ piece = Front(Part(n, a, b))

\* The text s with the second of every two % in a row left out.
Singled(s) ==
    Loop(Len(s),
         [i \in DOMAIN s |-> <<s[i]>>],
         [i \in DOMAIN s |->
             IF Percent(s, i) /\ Percent(s, i + 1) THEN i + 2 ELSE i + 1])

\* What the log shows of the last character before a chunk's end.
Ending(c) == IF Char(c) = "%" THEN <<Garbled>> ELSE <<>>

\* The log's last entry is the text its piece is a part of, every character
\* as it was sent and in its place, but that two % in a row are logged as one:
\* bcirc_escape_buf passes over the second, and the formatting in bcirc_log
\* undoes its doubling of the first.  Where a chunk ended, its last character
\* is not logged, and a % there is left alone and garbles the entry's end.
\* All that was logged before was sent before.
Before(c, d) == c[1] < d[1] \/ (c[1] = d[1] /\ c[2] < d[2])
LogReadsAsSent ==
    log # <<>> =>
        LET piece == Last(handled)
            n == piece[1][1]
            a == piece[1][2]
        IN /\ \E b \in a..Len(sent[n]) :
                 LET text == Singled(SubSeq(CellsOf(n), a, b))
                 IN \/ piece = Part(n, a, b) /\ Last(log) = text
                    \/ /\ <<n, b>> \in cut /\ piece = Front(Part(n, a, b))
                       /\ Last(log) = Front(text) \o Ending(Last(text))
           /\ \A k \in 1..(Len(log) - 1) :
                 \A c \in Range(handled[k]) : Before(c, piece[1])

\* Every character of a line the server sent is handled, the second of two
\* % apart, unless it came last in a chunk or with a lost connection.
LineHandled(n) ==
    LET done == cut \cup UNION {Range(handled[i]) : i \in DOMAIN handled}
        line == CellsOf(n)
    IN \A k \in DOMAIN sent[n] :
          \/ line[k] \in done
          \/ Percent(line, k) /\ Percent(line, k - 1) /\ line[k - 1] \in done
LinesHandled ==
    \A n \in 1..MaxLines :
        n = Len(sent) ~> (n \in DOMAIN sent /\ LineHandled(n))
=============================================================================
