-------------------------- MODULE AnnouncersProofs --------------------------
(***************************************************************************)
(* Proofs about Announcers, for any number of readers and messages, every  *)
(* list of urls and pages that arrive in any number of pieces.             *)
(***************************************************************************)
EXTENDS Announcers, SequenceTheorems, WellFoundedInduction, TLAPS

(***************************************************************************)
(* What goes with the types.                                               *)
(***************************************************************************)
InCheckUrl(r) == pc[r] \in {"save", "token", "restore"}

\* check_url goes on only while there is a list, and nobody takes it away.
Holding == \A r \in Readers : InCheckUrl(r) => urls # Null

\* A message has a text, and another try is made at most three times.
Handling ==
    \A r \in Readers :
        /\ pc[r] # "idle" => text[r].line \in STRING
        /\ pc[r] = "retry" => ark[r].tries < 3

(***************************************************************************)
(* The list.                                                               *)
(***************************************************************************)
Rebuilding(r) == pc[r] \in {"free", "read"}

Begins(some, all) ==
    Len(some) <= Len(all) /\ \A i \in 1..Len(some) : some[i] = all[i]

\* The list a reader builds is a beginning of the file, which has a line.
Rebuilt ==
    \A r \in Readers :
        /\ Rebuilding(r) => file # Null /\ file # <<>>
        /\ pc[r] = "read" =>
              IF urls = Null THEN at[r] = 1
              ELSE at[r] = Len(urls) + 1 /\ Begins(urls, file)

Complete ==
    (\A r \in Readers : ~Rebuilding(r)) => urls = Null \/ urls = file

\* Without an overlap one reader uses the list and takes back every cut.
OneUser == \A r, u \in Readers : Using(r) /\ Using(u) => r = u

CutsUndone ==
    \A r \in Readers :
        /\ pc[r] \in {"token", "restore"} => saved[r] = Len(urls)
        /\ pc[r] = "restore" => nul \subseteq at[r]..Len(urls)

Uncut ==
    urls # Null /\ (\A r \in Readers : pc[r] \notin {"token", "restore"}) =>
        nul = {Len(urls)}

Sole == ~overlap => OneUser /\ CutsUndone /\ Uncut

(***************************************************************************)
(* The answers.                                                            *)
(***************************************************************************)
\* For the title plugin's callback, or for add_url.
Checking(r) == pc[r] \in {"measure", "save", "token", "restore"}

\* A title may still be fetched, and no request has brought one.
BeforeTitle(r) ==
    \/ pc[r] \in {"check", "request", "retry"}
    \/ pc[r] = "weather" /\ weatherFirst
    \/ Checking(r) /\ caller[r] = "check"

OneTitle ==
    \A r \in Readers :
        /\ ark[r].titles <= 1
        /\ ark[r].titles = 1 => ark[r].found
        /\ BeforeTitle(r) => ~ark[r].found

\* A report leaves no link to fetch a title for but one in the first word.
ReportAlone ==
    weatherFirst => \A r \in Readers :
        reports[r] = 1 /\ text[r].link # "first" =>
            /\ ark[r].titles = 0
            /\ text[r].link = "none"
            /\ pc[r] \notin {"request", "receive", "retry"}
            /\ Checking(r) => caller[r] = "add"

Typed == TypeOK /\ Holding /\ Handling
ListInv == Rebuilt /\ Complete /\ Sole
AnswerInv == OneTitle /\ ReportAlone
IInv == Typed /\ ListInv /\ AnswerInv
-----------------------------------------------------------------------------
(* Lemmas about the operators. *)

\* The first word of a message keeps all but a link further on.
LEMMA FirstWordIs ==
    ASSUME NEW m \in [command : Commands, link : Links, line : STRING \cup {Null}]
    PROVE  /\ FirstWord(m) \in
                 [command : Commands, link : Links, line : STRING \cup {Null}]
           /\ FirstWord(m).line = m.line
           /\ FirstWord(m).link # "first" => FirstWord(m).link = "none"
<1>1. m.link \in Links /\ m.line \in STRING \cup {Null} /\ m.command \in Commands
  OBVIOUS
<1> QED
  BY <1>1 DEF FirstWord, Links

\* A string that ends somewhere in its memory has a first end.
LEMMA FirstNul ==
    ASSUME NEW n \in Nat, NEW S, S \subseteq 1..n, S # {}
    PROVE  Min(S) \in S /\ Min(S) \in 1..n
<1>1. IsWellFoundedOn(OpToRel(<, Nat), Nat)
  BY NatLessThanWellFounded
<1>2. S \subseteq Nat
  OBVIOUS
<1>3. PICK x \in S : \A y \in S : ~(<<y, x>> \in OpToRel(<, Nat))
  BY <1>1, <1>2, WFMin, Zenon
<1>4. \A y \in S : ~(y < x)
  BY <1>2, <1>3 DEF OpToRel
<1>5. \A y \in S : x =< y
  BY <1>2, <1>4
<1>6. Min(S) \in S
  BY <1>5 DEF Min
<1> QED
  BY <1>6

\* The end of a whole list.
LEMMA OnlyNul == ASSUME NEW n \in Nat PROVE Min({n}) = n
<1>1. n =< n
  OBVIOUS
<1> QED
  BY <1>1 DEF Min

\* Where a reader goes on.
LEMMA AfterValues ==
    /\ After("weather") = IF weatherFirst THEN "check" ELSE "idle"
    /\ After("check") = "add"
    /\ After("add") = IF weatherFirst THEN "idle" ELSE "weather"
  BY DEF After

LEMMA ResumeValues ==
    ASSUME NEW r \in Readers, TypeOK, NEW listed \in BOOLEAN
    PROVE  Resume(r, listed) =
              IF caller[r] = "check" THEN (IF listed THEN "request" ELSE "add")
              ELSE IF listed THEN After("add") ELSE "append"
<1>1. caller[r] \in {"check", "add"}
  BY DEF TypeOK
<1> QED
  BY <1>1, AfterValues DEF Resume

\* A step of the system is one of a reader's.
LEMMA Steps ==
    ASSUME Next
    PROVE  \E r \in Readers :
              /\ ~undefined
              /\ \/ GotPrivmsg(r) \/ OnPrivmsg(r) \/ CheckForUrl(r)
                 \/ HttpRequest(r) \/ ReceiveChunk(r) \/ RequestEnds(r) \/ Retry(r)
                 \/ Measure(r) \/ Save(r) \/ Token(r) \/ Restore(r)
                 \/ AddUrl(r) \/ AppendToFile(r) \/ FreeUrls(r) \/ GetUrls(r)
  BY DEF Next, ReaderStep

LEMMA AppendLine ==
    ASSUME NEW s \in Seq(STRING), NEW l \in STRING
    PROVE  /\ Append(s, l) \in Seq(STRING)
           /\ Append(s, l) # <<>>
           /\ Len(Append(s, l)) = Len(s) + 1
           /\ Append(s, l)[Len(s) + 1] = l
           /\ \A i \in 1..Len(s) : Append(s, l)[i] = s[i]
<1>1. Append(s, l) # <<>>
  BY AppendProperties, Zenon
<1>2. Len(Append(s, l)) = Len(s) + 1
  OBVIOUS
<1>3. Append(s, l) \in Seq(STRING) /\ Append(s, l)[Len(s) + 1] = l
  BY AppendProperties, Zenon
<1>4. \A i \in 1..Len(s) : Append(s, l)[i] = s[i]
  OBVIOUS
<1> QED
  BY <1>1, <1>2, <1>3, <1>4, Zenon
-----------------------------------------------------------------------------
(* The types. *)

\* TypeOK of each variable, and what holds of the list and of its users.
PlainTypes ==
    /\ hasFilter \in BOOLEAN /\ weatherFirst \in BOOLEAN
    /\ pc \in [Readers -> {"idle", "weather", "check", "request", "receive",
                           "retry", "measure", "save", "token", "restore", "add",
                           "append", "free", "read"}]
    /\ text \in [Readers -> [command : Commands, link : Links,
                             line : STRING \cup {Null}]]
    /\ caller \in [Readers -> {"check", "add"}]
    /\ at \in [Readers -> Nat \ {0}] /\ saved \in [Readers -> Nat]
    /\ ark \in [Readers -> [tries : 0..3, found : BOOLEAN, titles : Nat]]
    /\ reports \in [Readers -> {0, 1}]
    /\ received \in 0..MaxMessages
    /\ overlap \in BOOLEAN /\ undefined \in BOOLEAN

ListTypes ==
    /\ file = Null \/ file \in Seq(STRING)
    /\ urls = Null \/ urls \in Seq(STRING)
    /\ urls = Null => nul = {}
    /\ urls # Null =>
          urls # <<>> /\ nul \subseteq 1..Len(urls) /\ Len(urls) \in nul

Within ==
    \A r \in Readers :
        pc[r] \in {"token", "restore"} =>
            at[r] \in 1..Len(urls) /\ saved[r] \in 1..Len(urls)

LEMMA TypeParts == TypeOK <=> PlainTypes /\ ListTypes /\ Within
  BY DEF TypeOK, PlainTypes, ListTypes, Within

LEMMA TypedInit == ASSUME Init PROVE Typed
<1>1. file = Null \/ file \in Seq(STRING)
  BY FilesAssumption DEF Init
<1>2. urls # Null => urls \in Seq(STRING) /\ urls # <<>> /\ nul = {Len(urls)}
<2>1. urls = IF file = <<>> THEN Null ELSE file
  BY DEF Init
<2>2. urls # Null => urls \in Seq(STRING) /\ urls # <<>>
  BY <1>1, <2>1
<2>3. urls # Null => nul = {Len(urls)}
  BY DEF Init
<2> QED
  BY <2>2, <2>3
<1>3. urls # Null => Len(urls) \in 1..Len(urls)
  BY <1>2
<1>4. urls = Null => nul = {}
  BY DEF Init
<1>5. urls # Null => urls # <<>> /\ nul \subseteq 1..Len(urls) /\ Len(urls) \in nul
  BY <1>2, <1>3
<1>6. text \in [Readers -> [command : Commands, link : Links, line : STRING \cup {Null}]]
  BY DEF Init, NoMessage, Commands, Links
<1>7. ark \in [Readers -> [tries : 0..3, found : BOOLEAN, titles : Nat]]
  BY DEF Init, NewArk
<1>8. PlainTypes
<2>1. received \in 0..MaxMessages
  BY BoundsAssumption DEF Init
<2>2. at \in [Readers -> Nat \ {0}] /\ saved \in [Readers -> Nat]
  BY DEF Init
<2>3. caller \in [Readers -> {"check", "add"}] /\ reports \in [Readers -> {0, 1}]
  BY DEF Init
<2>4. hasFilter \in BOOLEAN /\ weatherFirst \in BOOLEAN
      /\ overlap \in BOOLEAN /\ undefined \in BOOLEAN
  BY DEF Init
<2>5. pc = [r \in Readers |-> "idle"]
  BY DEF Init
<2> QED
  BY <1>6, <1>7, <2>1, <2>2, <2>3, <2>4, <2>5 DEF PlainTypes
<1>9. ListTypes
  BY <1>1, <1>2, <1>4, <1>5 DEF ListTypes
<1>10. Within
  BY DEF Init, Within
<1>11. TypeOK
  BY <1>8, <1>9, <1>10, TypeParts
<1> QED
  BY <1>11 DEF Typed, Init, Holding, Handling, InCheckUrl

\* A step that leaves the list alone and takes no reader into check_url.
LEMMA ListAlone ==
    ASSUME Typed, PlainTypes', Handling', UNCHANGED <<urls, nul, saved, at>>,
           file' = Null \/ file' \in Seq(STRING),
           NEW r \in Readers, NEW step, Goto(r, step),
           step \notin {"save", "token", "restore"}
    PROVE  Typed'
<1>1. \A u \in Readers :
         pc'[u] \in {"save", "token", "restore"} => u # r /\ pc'[u] = pc[u]
  BY DEF Typed, TypeOK, Goto
<1>2. Within'
  BY <1>1 DEF Typed, TypeOK, Within
<1>3. Holding'
  BY <1>1 DEF Typed, Holding, InCheckUrl
<1>4. ListTypes'
  BY DEF Typed, TypeOK, ListTypes
<1>5. TypeOK'
  BY <1>2, <1>4, TypeParts, PTL
<1> QED
  BY <1>3, <1>5 DEF Typed

\* A reader counts on, starts again, or stays.
LEMMA AtTypes ==
    ASSUME at \in [Readers -> Nat \ {0}], NEW r \in Readers,
           \/ at' = at
           \/ at' = [at EXCEPT ![r] = 1]
           \/ at' = [at EXCEPT ![r] = @ + 1]
    PROVE  at' \in [Readers -> Nat \ {0}]
<1>1. at[r] + 1 \in Nat \ {0} /\ 1 \in Nat \ {0}
  OBVIOUS
<1> QED
  BY <1>1

Arks == [tries : 0..3, found : BOOLEAN, titles : Nat]

LEMMA ArkTypes ==
    ASSUME NEW a \in Arks
    PROVE  /\ \A chunk : WriteCallback(a, chunk) \in Arks
           /\ a.tries < 3 => Tried(a) \in Arks
           /\ NewArk \in Arks
<1>1. a.titles + 1 \in Nat /\ (a.tries < 3 => a.tries + 1 \in 0..3)
  BY DEF Arks
<1>2. [a EXCEPT !.found = TRUE, !.titles = a.titles] \in Arks
  BY DEF Arks
<1>3. [a EXCEPT !.found = TRUE, !.titles = a.titles + 1] \in Arks
  BY <1>1 DEF Arks
<1>4. \A chunk : WriteCallback(a, chunk) \in Arks
  BY <1>2, <1>3 DEF WriteCallback
<1>5. a.tries < 3 => Tried(a) \in Arks
  BY <1>1 DEF Arks, Tried
<1>6. NewArk \in Arks
  BY DEF NewArk, Arks
<1> QED
  BY <1>4, <1>5, <1>6

\* The end of the model, and a step of something else.
LEMMA NothingDone ==
    ASSUME IInv, Undefined \/ UNCHANGED vars
    PROVE  IInv'
<1> USE DEF Undefined, vars, list, setup, call, answers
<1>1. Typed'
  BY DEF IInv, Typed, TypeOK, Holding, Handling, InCheckUrl
<1>2. ListInv'
  BY DEF IInv, ListInv, Rebuilt, Complete, Sole, OneUser, CutsUndone, Uncut,
         Rebuilding, Begins, Using
<1>3. AnswerInv'
  BY DEF IInv, AnswerInv, OneTitle, ReportAlone, BeforeTitle, Checking
<1> QED
  BY <1>1, <1>2, <1>3 DEF IInv

LEMMA PlainSteps ==
    ASSUME Typed, NEW r \in Readers
    PROVE  /\ GotPrivmsg(r) => PlainTypes'
           /\ OnPrivmsg(r) => PlainTypes'
           /\ CheckForUrl(r) => PlainTypes'
           /\ HttpRequest(r) => PlainTypes'
           /\ ReceiveChunk(r) => PlainTypes'
           /\ RequestEnds(r) => PlainTypes'
           /\ Retry(r) => PlainTypes'
           /\ Measure(r) => PlainTypes'
           /\ Save(r) => PlainTypes'
           /\ Token(r) => PlainTypes'
           /\ Restore(r) => PlainTypes'
           /\ AddUrl(r) => PlainTypes'
           /\ AppendToFile(r) => PlainTypes'
           /\ FreeUrls(r) => PlainTypes'
           /\ GetUrls(r) => PlainTypes'
<1> USE DEF Goto, Undefined, list, setup, call, answers
<1>0. TypeOK /\ PlainTypes /\ ListTypes /\ Within
  BY TypeParts DEF Typed
<1>1. ASSUME GotPrivmsg(r) PROVE PlainTypes'
<2>1. PICK m \in Messages : text' = [text EXCEPT ![r] = m]
  BY <1>1 DEF GotPrivmsg
<2>2. text' \in [Readers -> [command : Commands, link : Links, line : STRING \cup {Null}]]
  BY <1>0, <2>1, MessagesAssumption DEF PlainTypes
<2>3. ark' \in [Readers -> [tries : 0..3, found : BOOLEAN, titles : Nat]]
  BY <1>0, <1>1 DEF PlainTypes, GotPrivmsg, NewArk
<2>4. received' \in 0..MaxMessages
  BY <1>0, <1>1, BoundsAssumption DEF PlainTypes, GotPrivmsg
<2> QED
  BY <1>0, <1>1, <2>2, <2>3, <2>4 DEF PlainTypes, GotPrivmsg
<1>2. ASSUME OnPrivmsg(r) PROVE PlainTypes'
<2>1. text' \in [Readers -> [command : Commands, link : Links, line : STRING \cup {Null}]]
<3>1. text' = text \/ text' = [text EXCEPT ![r] = FirstWord(text[r])]
  BY <1>2 DEF OnPrivmsg
<3>2. FirstWord(text[r]) \in
         [command : Commands, link : Links, line : STRING \cup {Null}]
<4>1. text[r] \in [command : Commands, link : Links, line : STRING \cup {Null}]
  BY <1>0 DEF PlainTypes
<4> QED
  BY <4>1, FirstWordIs
<3> QED
  BY <1>0, <3>1, <3>2 DEF PlainTypes
<2>2. reports' \in [Readers -> {0, 1}]
<3>1. CASE UNCHANGED reports
  BY <1>0, <3>1 DEF PlainTypes
<3>2. CASE \E pieces \in 0..MaxChunks : reports' = [reports EXCEPT ![r] = Reports(pieces)]
<4>1. PICK pieces \in 0..MaxChunks : reports' = [reports EXCEPT ![r] = Reports(pieces)]
  BY <3>2
<4>2. Reports(pieces) \in {0, 1}
  BY DEF Reports
<4> QED
  BY <1>0, <4>1, <4>2 DEF PlainTypes
<3> QED
  BY <1>2, <3>1, <3>2 DEF OnPrivmsg
<2> QED
  BY <1>0, <1>2, <2>1, <2>2, AfterValues DEF PlainTypes, OnPrivmsg
<1>3. ASSUME CheckForUrl(r) PROVE PlainTypes'
  BY <1>0, <1>3, AfterValues DEF PlainTypes, CheckForUrl
<1>4. ASSUME HttpRequest(r) PROVE PlainTypes'
  BY <1>0, <1>4 DEF PlainTypes, HttpRequest
<1>5. ASSUME ReceiveChunk(r) PROVE PlainTypes'
<2>1. PICK chunk \in {"plain", "error", "title", "long"} :
         ark' = [ark EXCEPT ![r] = WriteCallback(@, chunk)]
  BY <1>5 DEF ReceiveChunk
<2>2. WriteCallback(ark[r], chunk) \in [tries : 0..3, found : BOOLEAN, titles : Nat]
  BY <1>0, ArkTypes DEF PlainTypes, Arks
<2>3. ark' \in [Readers -> [tries : 0..3, found : BOOLEAN, titles : Nat]]
  BY <1>0, <2>1, <2>2 DEF PlainTypes
<2> QED
  BY <1>0, <1>5, <2>3 DEF PlainTypes, ReceiveChunk
<1>6. ASSUME RequestEnds(r) PROVE PlainTypes'
  BY <1>0, <1>6, AfterValues DEF PlainTypes, RequestEnds
<1>7. ASSUME Retry(r) PROVE PlainTypes'
<2>1. ark[r].tries \in 0..3 /\ ark[r].tries < 3
  BY <1>0, <1>7 DEF Typed, Handling, Retry, PlainTypes
<2>2. Tried(ark[r]) \in [tries : 0..3, found : BOOLEAN, titles : Nat]
  BY <1>0, <2>1, ArkTypes DEF PlainTypes, Arks
<2>3. ark' \in [Readers -> [tries : 0..3, found : BOOLEAN, titles : Nat]]
  BY <1>0, <1>7, <2>2 DEF PlainTypes, Retry
<2> QED
  BY <1>0, <1>7, <2>3 DEF PlainTypes, Retry
<1>8. ASSUME Measure(r) PROVE PlainTypes'
<2>1. Resume(r, FALSE) \in {"add", "append"}
  BY <1>0, ResumeValues
<2>2. CASE urls = Null
  BY <1>0, <1>8, <2>1, <2>2 DEF PlainTypes, Measure
<2>3. CASE urls # Null
<3>1. Visible \in Nat
  BY <1>0, <2>3, FirstNul DEF ListTypes, Visible
<3> QED
  BY <1>0, <1>8, <2>3, <3>1 DEF PlainTypes, Measure
<2> QED
  BY <2>2, <2>3
<1>9. ASSUME Save(r) PROVE PlainTypes'
<2>1. Visible \in Nat
  BY <1>0, <1>9, FirstNul DEF ListTypes, Visible, Typed, Holding, InCheckUrl, Save
<2>2. CASE Visible > saved[r]
  BY <1>0, <1>9, <2>2 DEF PlainTypes, Save
<2>3. CASE ~(Visible > saved[r])
<3>1. at' \in [Readers -> Nat \ {0}]
  BY <1>0, <1>9, <2>3, AtTypes DEF PlainTypes, Save
<3>2. saved' \in [Readers -> Nat]
  BY <1>0, <1>9, <2>1, <2>3 DEF PlainTypes, Save
<3> QED
  BY <1>0, <1>9, <2>3, <3>1, <3>2 DEF PlainTypes, Save
<2> QED
  BY <2>2, <2>3
<1>10. ASSUME Token(r) PROVE PlainTypes'
<2>1. at' \in [Readers -> Nat \ {0}]
  BY <1>0, <1>10, AtTypes DEF PlainTypes, Token
<2>2. pc' = pc \/ pc' = [pc EXCEPT ![r] = "restore"]
  BY <1>10 DEF Token
<2> QED
  BY <1>0, <1>10, <2>1, <2>2 DEF PlainTypes, Token
<1>11. ASSUME Restore(r) PROVE PlainTypes'
<2>1. Resume(r, TRUE) \in {"request", "idle", "weather"}
  BY <1>0, ResumeValues, AfterValues
<2>2. at' \in [Readers -> Nat \ {0}]
  BY <1>0, <1>11, AtTypes DEF PlainTypes, Restore
<2>3. pc' = pc \/ pc' = [pc EXCEPT ![r] = Resume(r, TRUE)]
  BY <1>11 DEF Restore
<2> QED
  BY <1>0, <1>11, <2>1, <2>2, <2>3 DEF PlainTypes, Restore
<1>12. ASSUME AddUrl(r) PROVE PlainTypes'
  BY <1>0, <1>12, AfterValues DEF PlainTypes, AddUrl
<1>13. ASSUME AppendToFile(r) PROVE PlainTypes'
  BY <1>0, <1>13 DEF PlainTypes, AppendToFile
<1>14. ASSUME FreeUrls(r) PROVE PlainTypes'
<2>1. CASE Undefined
  BY <1>0, <2>1 DEF PlainTypes
<2>2. CASE ~Undefined
<3>1. at' \in [Readers -> Nat \ {0}]
  BY <1>0, <1>14, <2>2, AtTypes DEF PlainTypes, FreeUrls
<3> QED
  BY <1>0, <1>14, <2>2, <3>1 DEF PlainTypes, FreeUrls
<2> QED
  BY <2>1, <2>2
<1>15. ASSUME GetUrls(r) PROVE PlainTypes'
<2>1. CASE Undefined
  BY <1>0, <2>1 DEF PlainTypes
<2>2. CASE at' = [at EXCEPT ![r] = @ + 1] /\ ~Undefined
  BY <1>0, <1>15, <2>2 DEF PlainTypes, GetUrls
<2>3. CASE Goto(r, After("add")) /\ ~Undefined
  BY <1>0, <1>15, <2>3, AfterValues DEF PlainTypes, GetUrls
<2> QED
  BY <1>15, <2>1, <2>2, <2>3 DEF GetUrls
<1> QED
  BY <1>1, <1>2, <1>3, <1>4, <1>5, <1>6, <1>7, <1>8, <1>9, <1>10, <1>11, <1>12,
     <1>13, <1>14, <1>15

LEMMA HandlingSteps ==
    ASSUME Typed, NEW r \in Readers
    PROVE  /\ GotPrivmsg(r) => Handling'
           /\ OnPrivmsg(r) => Handling'
           /\ CheckForUrl(r) => Handling'
           /\ HttpRequest(r) => Handling'
           /\ ReceiveChunk(r) => Handling'
           /\ RequestEnds(r) => Handling'
           /\ Retry(r) => Handling'
           /\ Measure(r) => Handling'
           /\ Save(r) => Handling'
           /\ Token(r) => Handling'
           /\ Restore(r) => Handling'
           /\ AddUrl(r) => Handling'
           /\ AppendToFile(r) => Handling'
           /\ FreeUrls(r) => Handling'
           /\ GetUrls(r) => Handling'
<1> USE DEF Goto, Undefined, list, setup, call, answers
<1>0. Handling /\ PlainTypes
  BY TypeParts DEF Typed
<1>1. ASSUME GotPrivmsg(r) PROVE Handling'
<2>1. PICK m \in Messages : text' = [text EXCEPT ![r] = m]
  BY <1>1 DEF GotPrivmsg
<2>2. m.line \in STRING
  BY MessagesAssumption
<2>3. text'[r] = m /\ (\A u \in Readers \ {r} : text'[u] = text[u])
  BY <1>0, <2>1 DEF PlainTypes
<2>4. \A u \in Readers \ {r} : pc'[u] = pc[u] /\ ark'[u] = ark[u]
  BY <1>0, <1>1 DEF PlainTypes, GotPrivmsg
<2>5. pc'[r] # "retry"
  BY <1>0, <1>1 DEF PlainTypes, GotPrivmsg
<2> QED
  BY <1>0, <2>2, <2>3, <2>4, <2>5 DEF Handling
\* A step that changes where the reader is, and for the rest no more than a
\* link in a text or how many titles were announced.
<1>2. ASSUME NEW step, Goto(r, step), step # "retry", pc[r] # "idle",
             \A u \in Readers : text'[u].line = text[u].line,
             \A u \in Readers \ {r} : ark'[u] = ark[u]
      PROVE  Handling'
<2>1. pc'[r] = step /\ \A u \in Readers \ {r} : pc'[u] = pc[u]
  BY <1>0, <1>2 DEF PlainTypes
<2> QED
  BY <1>0, <1>2, <2>1 DEF Handling
<1>3. ASSUME OnPrivmsg(r) PROVE Handling'
<2>1. text' = text \/ text' = [text EXCEPT ![r] = FirstWord(text[r])]
  BY <1>3 DEF OnPrivmsg
<2>2. FirstWord(text[r]).line = text[r].line
  BY <1>0, FirstWordIs DEF PlainTypes
<2>3. \A u \in Readers : text'[u].line = text[u].line
  BY <1>0, <2>1, <2>2 DEF PlainTypes
<2> QED
  BY <1>2, <1>3, <2>3, AfterValues DEF OnPrivmsg
<1>4. ASSUME CheckForUrl(r) PROVE Handling'
  BY <1>2, <1>4, AfterValues DEF CheckForUrl
<1>5. ASSUME HttpRequest(r) PROVE Handling'
  BY <1>2, <1>5 DEF HttpRequest
<1>6. ASSUME ReceiveChunk(r) PROVE Handling'
<2>1. \A u \in Readers \ {r} : ark'[u] = ark[u]
  BY <1>0, <1>6 DEF PlainTypes, ReceiveChunk
<2> QED
  BY <1>0, <1>6, <2>1 DEF Handling, ReceiveChunk
<1>7. ASSUME RequestEnds(r) PROVE Handling'
<2>1. CASE Goto(r, "retry") /\ TriesAgain(ark[r])
  BY <1>0, <1>7, <2>1 DEF PlainTypes, Handling, RequestEnds, TriesAgain
<2>2. CASE Goto(r, "add")
  BY <1>2, <1>7, <2>2 DEF RequestEnds
<2> QED
  BY <1>7, <2>1, <2>2, AfterValues DEF RequestEnds
<1>8. ASSUME Retry(r) PROVE Handling'
<2>1. \A u \in Readers \ {r} : ark'[u] = ark[u]
  BY <1>0, <1>8 DEF PlainTypes, Retry
<2> QED
  BY <1>2, <1>8, <2>1 DEF Retry
<1>9. ASSUME Measure(r) PROVE Handling'
<2>1. Resume(r, FALSE) \in {"add", "append"}
  BY ResumeValues DEF Typed
<2> QED
  BY <1>2, <1>9, <2>1 DEF Measure
<1>10. ASSUME Save(r) PROVE Handling'
<2>1. CASE Undefined
  BY <1>0, <2>1 DEF Handling
<2>2. CASE ~Undefined
  BY <1>2, <1>10, <2>2 DEF Save
<2> QED
  BY <2>1, <2>2
<1>11. ASSUME Token(r) PROVE Handling'
<2>1. CASE UNCHANGED pc
  BY <1>0, <1>11, <2>1 DEF Handling, Token
<2>2. CASE Goto(r, "restore")
  BY <1>2, <1>11, <2>2 DEF Token
<2> QED
  BY <1>11, <2>1, <2>2 DEF Token
<1>12. ASSUME Restore(r) PROVE Handling'
<2>1. CASE UNCHANGED pc
  BY <1>0, <1>12, <2>1 DEF Handling, Restore
<2>2. CASE Goto(r, Resume(r, TRUE))
<3>1. Resume(r, TRUE) \in {"request", "idle", "weather"}
  BY ResumeValues, AfterValues DEF Typed
<3> QED
  BY <1>2, <1>12, <2>2, <3>1 DEF Restore
<2> QED
  BY <1>12, <2>1, <2>2 DEF Restore
<1>13. ASSUME AddUrl(r) PROVE Handling'
  BY <1>2, <1>13, AfterValues DEF AddUrl
<1>14. ASSUME AppendToFile(r) PROVE Handling'
  BY <1>2, <1>14 DEF AppendToFile
<1>15. ASSUME FreeUrls(r) PROVE Handling'
<2>1. CASE Undefined
  BY <1>0, <2>1 DEF Handling
<2>2. CASE ~Undefined
  BY <1>2, <1>15, <2>2 DEF FreeUrls
<2> QED
  BY <2>1, <2>2
<1>16. ASSUME GetUrls(r) PROVE Handling'
<2>1. CASE UNCHANGED <<pc, text, ark>>
  BY <1>0, <2>1 DEF Handling
<2>2. CASE Goto(r, After("add")) /\ UNCHANGED <<text, ark>>
  BY <1>2, <1>16, <2>2, AfterValues DEF GetUrls
<2> QED
  BY <1>16, <2>1, <2>2 DEF GetUrls
<1> QED
  BY <1>1, <1>3, <1>4, <1>5, <1>6, <1>7, <1>8, <1>9, <1>10, <1>11, <1>12,
     <1>13, <1>14, <1>15, <1>16

\* The steps of check_url, and those that build the list.
LEMMA MeasureTyped == ASSUME Typed, NEW r \in Readers, Measure(r) PROVE Typed'
<1>1. PlainTypes' /\ Handling'
  BY PlainSteps, HandlingSteps
<1>2. CASE urls = Null
<2>1. Resume(r, FALSE) \in {"add", "append"}
  BY ResumeValues DEF Typed
<2> QED
  BY <1>1, <1>2, <2>1, ListAlone DEF Measure, Typed, TypeOK
<1>3. CASE urls # Null
<2>1. pc' = [pc EXCEPT ![r] = "save"] /\ UNCHANGED <<file, urls, nul, at>>
      /\ \A u \in Readers \ {r} : saved'[u] = saved[u]
  BY <1>3 DEF Measure, Goto, Typed, TypeOK
<2>2. ListTypes'
  BY <2>1 DEF Typed, TypeOK, ListTypes
<2>3. Within'
  BY <2>1 DEF Typed, TypeOK, Within
<2>4. Holding'
  BY <1>3, <2>1 DEF Typed, TypeOK, Holding, InCheckUrl
<2> QED
  BY <1>1, <2>2, <2>3, <2>4, TypeParts, PTL DEF Typed
<1> QED
  BY <1>2, <1>3

LEMMA SaveTyped == ASSUME IInv, NEW r \in Readers, Save(r) PROVE Typed'
<1>0. Typed /\ TypeOK
  BY DEF IInv, Typed
<1>1. PlainTypes' /\ Handling'
  BY <1>0, PlainSteps, HandlingSteps
<1>2. CASE Undefined
  BY <1>2, NothingDone DEF IInv
<1>3. CASE ~Undefined
<2>1. urls # Null
  BY <1>0 DEF Typed, Holding, InCheckUrl, Save
<2>2. Visible \in 1..Len(urls) /\ 1 \in 1..Len(urls)
<3>1. Len(urls) \in Nat /\ nul \subseteq 1..Len(urls) /\ nul # {}
  BY <1>0, <2>1, LenProperties DEF TypeOK
<3>2. Visible \in 1..Len(urls)
  BY <3>1, FirstNul DEF Visible
<3> QED
  BY <3>1, <3>2
<2>3. /\ pc' = [pc EXCEPT ![r] = "token"] /\ UNCHANGED <<file, urls, nul>>
      /\ saved' = [saved EXCEPT ![r] = Visible] /\ at' = [at EXCEPT ![r] = 1]
  BY <1>3 DEF Save, Goto, list
<2>4. ListTypes'
  BY <1>0, <2>3 DEF TypeOK, ListTypes
<2>5. Within'
  BY <1>0, <2>2, <2>3 DEF TypeOK, Within
<2>6. Holding'
  BY <1>0, <2>1, <2>3 DEF Typed, TypeOK, Holding, InCheckUrl
<2> QED
  BY <1>1, <2>4, <2>5, <2>6, TypeParts, PTL DEF Typed
<1> QED
  BY <1>2, <1>3

LEMMA TokenTyped == ASSUME Typed, NEW r \in Readers, Token(r) PROVE Typed'
<1>0. TypeOK
  BY DEF Typed
<1>1. PlainTypes' /\ Handling'
  BY PlainSteps, HandlingSteps
<1>2. urls # Null /\ urls \in Seq(STRING) /\ at[r] \in 1..Len(urls)
  BY <1>0 DEF Typed, TypeOK, Holding, InCheckUrl, Token
<1>3. UNCHANGED <<file, urls, saved>> /\ nul' = nul \cup {at[r]}
  BY DEF Token
<1>4. ListTypes'
  BY <1>0, <1>2, <1>3 DEF TypeOK, ListTypes
<1>5. \A u \in Readers \ {r} : pc'[u] = pc[u] /\ at'[u] = at[u]
  BY <1>0 DEF TypeOK, Token, Goto
<1>6. at'[r] \in 1..Len(urls)
  BY <1>0, <1>2, LenProperties DEF TypeOK, Token
<1>7. Within'
  BY <1>0, <1>3, <1>5, <1>6 DEF TypeOK, Within, Token
<1>8. Holding'
  BY <1>2, <1>3, <1>5 DEF Typed, Holding, InCheckUrl
<1> QED
  BY <1>1, <1>4, <1>7, <1>8, TypeParts, PTL DEF Typed

LEMMA RestoreTyped == ASSUME Typed, NEW r \in Readers, Restore(r) PROVE Typed'
<1>0. TypeOK
  BY DEF Typed
<1>1. PlainTypes' /\ Handling'
  BY PlainSteps, HandlingSteps
<1>2. urls # Null /\ urls \in Seq(STRING) /\ Len(urls) \in Nat
      /\ at[r] \in 1..Len(urls) /\ saved[r] \in 1..Len(urls)
  BY <1>0, LenProperties DEF Typed, TypeOK, Holding, InCheckUrl, Restore
<1>3. UNCHANGED <<file, urls, saved>>
  BY DEF Restore
<1>4. \A u \in Readers \ {r} : pc'[u] = pc[u] /\ at'[u] = at[u]
  BY <1>0 DEF TypeOK, Restore, Goto
<1>5. nul' \subseteq 1..Len(urls) /\ Len(urls) \in nul'
<2>1. CASE at[r] < saved[r]
  BY <1>0, <1>2, <2>1 DEF TypeOK, Restore, Restored
<2>2. CASE ~(at[r] < saved[r])
  BY <1>0, <1>2, <2>2 DEF TypeOK, Restore
<2> QED
  BY <2>1, <2>2
<1>6. ListTypes'
  BY <1>0, <1>2, <1>3, <1>5 DEF TypeOK, ListTypes
<1>7. pc'[r] \in {"token", "restore"} => at'[r] \in 1..Len(urls)
<2>1. CASE at[r] < saved[r]
  BY <1>0, <1>2, <2>1 DEF TypeOK, Restore
<2>2. CASE ~(at[r] < saved[r])
<3>1. Resume(r, TRUE) \in {"request", "idle", "weather"}
  BY <1>0, ResumeValues, AfterValues
<3> QED
  BY <1>0, <2>2, <3>1 DEF TypeOK, Restore, Goto
<2> QED
  BY <2>1, <2>2
<1>8. Within'
  BY <1>0, <1>2, <1>3, <1>4, <1>7 DEF TypeOK, Within
<1>9. Holding'
  BY <1>2, <1>3, <1>4 DEF Typed, Holding, InCheckUrl
<1> QED
  BY <1>1, <1>6, <1>8, <1>9, TypeParts, PTL DEF Typed

LEMMA FreeTyped == ASSUME IInv, NEW r \in Readers, FreeUrls(r) PROVE Typed'
<1>0. Typed /\ TypeOK
  BY DEF IInv, Typed
<1>1. PlainTypes' /\ Handling'
  BY <1>0, PlainSteps, HandlingSteps
<1>2. CASE Undefined
  BY <1>2, NothingDone DEF IInv
<1>3. CASE ~Undefined
<2>1. /\ pc' = [pc EXCEPT ![r] = "read"] /\ UNCHANGED <<file, saved>>
      /\ urls' = Null /\ nul' = {}
  BY <1>3 DEF FreeUrls, Goto
\* Somebody in check_url would have a list, which is not freed then.
<2>2. \A u \in Readers : ~InCheckUrl(u)'
  BY <1>0, <1>3, <2>1 DEF Typed, TypeOK, Holding, InCheckUrl, FreeUrls, OthersUse, Using
<2>3. ListTypes'
  BY <1>0, <2>1 DEF TypeOK, ListTypes
<2>4. Within' /\ Holding'
  BY <2>2 DEF InCheckUrl, Within, Holding
<2> QED
  BY <1>1, <2>3, <2>4, TypeParts, PTL DEF Typed
<1> QED
  BY <1>2, <1>3

\* The branches of get_urls.
ReadsLine(r) ==
    /\ pc[r] = "read"
    /\ ~OthersUse(r)
    /\ at[r] <= Len(file)
    /\ urls' = Append(IF urls = Null THEN <<>> ELSE urls, file[at[r]])
    /\ nul' = {Len(urls')}
    /\ at' = [at EXCEPT ![r] = @ + 1]
    /\ UNCHANGED <<file, overlap, setup, pc, text, caller, saved, answers,
                   received, undefined>>

EndsReading(r) ==
    /\ pc[r] = "read"
    /\ at[r] > Len(file)
    /\ Goto(r, After("add"))
    /\ UNCHANGED <<list, setup, text, call, answers, received, undefined>>

LEMMA GetUrlsBranches ==
    ASSUME NEW r \in Readers, GetUrls(r)
    PROVE  Undefined \/ ReadsLine(r) \/ EndsReading(r)
  BY DEF GetUrls, ReadsLine, EndsReading

\* What the list is with the next line of the file.
LEMMA LineRead ==
    ASSUME IInv, NEW r \in Readers, ReadsLine(r)
    PROVE  /\ urls' \in Seq(STRING) /\ urls' # <<>> /\ Len(urls') \in Nat \ {0}
           /\ Len(urls') = at[r] /\ Begins(urls', file)
           /\ file \in Seq(STRING) /\ at'[r] = at[r] + 1
<1> DEFINE Old == IF urls = Null THEN <<>> ELSE urls
<1>1. TypeOK /\ file \in Seq(STRING) /\ at[r] \in Nat \ {0}
  BY DEF IInv, Typed, TypeOK, ListInv, Rebuilt, Rebuilding, ReadsLine
<1>2. at[r] \in 1..Len(file) /\ file[at[r]] \in STRING
  BY <1>1, LenProperties DEF ReadsLine
<1>3. Old \in Seq(STRING) /\ Len(Old) = at[r] - 1
      /\ \A i \in 1..Len(Old) : Old[i] = file[i]
<2>1. CASE urls = Null
  BY <1>1, <2>1 DEF IInv, ListInv, Rebuilt, ReadsLine
<2>2. CASE urls # Null
  BY <1>1, <2>2, LenProperties DEF TypeOK, IInv, ListInv, Rebuilt, Begins, ReadsLine
<2> QED
  BY <2>1, <2>2
<1>4. urls' = Append(Old, file[at[r]])
  BY DEF ReadsLine
<1> HIDE DEF Old
<1>5. urls' \in Seq(STRING) /\ urls' # <<>> /\ Len(urls') = Len(Old) + 1
      /\ urls'[Len(Old) + 1] = file[at[r]]
      /\ \A i \in 1..Len(Old) : urls'[i] = Old[i]
  BY <1>2, <1>3, <1>4, AppendLine
<1>6. Len(urls') = at[r]
  BY <1>1, <1>3, <1>5
<1>7. \A i \in 1..Len(urls') : urls'[i] = file[i]
  BY <1>1, <1>3, <1>5, <1>6
<1>8. Begins(urls', file)
  BY <1>2, <1>6, <1>7 DEF Begins
<1>9. at'[r] = at[r] + 1
  BY <1>1 DEF TypeOK, ReadsLine
<1> QED
  BY <1>1, <1>5, <1>6, <1>8, <1>9

LEMMA GetUrlsTyped == ASSUME IInv, NEW r \in Readers, GetUrls(r) PROVE Typed'
<1>0. Typed /\ TypeOK
  BY DEF IInv, Typed
<1>1. PlainTypes' /\ Handling'
  BY <1>0, PlainSteps, HandlingSteps
<1>2. CASE Undefined
  BY <1>2, NothingDone DEF IInv
<1>3. CASE ReadsLine(r)
<2>1. urls' \in Seq(STRING) /\ urls' # <<>> /\ Len(urls') \in Nat \ {0}
  BY <1>3, LineRead
<2>5. nul' = {Len(urls')} /\ UNCHANGED file
  BY <1>3 DEF ReadsLine
<2>2. ListTypes'
  BY <1>0, <2>1, <2>5, FilesAssumption DEF TypeOK, ListTypes
<2>3. \A u \in Readers : ~InCheckUrl(u)'
  BY <1>3 DEF ReadsLine, OthersUse, Using, InCheckUrl
<2>4. Within' /\ Holding'
  BY <2>3 DEF InCheckUrl, Within, Holding
<2> QED
  BY <1>1, <2>2, <2>4, TypeParts, PTL DEF Typed
<1>4. CASE EndsReading(r)
  BY <1>0, <1>1, <1>4, ListAlone, AfterValues DEF EndsReading, TypeOK, list, call
<1> QED
  BY <1>2, <1>3, <1>4, GetUrlsBranches

LEMMA TypedStep == ASSUME IInv, Next PROVE Typed'
<1>0. Typed /\ TypeOK
  BY DEF IInv, Typed
<1>1. PICK r \in Readers :
         \/ GotPrivmsg(r) \/ OnPrivmsg(r) \/ CheckForUrl(r)
         \/ HttpRequest(r) \/ ReceiveChunk(r) \/ RequestEnds(r) \/ Retry(r)
         \/ Measure(r) \/ Save(r) \/ Token(r) \/ Restore(r)
         \/ AddUrl(r) \/ AppendToFile(r) \/ FreeUrls(r) \/ GetUrls(r)
  BY Steps
<1> USE <1>0 DEF list, call
<1>2. CASE GotPrivmsg(r)
  BY <1>2, PlainSteps, HandlingSteps, ListAlone DEF GotPrivmsg, TypeOK
<1>3. CASE OnPrivmsg(r)
  BY <1>3, PlainSteps, HandlingSteps, ListAlone, AfterValues DEF OnPrivmsg, TypeOK
<1>4. CASE CheckForUrl(r)
  BY <1>4, PlainSteps, HandlingSteps, ListAlone, AfterValues DEF CheckForUrl, TypeOK
<1>5. CASE HttpRequest(r)
  BY <1>5, PlainSteps, HandlingSteps, ListAlone DEF HttpRequest, TypeOK
<1>6. CASE ReceiveChunk(r)
<2>1. PlainTypes' /\ Handling'
  BY <1>6, PlainSteps, HandlingSteps
<2>2. UNCHANGED <<file, urls, nul, saved, at, pc>>
  BY <1>6 DEF ReceiveChunk
<2>3. ListTypes' /\ Within' /\ Holding'
  BY <2>2 DEF TypeOK, ListTypes, Within, Typed, Holding, InCheckUrl
<2> QED
  BY <2>1, <2>3, TypeParts, PTL DEF Typed
<1>7. CASE RequestEnds(r)
  BY <1>7, PlainSteps, HandlingSteps, ListAlone, AfterValues DEF RequestEnds, TypeOK
<1>8. CASE Retry(r)
  BY <1>8, PlainSteps, HandlingSteps, ListAlone DEF Retry, TypeOK
<1>9. CASE AddUrl(r)
  BY <1>9, PlainSteps, HandlingSteps, ListAlone, AfterValues DEF AddUrl, TypeOK
<1>10. CASE AppendToFile(r)
<2>1. text[r].line \in STRING
  BY <1>10 DEF Typed, Handling, AppendToFile
<2>2. file' \in Seq(STRING)
<3> DEFINE Old == IF file = Null THEN <<>> ELSE file
<3>1. Old \in Seq(STRING)
  BY EmptySeq DEF TypeOK
<3>2. file' = Append(Old, text[r].line)
  BY <1>10 DEF AppendToFile
<3> QED
  BY <2>1, <3>1, <3>2, AppendLine
<2> QED
  BY <1>10, <2>2, PlainSteps, HandlingSteps, ListAlone DEF AppendToFile
<1> QED
  BY <1>1, <1>2, <1>3, <1>4, <1>5, <1>6, <1>7, <1>8, <1>9, <1>10,
     MeasureTyped, SaveTyped, TokenTyped, RestoreTyped, FreeTyped, GetUrlsTyped
-----------------------------------------------------------------------------
(* The list. *)

LEMMA ListInit == ASSUME Init PROVE ListInv
<1>1. \A r \in Readers : pc[r] = "idle"
  BY DEF Init
<1>2. urls = Null \/ urls = file
  BY DEF Init
<1>3. urls # Null => nul = {Len(urls)}
  BY DEF Init
<1> QED
  BY <1>1, <1>2, <1>3 DEF ListInv, Rebuilt, Complete, Sole, OneUser, CutsUndone,
     Uncut, Rebuilding, Using

\* A step of a reader that neither uses the list nor begins to.
LEMMA ListKept ==
    ASSUME TypeOK, ListInv, UNCHANGED <<list, saved, at>>,
           NEW r \in Readers, NEW step, Goto(r, step),
           pc[r] \notin {"save", "token", "restore", "free", "read"},
           step \notin {"save", "token", "restore", "free", "read"}
    PROVE  ListInv'
<1>1. pc'[r] = step /\ \A u \in Readers \ {r} : pc'[u] = pc[u]
  BY DEF TypeOK, Goto
<1>2. \A u \in Readers : pc'[u] \in {"save", "token", "restore", "free", "read"} =>
         pc'[u] = pc[u]
  BY <1>1
<1>3. \A u \in Readers : pc[u] \in {"save", "token", "restore", "free", "read"} =>
         pc'[u] = pc[u]
  BY <1>1
<1>4. Rebuilt'
  BY <1>2 DEF ListInv, Rebuilt, Rebuilding, Begins, list
<1>5. Complete'
  BY <1>3 DEF ListInv, Complete, Rebuilding, list
<1>6. Sole'
  BY <1>2, <1>3 DEF ListInv, Sole, OneUser, CutsUndone, Uncut, Using, list
<1> QED
  BY <1>4, <1>5, <1>6 DEF ListInv

LEMMA MeasureList == ASSUME IInv, NEW r \in Readers, Measure(r) PROVE ListInv'
<1>0. TypeOK /\ ListInv
  BY DEF IInv, Typed
<1>1. CASE urls = Null
<2>1. Resume(r, FALSE) \in {"add", "append"}
  BY <1>0, ResumeValues
<2> QED
  BY <1>0, <1>1, <2>1, ListKept DEF Measure, list
<1>2. CASE urls # Null
<2>1. /\ pc' = [pc EXCEPT ![r] = "save"] /\ UNCHANGED <<file, urls, nul, at>>
      /\ saved' = [saved EXCEPT ![r] = Visible]
      /\ overlap' = (overlap \/ OthersUse(r))
      /\ pc[r] = "measure"
  BY <1>2 DEF Measure, Goto
<2>2. pc'[r] = "save" /\ \A u \in Readers \ {r} : pc'[u] = pc[u] /\ saved'[u] = saved[u]
  BY <1>0, <2>1 DEF TypeOK
<2>3. Rebuilt'
  BY <1>0, <2>1, <2>2 DEF ListInv, Rebuilt, Rebuilding, Begins
<2>4. Complete'
  BY <1>0, <2>1, <2>2 DEF ListInv, Complete, Rebuilding
<2>5. Sole'
<3>1. SUFFICES ASSUME ~overlap, \A u \in Readers \ {r} : ~Using(u)
               PROVE  (OneUser /\ CutsUndone /\ Uncut)'
  BY <2>1 DEF Sole, OthersUse
<3>2. OneUser'
  BY <2>2, <3>1 DEF OneUser, Using
<3>3. CutsUndone'
  BY <2>2, <3>1 DEF CutsUndone, Using
<3>4. Uncut'
  BY <1>0, <2>1, <2>2, <3>1 DEF ListInv, Sole, Uncut, Using
<3> QED
  BY <3>2, <3>3, <3>4
<2> QED
  BY <2>3, <2>4, <2>5 DEF ListInv
<1> QED
  BY <1>1, <1>2

LEMMA SaveList == ASSUME IInv, NEW r \in Readers, Save(r) PROVE ListInv'
<1>0. TypeOK /\ ListInv
  BY DEF IInv, Typed
<1>1. CASE Undefined
  BY <1>1, NothingDone DEF IInv
<1>2. CASE ~Undefined
<2>1. /\ pc' = [pc EXCEPT ![r] = "token"] /\ UNCHANGED list
      /\ saved' = [saved EXCEPT ![r] = Visible] /\ at' = [at EXCEPT ![r] = 1]
      /\ pc[r] = "save"
  BY <1>2 DEF Save, Goto
<2>2. /\ pc'[r] = "token" /\ saved'[r] = Visible
      /\ \A u \in Readers \ {r} : pc'[u] = pc[u] /\ saved'[u] = saved[u] /\ at'[u] = at[u]
  BY <1>0, <2>1 DEF TypeOK
<2>3. Rebuilt'
  BY <1>0, <2>1, <2>2 DEF ListInv, Rebuilt, Rebuilding, Begins, list
<2>4. Complete'
  BY <1>0, <2>1, <2>2 DEF ListInv, Complete, Rebuilding, list
<2>5. ASSUME ~overlap PROVE (OneUser /\ CutsUndone /\ Uncut)'
<3>1. \A u \in Readers \ {r} : ~Using(u)
  BY <1>0, <2>1, <2>5 DEF ListInv, Sole, OneUser, Using
<3>2. OneUser'
  BY <2>2, <3>1 DEF OneUser, Using
<3>3. urls # Null /\ Len(urls) \in Nat
  BY <1>0, <2>1, LenProperties DEF IInv, Typed, Holding, InCheckUrl, TypeOK
<3>4. nul = {Len(urls)}
  BY <1>0, <2>1, <2>5, <3>1, <3>3 DEF ListInv, Sole, Uncut, Using
<3>5. Visible = Len(urls)
  BY <3>3, <3>4, OnlyNul DEF Visible
<3>6. CutsUndone'
  BY <2>1, <2>2, <3>1, <3>5 DEF CutsUndone, Using, list
<3>7. Uncut'
  BY <2>2 DEF Uncut
<3> QED
  BY <3>2, <3>6, <3>7
<2>6. Sole'
  BY <2>1, <2>5 DEF Sole, list
<2> QED
  BY <2>3, <2>4, <2>6 DEF ListInv
<1> QED
  BY <1>1, <1>2

LEMMA TokenList == ASSUME IInv, NEW r \in Readers, Token(r) PROVE ListInv'
<1>0. TypeOK /\ ListInv
  BY DEF IInv, Typed
<1>1. /\ UNCHANGED <<file, urls, overlap, saved>> /\ nul' = nul \cup {at[r]}
      /\ pc[r] = "token"
  BY DEF Token
<1>2. /\ \A u \in Readers \ {r} : pc'[u] = pc[u] /\ at'[u] = at[u]
      /\ pc'[r] = "token" \/ (pc'[r] = "restore" /\ at'[r] = 1)
  BY <1>0 DEF TypeOK, Token, Goto
<1>3. Rebuilt'
  BY <1>0, <1>1, <1>2 DEF ListInv, Rebuilt, Rebuilding, Begins
<1>4. Complete'
  BY <1>0, <1>1, <1>2 DEF ListInv, Complete, Rebuilding
<1>5. ASSUME ~overlap PROVE (OneUser /\ CutsUndone /\ Uncut)'
<2>1. \A u \in Readers \ {r} : ~Using(u)
  BY <1>0, <1>1, <1>5 DEF ListInv, Sole, OneUser, Using
<2>2. OneUser'
  BY <1>2, <2>1 DEF OneUser, Using
<2>3. saved[r] = Len(urls) /\ nul \cup {at[r]} \subseteq 1..Len(urls)
  BY <1>0, <1>1, <1>5 DEF ListInv, Sole, CutsUndone, IInv, Typed, TypeOK, Holding, InCheckUrl
<2>4. CutsUndone'
  BY <1>1, <1>2, <2>1, <2>3 DEF CutsUndone, Using
<2>5. Uncut'
  BY <1>2 DEF Uncut
<2> QED
  BY <2>2, <2>4, <2>5
<1>6. Sole'
  BY <1>1, <1>5 DEF Sole
<1> QED
  BY <1>3, <1>4, <1>6 DEF ListInv

LEMMA RestoreList == ASSUME IInv, NEW r \in Readers, Restore(r) PROVE ListInv'
<1>0. TypeOK /\ ListInv
  BY DEF IInv, Typed
<1>1. UNCHANGED <<file, urls, overlap, saved>> /\ pc[r] = "restore"
  BY DEF Restore
<1>2. urls # Null /\ Len(urls) \in Nat /\ at[r] \in 1..Len(urls)
      /\ saved[r] \in 1..Len(urls) /\ nul \subseteq 1..Len(urls) /\ Len(urls) \in nul
  BY <1>0, <1>1, LenProperties DEF IInv, Typed, TypeOK, Holding, InCheckUrl
<1>3. Resume(r, TRUE) \in {"request", "idle", "weather"}
  BY <1>0, ResumeValues, AfterValues
<1>4. \A u \in Readers \ {r} : pc'[u] = pc[u] /\ at'[u] = at[u]
  BY <1>0 DEF TypeOK, Restore, Goto
<1>5. \/ at[r] < saved[r] /\ pc'[r] = "restore" /\ at'[r] = at[r] + 1 /\ nul' = nul \ {at[r]}
      \/ at[r] >= saved[r] /\ pc'[r] \in {"request", "idle", "weather"}
         /\ nul' = nul \cup {saved[r]}
<2>1. CASE at[r] < saved[r]
  BY <1>0, <1>1, <2>1 DEF TypeOK, Restore, Restored
<2>2. CASE ~(at[r] < saved[r])
<3>1. pc' = [pc EXCEPT ![r] = Resume(r, TRUE)] /\ nul' = nul \cup {saved[r]}
  BY <2>2 DEF Restore, Goto
<3>2. pc'[r] = Resume(r, TRUE)
  BY <1>0, <3>1 DEF TypeOK
<3>3. at[r] >= saved[r]
  BY <1>2, <2>2
<3> QED
  BY <1>3, <3>1, <3>2, <3>3
<2> QED
  BY <2>1, <2>2
<1>6. pc'[r] \in {"restore", "request", "idle", "weather"}
  BY <1>5
<1>7. Rebuilt'
  BY <1>0, <1>1, <1>4, <1>6 DEF ListInv, Rebuilt, Rebuilding, Begins
<1>8. Complete'
  BY <1>0, <1>1, <1>4, <1>6 DEF ListInv, Complete, Rebuilding
<1>9. ASSUME ~overlap PROVE (OneUser /\ CutsUndone /\ Uncut)'
<2>1. \A u \in Readers \ {r} : ~Using(u)
  BY <1>0, <1>1, <1>9 DEF ListInv, Sole, OneUser, Using
<2>2. OneUser'
  BY <1>4, <2>1 DEF OneUser, Using
<2>3. saved[r] = Len(urls) /\ nul \subseteq at[r]..Len(urls)
  BY <1>0, <1>1, <1>9 DEF ListInv, Sole, CutsUndone
<2>4. ASSUME pc'[r] = "restore" PROVE nul' \subseteq at'[r]..Len(urls)
<3>1. at'[r] = at[r] + 1 /\ nul' = nul \ {at[r]}
  BY <1>5, <2>4
<3>2. \A i \in at[r]..Len(urls) : i # at[r] => i \in (at[r] + 1)..Len(urls)
  BY <1>2
<3> QED
  BY <2>3, <3>1, <3>2
<2>5. CutsUndone'
  BY <1>1, <1>4, <1>6, <2>1, <2>3, <2>4 DEF CutsUndone, Using
<2>6. ASSUME pc'[r] # "restore" PROVE nul' = {Len(urls)}
<3>1. at[r] >= Len(urls) /\ nul' = nul \cup {Len(urls)}
  BY <1>5, <2>3, <2>6
<3>2. \A i \in at[r]..Len(urls) : i = Len(urls)
  BY <1>2, <3>1
<3> QED
  BY <2>3, <3>1, <3>2
<2>7. Uncut'
  BY <1>1, <2>6 DEF Uncut
<2> QED
  BY <2>2, <2>5, <2>7
<1>10. Sole'
  BY <1>1, <1>9 DEF Sole
<1> QED
  BY <1>7, <1>8, <1>10 DEF ListInv

LEMMA AppendList == ASSUME IInv, NEW r \in Readers, AppendToFile(r) PROVE ListInv'
<1>0. TypeOK /\ ListInv
  BY DEF IInv, Typed
<1> DEFINE Old == IF file = Null THEN <<>> ELSE file
<1>1. /\ UNCHANGED <<urls, nul, overlap, saved, at>> /\ pc[r] = "append"
      /\ file' = Append(Old, text[r].line)
  BY DEF AppendToFile, call
<1>2. pc'[r] = "free" /\ \A u \in Readers \ {r} : pc'[u] = pc[u]
  BY <1>0 DEF TypeOK, AppendToFile, Goto
<1>3. Old \in Seq(STRING)
  BY <1>0, EmptySeq DEF TypeOK
<1>4. text[r].line \in STRING
  BY <1>1 DEF IInv, Typed, Handling
<1>5. file' \in Seq(STRING) /\ file' # <<>> /\ file' # Null
      /\ Len(file') = Len(Old) + 1 /\ \A i \in 1..Len(Old) : file'[i] = Old[i]
<2> HIDE DEF Old
<2>1. file' \in Seq(STRING) /\ file' # <<>>
      /\ Len(file') = Len(Old) + 1 /\ \A i \in 1..Len(Old) : file'[i] = Old[i]
  BY <1>1, <1>3, <1>4, AppendLine
<2> QED
  BY <2>1, FilesAssumption
<1>6. Rebuilt'
<2>1. SUFFICES ASSUME NEW u \in Readers, pc'[u] = "read", urls # Null
               PROVE  at[u] = Len(urls) + 1 /\ Begins(urls, file')
  BY <1>0, <1>1, <1>2, <1>5 DEF ListInv, Rebuilt, Rebuilding
<2>2. pc[u] = "read"
  BY <1>2, <2>1
<2>3. at[u] = Len(urls) + 1 /\ Begins(urls, file) /\ file # Null
  BY <1>0, <2>1, <2>2 DEF ListInv, Rebuilt, Rebuilding
<2>4. Len(urls) \in Nat /\ Len(file) \in Nat
  BY <1>0, <2>1, <2>3, LenProperties DEF TypeOK
<2>5. Begins(urls, file')
  BY <1>5, <2>3, <2>4 DEF Begins
<2> QED
  BY <2>3, <2>5
<1>7. Complete'
  BY <1>2 DEF Complete, Rebuilding
<1>8. Sole'
  BY <1>0, <1>1, <1>2 DEF ListInv, Sole, OneUser, CutsUndone, Uncut, Using
<1> QED
  BY <1>6, <1>7, <1>8 DEF ListInv

LEMMA FreeList == ASSUME IInv, NEW r \in Readers, FreeUrls(r) PROVE ListInv'
<1>0. TypeOK /\ ListInv
  BY DEF IInv, Typed
<1>1. CASE Undefined
  BY <1>1, NothingDone DEF IInv
<1>2. CASE ~Undefined
<2>1. /\ urls' = Null /\ UNCHANGED <<file, saved>> /\ pc[r] = "free"
      /\ overlap' = (overlap \/ OthersUse(r))
      /\ ~(urls # Null /\ OthersUse(r))
  BY <1>2 DEF FreeUrls
<2>2. /\ pc'[r] = "read" /\ at'[r] = 1
      /\ \A u \in Readers \ {r} : pc'[u] = pc[u] /\ at'[u] = at[u]
  BY <1>0, <1>2 DEF TypeOK, FreeUrls, Goto
\* A second one at its work has not read a line.
<2>3. \A u \in Readers \ {r} : pc[u] = "read" => at[u] = 1
  BY <1>0, <2>1 DEF ListInv, Rebuilt, OthersUse, Using
<2>4. Rebuilt'
  BY <1>0, <2>1, <2>2, <2>3 DEF ListInv, Rebuilt, Rebuilding
<2>5. Complete'
  BY <2>1 DEF Complete
<2>6. Sole'
<3>1. SUFFICES ASSUME ~overlap, \A u \in Readers \ {r} : ~Using(u)
               PROVE  (OneUser /\ CutsUndone /\ Uncut)'
  BY <2>1 DEF Sole, OthersUse
<3>2. OneUser'
  BY <2>2, <3>1 DEF OneUser, Using
<3>3. CutsUndone' /\ Uncut'
  BY <2>1, <2>2, <3>1 DEF CutsUndone, Uncut, Using
<3> QED
  BY <3>2, <3>3
<2> QED
  BY <2>4, <2>5, <2>6 DEF ListInv
<1> QED
  BY <1>1, <1>2

LEMMA GetUrlsList == ASSUME IInv, NEW r \in Readers, GetUrls(r) PROVE ListInv'
<1>0. TypeOK /\ ListInv
  BY DEF IInv, Typed
<1>1. CASE Undefined
  BY <1>1, NothingDone DEF IInv
<1>2. CASE ReadsLine(r)
<2>1. /\ UNCHANGED <<file, overlap, pc, saved>> /\ nul' = {Len(urls')}
      /\ pc[r] = "read" /\ \A u \in Readers \ {r} : ~Using(u)
  BY <1>2 DEF ReadsLine, OthersUse
<2>2. /\ urls' \in Seq(STRING) /\ Len(urls') = at[r] /\ Begins(urls', file)
      /\ at'[r] = at[r] + 1
  BY <1>2, LineRead
<2>3. urls' # Null
  BY <2>2, FilesAssumption
<2>4. Rebuilt'
<3>1. \A u \in Readers : pc[u] = "read" => u = r
  BY <2>1 DEF Using
<3>2. \A u \in Readers : Rebuilding(u)' => (file # Null /\ file # <<>>)'
  BY <1>0, <2>1 DEF ListInv, Rebuilt, Rebuilding
<3>3. Begins(urls', file')
  BY <2>1, <2>2
<3> QED
  BY <2>1, <2>2, <2>3, <3>1, <3>2, <3>3 DEF Rebuilt
<2>5. Complete'
  BY <2>1 DEF Complete, Rebuilding
<2>6. Sole'
  BY <1>0, <2>1 DEF ListInv, Sole, OneUser, CutsUndone, Uncut, Using
<2> QED
  BY <2>4, <2>5, <2>6 DEF ListInv
<1>3. CASE EndsReading(r)
<2>1. /\ UNCHANGED <<file, urls, nul, overlap, saved, at>>
      /\ pc[r] = "read" /\ at[r] > Len(file)
  BY <1>3 DEF EndsReading, list, call
<2>2. /\ pc'[r] \in {"idle", "weather"}
      /\ \A u \in Readers \ {r} : pc'[u] = pc[u]
  BY <1>0, <1>3, AfterValues DEF EndsReading, TypeOK, Goto
\* The last line has been read.
<2>3. urls = file
<3>1. file \in Seq(STRING) /\ file # <<>>
  BY <1>0, <2>1 DEF ListInv, Rebuilt, Rebuilding, TypeOK
<3>2. Len(file) \in Nat \ {0}
  BY <3>1, EmptySeq
<3>3. urls # Null
  BY <1>0, <2>1, <3>2 DEF ListInv, Rebuilt
<3>4. urls \in Seq(STRING) /\ Len(urls) \in Nat
  BY <1>0, <3>3, LenProperties DEF TypeOK
<3>5. at[r] = Len(urls) + 1 /\ Begins(urls, file)
  BY <1>0, <2>1, <3>3 DEF ListInv, Rebuilt
<3>6. Len(urls) = Len(file) /\ \A i \in 1..Len(file) : urls[i] = file[i]
  BY <2>1, <3>2, <3>4, <3>5 DEF Begins
<3> QED
  BY <3>1, <3>4, <3>6, SeqEqual
<2>4. Rebuilt'
  BY <1>0, <2>1, <2>2 DEF ListInv, Rebuilt, Rebuilding, Begins
<2>5. Complete'
  BY <2>1, <2>3 DEF Complete
<2>6. Sole'
  BY <1>0, <2>1, <2>2 DEF ListInv, Sole, OneUser, CutsUndone, Uncut, Using
<2> QED
  BY <2>4, <2>5, <2>6 DEF ListInv
<1> QED
  BY <1>1, <1>2, <1>3, GetUrlsBranches

LEMMA ListStep == ASSUME IInv, Next PROVE ListInv'
<1>0. TypeOK /\ ListInv
  BY DEF IInv, Typed
<1>1. PICK r \in Readers :
         \/ GotPrivmsg(r) \/ OnPrivmsg(r) \/ CheckForUrl(r)
         \/ HttpRequest(r) \/ ReceiveChunk(r) \/ RequestEnds(r) \/ Retry(r)
         \/ Measure(r) \/ Save(r) \/ Token(r) \/ Restore(r)
         \/ AddUrl(r) \/ AppendToFile(r) \/ FreeUrls(r) \/ GetUrls(r)
  BY Steps
<1> USE <1>0, ListKept, AfterValues DEF call
<1>2. CASE GotPrivmsg(r)
  BY <1>2 DEF GotPrivmsg
<1>3. CASE OnPrivmsg(r)
  BY <1>3 DEF OnPrivmsg
<1>4. CASE CheckForUrl(r)
  BY <1>4 DEF CheckForUrl
<1>5. CASE HttpRequest(r)
  BY <1>5 DEF HttpRequest
<1>6. CASE ReceiveChunk(r)
  BY <1>6 DEF ReceiveChunk, list, ListInv, Rebuilt, Complete, Sole, OneUser, CutsUndone,
     Uncut, Rebuilding, Begins, Using
<1>7. CASE RequestEnds(r)
  BY <1>7 DEF RequestEnds
<1>8. CASE Retry(r)
  BY <1>8 DEF Retry
<1>9. CASE AddUrl(r)
  BY <1>9 DEF AddUrl
<1> QED
  BY <1>1, <1>2, <1>3, <1>4, <1>5, <1>6, <1>7, <1>8, <1>9,
     MeasureList, SaveList, TokenList, RestoreList, AppendList, FreeList, GetUrlsList
-----------------------------------------------------------------------------
(* The answers. *)

LEMMA AnswerInit == ASSUME Init PROVE AnswerInv
<1>1. \A r \in Readers : pc[r] = "idle" /\ ark[r] = NewArk /\ reports[r] = 0
  BY DEF Init
<1> QED
  BY <1>1 DEF AnswerInv, OneTitle, ReportAlone, BeforeTitle, Checking, NewArk

\* What AnswerInv says of one reader.
Answers(r) ==
    /\ ark[r].titles <= 1
    /\ ark[r].titles = 1 => ark[r].found
    /\ BeforeTitle(r) => ~ark[r].found
    /\ weatherFirst /\ reports[r] = 1 /\ text[r].link # "first" =>
          /\ ark[r].titles = 0
          /\ text[r].link = "none"
          /\ pc[r] \notin {"request", "receive", "retry"}
          /\ Checking(r) => caller[r] = "add"

LEMMA EachAnswers == AnswerInv <=> \A r \in Readers : Answers(r)
  BY DEF AnswerInv, OneTitle, ReportAlone, Answers

\* A step does not disturb the answers of the others.
LEMMA OthersAnswers ==
    ASSUME AnswerInv, NEW r \in Readers, UNCHANGED weatherFirst,
           \A u \in Readers \ {r} :
              UNCHANGED <<pc[u], ark[u], reports[u], text[u], caller[u]>>,
           Answers(r)'
    PROVE  AnswerInv'
<1>1. ASSUME NEW u \in Readers \ {r} PROVE Answers(u)'
  BY <1>1, EachAnswers DEF Answers, BeforeTitle, Checking
<1>2. \A u \in Readers : Answers(u)'
  BY <1>1
<1> QED
  BY <1>2 DEF AnswerInv, OneTitle, ReportAlone, Answers

LEMMA AnswerStep == ASSUME IInv, Next PROVE AnswerInv'
<1>0. TypeOK /\ AnswerInv
  BY DEF IInv, Typed
<1>1. PICK r \in Readers :
         \/ GotPrivmsg(r) \/ OnPrivmsg(r) \/ CheckForUrl(r)
         \/ HttpRequest(r) \/ ReceiveChunk(r) \/ RequestEnds(r) \/ Retry(r)
         \/ Measure(r) \/ Save(r) \/ Token(r) \/ Restore(r)
         \/ AddUrl(r) \/ AppendToFile(r) \/ FreeUrls(r) \/ GetUrls(r)
  BY Steps
<1> DEFINE Undisturbed ==
              /\ UNCHANGED weatherFirst
              /\ \A u \in Readers \ {r} :
                    UNCHANGED <<pc[u], ark[u], reports[u], text[u], caller[u]>>
<1>2. Answers(r)
  BY <1>0, EachAnswers
<1>3. ark[r].titles \in Nat
  BY <1>0 DEF TypeOK
<1> USE <1>0, <1>2, <1>3 DEF Goto, list, setup, call, answers
<1>4. CASE GotPrivmsg(r)
<2>1. PICK m \in Messages : text' = [text EXCEPT ![r] = m]
  BY <1>4 DEF GotPrivmsg
<2>2. Undisturbed
  BY <1>4, <2>1 DEF GotPrivmsg, TypeOK
<2>3. ark'[r] = NewArk /\ reports'[r] = 0
  BY <1>4 DEF GotPrivmsg, TypeOK
<2>4. Answers(r)'
  BY <2>3 DEF Answers, NewArk
<2> QED
  BY <2>2, <2>4, OthersAnswers
<1>5. CASE OnPrivmsg(r)
<2>1. /\ pc[r] = "weather" /\ UNCHANGED <<ark, caller, weatherFirst>>
      /\ pc'[r] = IF weatherFirst THEN "check" ELSE "idle"
      /\ \A u \in Readers \ {r} : pc'[u] = pc[u]
  BY <1>5, AfterValues DEF OnPrivmsg, TypeOK
<2>2. CASE text[r].command = "weather"
<3>1. text' = [text EXCEPT ![r] = FirstWord(text[r])]
  BY <1>5, <2>2 DEF OnPrivmsg
<3>2. PICK pieces \in 0..MaxChunks : reports' = [reports EXCEPT ![r] = Reports(pieces)]
  BY <1>5, <2>2 DEF OnPrivmsg
<3>3. Undisturbed
  BY <2>1, <3>1, <3>2 DEF TypeOK
<3>4. text'[r].link # "first" => text'[r].link = "none"
  BY <3>1, FirstWordIs DEF TypeOK
<3>5. Answers(r)'
  BY <2>1, <3>4 DEF Answers, BeforeTitle, Checking
<3> QED
  BY <3>3, <3>5, OthersAnswers
<2>3. CASE text[r].command # "weather"
<3>1. UNCHANGED <<text, reports>>
  BY <1>5, <2>3 DEF OnPrivmsg
<3>2. Undisturbed
  BY <2>1, <3>1
<3>3. Answers(r)'
  BY <2>1, <3>1 DEF Answers, BeforeTitle, Checking
<3> QED
  BY <3>2, <3>3, OthersAnswers
<2> QED
  BY <2>2, <2>3
<1>6. CASE CheckForUrl(r)
<2>1. /\ pc[r] = "check" /\ caller'[r] = "check"
      /\ UNCHANGED <<weatherFirst, text, ark, reports>>
      /\ \A u \in Readers \ {r} : UNCHANGED <<pc[u], caller[u]>>
  BY <1>6 DEF CheckForUrl, TypeOK
<2>2. pc'[r] \in IF text[r].link = "none" THEN {"add"} ELSE {"measure", "request"}
  BY <1>6, AfterValues DEF CheckForUrl, TypeOK
<2>3. Answers(r)'
  BY <2>1, <2>2 DEF Answers, BeforeTitle, Checking
<2> QED
  BY <2>1, <2>3, OthersAnswers
<1>7. CASE HttpRequest(r)
<2>1. Undisturbed
  BY <1>7 DEF HttpRequest, TypeOK
<2>2. Answers(r)'
  BY <1>7 DEF HttpRequest, TypeOK, Answers, BeforeTitle, Checking
<2> QED
  BY <2>1, <2>2, OthersAnswers
<1>8. CASE ReceiveChunk(r)
<2>1. PICK chunk \in {"plain", "error", "title", "long"} :
         ark' = [ark EXCEPT ![r] = WriteCallback(ark[r], chunk)]
  BY <1>8 DEF ReceiveChunk
<2>2. Undisturbed
  BY <1>8, <2>1 DEF ReceiveChunk, TypeOK
<2>3. ark'[r] = WriteCallback(ark[r], chunk)
  BY <2>1 DEF TypeOK
<2>4. \/ ark'[r] = ark[r]
      \/ /\ ~ark[r].found /\ ark'[r].found
         /\ ark'[r].titles \in {ark[r].titles, ark[r].titles + 1}
<3>1. ark[r] \in Arks
  BY DEF TypeOK, Arks
<3> QED
  BY ONLY <3>1, <2>3 DEF WriteCallback, Arks
<2>5. Answers(r)'
  BY <1>8, <2>4 DEF ReceiveChunk, Answers, BeforeTitle, Checking
<2> QED
  BY <2>2, <2>5, OthersAnswers
<1>9. CASE RequestEnds(r)
<2>1. Undisturbed
  BY <1>9 DEF RequestEnds, TypeOK
<2>2. pc'[r] = "add" \/ (pc'[r] = "retry" /\ ~ark[r].found)
  BY <1>9, AfterValues DEF RequestEnds, TriesAgain, TypeOK
<2>3. Answers(r)'
  BY <1>9, <2>2 DEF RequestEnds, Answers, BeforeTitle, Checking
<2> QED
  BY <2>1, <2>3, OthersAnswers
<1>10. CASE Retry(r)
<2>1. Undisturbed
  BY <1>10 DEF Retry, TypeOK
<2>2. ark'[r].found = ark[r].found /\ ark'[r].titles = ark[r].titles
  BY <1>10 DEF Retry, Tried, TypeOK
<2>3. pc[r] = "retry" /\ pc'[r] = "request" /\ UNCHANGED <<text, caller, reports, weatherFirst>>
  BY <1>10 DEF Retry, TypeOK
<2>4. Answers(r)'
  BY <2>2, <2>3 DEF Answers, BeforeTitle, Checking
<2> QED
  BY <2>1, <2>4, OthersAnswers
\* A step of check_url, of get_urls or of add_url beyond it.
<1>11. ASSUME UNCHANGED <<weatherFirst, ark, reports, text, caller>>,
              \A u \in Readers \ {r} : pc'[u] = pc[u],
              \/ pc'[r] = pc[r]
              \/ Checking(r) /\ Checking(r)'
              \/ Checking(r) /\ caller[r] = "check" /\ pc'[r] \in {"request", "add"}
              \/ caller[r] = "add" /\ pc'[r] \in {"append", "idle"}
              \/ caller[r] = "add" /\ pc'[r] = "weather" /\ ~weatherFirst
              \/ pc[r] \notin {"receive"} /\ pc'[r] \in {"free", "read", "idle"}
              \/ pc'[r] = "weather" /\ ~weatherFirst
       PROVE  AnswerInv'
<2>1. Undisturbed
  BY <1>11
<2>2. Answers(r)'
  BY <1>11 DEF Answers, BeforeTitle, Checking
<2> QED
  BY <2>1, <2>2, OthersAnswers
<1>12. CASE Measure(r)
<2>1. pc'[r] \in {"save", Resume(r, FALSE)} /\ Checking(r)
  BY <1>12 DEF Measure, TypeOK, Checking
<2>2. \A u \in Readers \ {r} : pc'[u] = pc[u]
  BY <1>12 DEF Measure, TypeOK
<2>3. caller[r] \in {"check", "add"}
  BY DEF TypeOK
<2> QED
  BY <1>11, <1>12, <2>1, <2>2, <2>3, ResumeValues DEF Measure, Checking
<1>13. CASE Save(r)
<2>1. UNCHANGED pc \/ (pc'[r] = "token" /\ \A u \in Readers \ {r} : pc'[u] = pc[u])
  BY <1>13 DEF Save, Undefined, TypeOK
<2>2. UNCHANGED <<weatherFirst, ark, reports, text, caller>> /\ Checking(r)
  BY <1>13 DEF Save, Undefined, Checking
<2> QED
  BY <1>11, <2>1, <2>2 DEF Checking
<1>14. CASE Token(r)
<2>1. UNCHANGED pc \/ (pc'[r] = "restore" /\ \A u \in Readers \ {r} : pc'[u] = pc[u])
  BY <1>14 DEF Token, TypeOK
<2>2. UNCHANGED <<weatherFirst, ark, reports, text, caller>> /\ Checking(r)
  BY <1>14 DEF Token, Checking
<2> QED
  BY <1>11, <2>1, <2>2 DEF Checking
<1>15. CASE Restore(r)
<2>1. \/ UNCHANGED pc
      \/ pc'[r] = Resume(r, TRUE) /\ \A u \in Readers \ {r} : pc'[u] = pc[u]
  BY <1>15 DEF Restore, TypeOK
<2>2. UNCHANGED <<weatherFirst, ark, reports, text, caller>> /\ Checking(r)
  BY <1>15 DEF Restore, Checking
<2>3. caller[r] \in {"check", "add"}
  BY DEF TypeOK
<2>4. CASE UNCHANGED pc
  BY <1>11, <2>2, <2>4
<2>5. CASE pc'[r] = Resume(r, TRUE) /\ \A u \in Readers \ {r} : pc'[u] = pc[u]
<3>1. \/ caller[r] = "check" /\ pc'[r] = "request"
      \/ caller[r] = "add" /\ pc'[r] = "idle"
      \/ caller[r] = "add" /\ pc'[r] = "weather" /\ ~weatherFirst
  BY <2>3, <2>5, ResumeValues, AfterValues
<3> QED
  BY <1>11, <2>2, <2>5, <3>1
<2> QED
  BY <2>1, <2>4, <2>5
<1>16. CASE AddUrl(r)
<2>1. /\ pc[r] = "add" /\ caller'[r] = "add"
      /\ UNCHANGED <<weatherFirst, text, ark, reports>>
      /\ \A u \in Readers \ {r} : UNCHANGED <<pc[u], caller[u]>>
  BY <1>16 DEF AddUrl, TypeOK
<2>2. \/ pc'[r] \in {"measure", "idle"}
      \/ pc'[r] = "weather" /\ ~weatherFirst
  BY <1>16, AfterValues DEF AddUrl, TypeOK
<2>3. Answers(r)'
  BY <2>1, <2>2 DEF Answers, BeforeTitle, Checking
<2> QED
  BY <2>1, <2>3, OthersAnswers
<1>17. CASE AppendToFile(r)
<2>1. pc[r] = "append" /\ pc'[r] = "free" /\ \A u \in Readers \ {r} : pc'[u] = pc[u]
  BY <1>17 DEF AppendToFile, TypeOK
<2> QED
  BY <1>11, <1>17, <2>1 DEF AppendToFile
<1>18. CASE FreeUrls(r)
<2>1. UNCHANGED pc \/ (pc'[r] = "read" /\ \A u \in Readers \ {r} : pc'[u] = pc[u])
  BY <1>18 DEF FreeUrls, Undefined, TypeOK
<2>2. UNCHANGED <<weatherFirst, ark, reports, text, caller>> /\ pc[r] = "free"
  BY <1>18 DEF FreeUrls, Undefined
<2> QED
  BY <1>11, <2>1, <2>2
<1>19. CASE GetUrls(r)
<2>1. \/ UNCHANGED pc
      \/ pc'[r] = "idle" /\ \A u \in Readers \ {r} : pc'[u] = pc[u]
      \/ pc'[r] = "weather" /\ ~weatherFirst /\ \A u \in Readers \ {r} : pc'[u] = pc[u]
  BY <1>19, GetUrlsBranches, AfterValues DEF ReadsLine, EndsReading, Undefined, TypeOK
<2>2. UNCHANGED <<weatherFirst, ark, reports, text, caller>> /\ pc[r] = "read"
  BY <1>19, GetUrlsBranches DEF GetUrls, ReadsLine, EndsReading, Undefined
<2> QED
  BY <1>11, <2>1, <2>2
<1> QED
  BY <1>1, <1>4, <1>5, <1>6, <1>7, <1>8, <1>9, <1>10, <1>12, <1>13, <1>14,
     <1>15, <1>16, <1>17, <1>18, <1>19
-----------------------------------------------------------------------------
(* The theorems. *)

\* The inductive invariant: the types, what every reader finds of the list
\* where it is in check_url, add_url and get_urls, and how far the answer to
\* its message has come.
THEOREM Invariance == Spec => []IInv
<1>1. Init => IInv
  BY TypedInit, ListInit, AnswerInit DEF IInv
<1>2. IInv /\ [Next]_vars => IInv'
<2>1. ASSUME IInv, Next PROVE IInv'
  BY <2>1, TypedStep, ListStep, AnswerStep DEF IInv
<2>2. ASSUME IInv, UNCHANGED vars PROVE IInv'
  BY <2>2, NothingDone
<2> QED
  BY <2>1, <2>2
<1> QED
  BY <1>1, <1>2, PTL DEF Spec

\* Whatever the messages, the file and the number of readers, every index
\* that check_url uses lies in the list, the list ends within its memory and
\* a page is asked for four times at most.
THEOREM AnnouncersTyped == Spec => []TypeOK
  BY Invariance, PTL DEF IInv, Typed

\* A message gets one title at most however many pieces a page comes in and
\* however often it is asked for again, and one answer in all when weather
\* was loaded first.
THEOREM OneAnswer == Spec => []AnsweredOnce
<1>1. IInv => AnsweredOnce
<2>1. SUFFICES ASSUME IInv, NEW r \in Readers
               PROVE  /\ ark[r].titles <= 1
                      /\ ark[r].titles = 1 => pc[r] \notin {"request", "retry"}
                      /\ weatherFirst /\ text[r].link # "first" =>
                            ark[r].titles + reports[r] <= 1
  BY DEF AnsweredOnce
<2>2. ark[r] \in Arks /\ reports[r] \in {0, 1}
  BY <2>1 DEF IInv, Typed, TypeOK, Arks
<2>3. ark[r].titles \in Nat
  BY <2>2 DEF Arks
<2>4. /\ ark[r].titles <= 1
      /\ ark[r].titles = 1 => ark[r].found
      /\ pc[r] \in {"request", "retry"} => ~ark[r].found
      /\ weatherFirst /\ text[r].link # "first" /\ reports[r] = 1 =>
            ark[r].titles = 0
  BY <2>1 DEF IInv, AnswerInv, OneTitle, ReportAlone, BeforeTitle
<2> QED
  BY ONLY <2>2, <2>3, <2>4
<1> QED
  BY <1>1, Invariance, PTL

\* When nobody is at it, the list is not there or is the file; and nothing of
\* it is cut off unless two readers were at it at once.
THEOREM ListWhole == Spec => []UrlsWhole
<1>1. IInv => UrlsWhole
<2>1. SUFFICES ASSUME IInv, \A r \in Readers : ~Using(r) /\ pc[r] # "free", urls # Null
               PROVE  urls = file /\ (~overlap => nul = {Len(file)})
  BY DEF UrlsWhole
<2>2. \A r \in Readers : ~Rebuilding(r)
  BY <2>1 DEF Rebuilding, Using
<2>3. urls = file
  BY <2>1, <2>2 DEF IInv, ListInv, Complete
<2>4. ~overlap => nul = {Len(urls)}
  BY <2>1 DEF IInv, ListInv, Sole, Uncut, Using
<2> QED
  BY <2>3, <2>4
<1> QED
  BY <1>1, Invariance, PTL
=============================================================================
