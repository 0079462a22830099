----------------------------- MODULE Announcers -----------------------------
(***************************************************************************)
(* The plugins that answer a message with what they fetch: title announces *)
(* the title of the page a link leads to, weather reports on a city.  Each *)
(* reader passes a message to on_privmsg of the one and to check_for_url   *)
(* and add_url of the other, in the order in which they were loaded.       *)
(*                                                                         *)
(* What the readers share is `urls`, the text of urls.txt, which           *)
(* check_url cuts into lines in place and puts together again, and         *)
(* add_url frees and builds anew, without a lock.  Of the text only its    *)
(* lines matter: urls has them all, and nul says after which of them there *)
(* is a NUL where the file has a newline.                                  *)
(***************************************************************************)
EXTENDS Integers, Sequences, FiniteSetsExt

CONSTANTS
    Readers,       \* the threads that handle messages
    Messages,      \* what they may be sent
    InitialFiles,  \* what urls.txt may hold at first, Null if there is none
    MaxMessages,   \* how many messages arrive
    MaxChunks,     \* in how many pieces a weather report arrives
    Null

Commands == {"none", "addurl", "weather"}

\* Where the first link of a message stands: in its first word, after that.
Links == {"none", "first", "later"}

ASSUME MessagesAssumption ==
    Messages \subseteq [command : Commands, link : Links, line : STRING]
ASSUME FilesAssumption ==
    /\ \A f \in InitialFiles : f = Null \/ f \in Seq(STRING)
    /\ Null \notin STRING /\ Null \notin Seq(STRING)
ASSUME BoundsAssumption == MaxMessages \in Nat /\ MaxChunks \in Nat

VARIABLES
    file,          \* the lines of urls.txt
    hasFilter,     \* has_filter, set by plugin_init
    weatherFirst,  \* on_privmsg was registered before title's callbacks
    urls,          \* the lines of urls
    nul,           \* the places in urls where a line ends with a NUL
    pc,            \* where each reader is
    text,          \* params: the message each reader handles
    caller,        \* who called check_url
    at,            \* the line check_url or get_urls is at
    saved,         \* the lines in urls_save, at first those that fit
    ark,           \* the fetch for a message, with the titles announced
    reports,       \* the weather reports sent in answer to the message
    received,      \* the messages so far
    overlap,       \* two readers have used urls at the same time
    undefined      \* undefined behaviour was met: nothing is promised

list == <<file, urls, nul, overlap>>
call == <<caller, at, saved>>
setup == <<hasFilter, weatherFirst>>
answers == <<ark, reports>>
vars == <<list, setup, pc, text, call, answers, received, undefined>>

NewArk == [tries |-> 0, found |-> FALSE, titles |-> 0]
NoMessage == [command |-> "none", link |-> "none", line |-> Null]

\* The length of the string at urls, in lines.
Visible == Min(nul)

\* Past the test for NULL in check_url, or in get_urls.
Using(r) == pc[r] \in {"save", "token", "restore", "read"}
OthersUse(r) == \E u \in Readers \ {r} : Using(u)

\* The callback that follows in the index, all three having priority 20.
After(callback) ==
    CASE callback = "weather" -> IF weatherFirst THEN "check" ELSE "idle"
      [] callback = "check"   -> "add"
      [] callback = "add"     -> IF weatherFirst THEN "idle" ELSE "weather"

Goto(r, step) == pc' = [pc EXCEPT ![r] = step]

\* Memory that another reader uses is freed or moved, or a copy does not
\* fit.  The model ends.
Undefined ==
    /\ undefined' = TRUE
    /\ UNCHANGED <<list, setup, pc, text, call, answers, received>>
-----------------------------------------------------------------------------
\* plugin_init of the title plugin has read the file.
Init ==
    /\ file \in InitialFiles
    /\ hasFilter = (file # Null)
    /\ weatherFirst \in BOOLEAN
    /\ urls = IF file = <<>> THEN Null ELSE file
    /\ nul = IF urls = Null THEN {} ELSE {Len(urls)}
    /\ pc = [r \in Readers |-> "idle"]
    /\ text = [r \in Readers |-> NoMessage]
    /\ caller = [r \in Readers |-> "check"]
    /\ at = [r \in Readers |-> 1]
    /\ saved = [r \in Readers |-> 0]
    /\ ark = [r \in Readers |-> NewArk]
    /\ reports = [r \in Readers |-> 0]
    /\ received = 0
    /\ overlap = FALSE
    /\ undefined = FALSE

\* CALLBACK_GOT_PRIVMSG is raised for a message on a channel.
GotPrivmsg(r) ==
    /\ pc[r] = "idle" /\ received < MaxMessages
    /\ \E m \in Messages : text' = [text EXCEPT ![r] = m]
    /\ received' = received + 1
    /\ ark' = [ark EXCEPT ![r] = NewArk]
    /\ reports' = [reports EXCEPT ![r] = 0]
    /\ Goto(r, IF weatherFirst THEN "weather" ELSE "check")
    /\ UNCHANGED <<list, setup, call, undefined>>

\* weather's http_request and write_callback: each piece of the answer is
\* parsed by itself, so that only one that comes whole is reported.
Reports(pieces) == IF pieces = 1 THEN 1 ELSE 0

\* strtok_r cuts a message at its first blank, for whoever reads it next.
FirstWord(m) == [m EXCEPT !.link = IF @ = "later" THEN "none" ELSE @]

\* on_privmsg: a command is cut and makes one request.  The limiter never
\* acts, since last_call is not assigned.
OnPrivmsg(r) ==
    /\ pc[r] = "weather"
    /\ IF text[r].command = "weather"
       THEN /\ text' = [text EXCEPT ![r] = FirstWord(@)]
            /\ \E pieces \in 0..MaxChunks :
                  reports' = [reports EXCEPT ![r] = Reports(pieces)]
       ELSE UNCHANGED <<text, reports>>
    /\ Goto(r, After("weather"))
    /\ UNCHANGED <<list, setup, call, ark, received, undefined>>
-----------------------------------------------------------------------------
(***************************************************************************)
(* The title of a page.                                                    *)
(***************************************************************************)

\* check_for_url looks for a link and asks the filter, if there is one.
CheckForUrl(r) ==
    /\ pc[r] = "check"
    /\ Goto(r, IF text[r].link = "none" THEN After("check")
               ELSE IF hasFilter THEN "measure" ELSE "request")
    /\ caller' = [caller EXCEPT ![r] = "check"]
    /\ UNCHANGED <<list, setup, text, at, saved, answers, received, undefined>>

\* arkptr->found is not looked at.
BugWriteCallback(a, chunk) ==
    IF chunk \in {"plain", "error"} THEN a
    ELSE [a EXCEPT !.found = TRUE,
                   !.titles = IF chunk = "title" THEN @ + 1 ELSE @]

\* write_callback: the first chunk with a title in it, sent with a code up
\* to 299, is the one that counts; a title that is too long is not sent.
WriteCallback(a, chunk) ==
    IF chunk \in {"plain", "error"} \/ a.found THEN a
    ELSE [a EXCEPT !.found = TRUE,
                   !.titles = IF chunk = "title" THEN @ + 1 ELSE @]

\* The number of tries is not limited.
BugTriesAgain(a) == ~a.found

\* A failed request is made again unless a title was found or this is the
\* fourth.
TriesAgain(a) == ~a.found /\ a.tries < 3

\* http_request calls curl_easy_perform.
HttpRequest(r) ==
    /\ pc[r] = "request"
    /\ Goto(r, "receive")
    /\ UNCHANGED <<list, setup, text, call, answers, received, undefined>>

\* It passes the page to write_callback piece by piece.
ReceiveChunk(r) ==
    /\ pc[r] = "receive"
    /\ \E chunk \in {"plain", "error", "title", "long"} :
          ark' = [ark EXCEPT ![r] = WriteCallback(@, chunk)]
    /\ UNCHANGED <<list, setup, pc, text, call, reports, received, undefined>>

\* It ends well or, at the latest after three seconds, not.
RequestEnds(r) ==
    /\ pc[r] = "receive"
    /\ \E failed \in BOOLEAN :
          Goto(r, IF failed /\ TriesAgain(ark[r]) THEN "retry" ELSE After("check"))
    /\ UNCHANGED <<list, setup, text, call, answers, received, undefined>>

\* Every retry counts from zero.
BugTried(a) == [a EXCEPT !.tries = 0]

Tried(a) == [a EXCEPT !.tries = @ + 1]

\* http_request calls itself.
Retry(r) ==
    /\ pc[r] = "retry"
    /\ ark' = [ark EXCEPT ![r] = Tried(@)]
    /\ Goto(r, "request")
    /\ UNCHANGED <<list, setup, text, call, reports, received, undefined>>
-----------------------------------------------------------------------------
(***************************************************************************)
(* check_url.  It is true whenever there is a list, whatever is on it.     *)
(***************************************************************************)
Resume(r, listed) ==
    CASE caller[r] = "check" /\ listed  -> "request"
      [] caller[r] = "check" /\ ~listed -> After("check")
      [] caller[r] = "add" /\ listed    -> After("add")
      [] caller[r] = "add" /\ ~listed   -> "append"

\* strlen(urls), for the array urls_save.
Measure(r) ==
    /\ pc[r] = "measure"
    /\ IF urls = Null
       THEN Goto(r, Resume(r, FALSE)) /\ UNCHANGED <<saved, overlap>>
       ELSE /\ saved' = [saved EXCEPT ![r] = Visible]
            /\ overlap' = (overlap \/ OthersUse(r))
            /\ Goto(r, "save")
    /\ UNCHANGED <<file, urls, nul, setup, text, caller, at, answers,
                   received, undefined>>

\* strcpy(urls_save, urls): meanwhile the string may have become longer.
Save(r) ==
    /\ pc[r] = "save"
    /\ IF Visible > saved[r]
       THEN Undefined
       ELSE /\ saved' = [saved EXCEPT ![r] = Visible]
            /\ at' = [at EXCEPT ![r] = 1]
            /\ Goto(r, "token")
            /\ UNCHANGED <<list, setup, text, caller, answers, received,
                           undefined>>

\* strtok_r ends the line with a NUL.  If the token is in the link, or was
\* the last, the loop is left; the next one may be there because another
\* reader has put the newline back.
Token(r) ==
    /\ pc[r] = "token"
    /\ nul' = nul \cup {at[r]}
    /\ \/ at' = [at EXCEPT ![r] = 1] /\ Goto(r, "restore")
       \/ /\ at[r] < Len(urls)
          /\ at' = [at EXCEPT ![r] = @ + 1]
          /\ UNCHANGED pc
    /\ UNCHANGED <<file, urls, overlap, setup, text, caller, saved, answers,
                   received, undefined>>

\* The first newline is forgotten.
BugRestored(i) == IF i = 1 THEN nul ELSE nul \ {i}

Restored(i) == nul \ {i}

\* strcpy(urls, urls_save), line by line, and then the NUL at its end.
Restore(r) ==
    /\ pc[r] = "restore"
    /\ IF at[r] < saved[r]
       THEN /\ nul' = Restored(at[r])
            /\ at' = [at EXCEPT ![r] = @ + 1]
            /\ UNCHANGED pc
       ELSE /\ nul' = nul \cup {saved[r]}
            /\ Goto(r, Resume(r, TRUE))
            /\ UNCHANGED at
    /\ UNCHANGED <<file, urls, overlap, setup, text, caller, saved, answers,
                   received, undefined>>
-----------------------------------------------------------------------------
(***************************************************************************)
(* add_url.  It goes beyond check_url only while there is no list.         *)
(***************************************************************************)
AddUrl(r) ==
    /\ pc[r] = "add"
    /\ Goto(r, IF text[r].command = "addurl" THEN "measure" ELSE After("add"))
    /\ caller' = [caller EXCEPT ![r] = "add"]
    /\ UNCHANGED <<list, setup, text, at, saved, answers, received, undefined>>

AppendToFile(r) ==
    /\ pc[r] = "append"
    /\ file' = Append(IF file = Null THEN <<>> ELSE file, text[r].line)
    /\ Goto(r, "free")
    /\ UNCHANGED <<urls, nul, overlap, setup, text, call, answers, received,
                   undefined>>

\* free(urls); urls = NULL.
FreeUrls(r) ==
    /\ pc[r] = "free"
    /\ IF urls # Null /\ OthersUse(r)
       THEN Undefined
       ELSE /\ urls' = Null
            /\ nul' = {}
            /\ overlap' = (overlap \/ OthersUse(r))
            /\ at' = [at EXCEPT ![r] = 1]
            /\ Goto(r, "read")
            /\ UNCHANGED <<file, setup, text, caller, saved, answers,
                           received, undefined>>

\* get_urls appends the lines of the file to urls, which realloc may move.
GetUrls(r) ==
    /\ pc[r] = "read"
    /\ \/ OthersUse(r) /\ Undefined
       \/ /\ ~OthersUse(r)
          /\ at[r] <= Len(file)
          /\ urls' = Append(IF urls = Null THEN <<>> ELSE urls, file[at[r]])
          /\ nul' = {Len(urls')}
          /\ at' = [at EXCEPT ![r] = @ + 1]
          /\ UNCHANGED <<file, overlap, setup, pc, text, caller, saved,
                         answers, received, undefined>>
       \/ /\ at[r] > Len(file)
          /\ Goto(r, After("add"))
          /\ UNCHANGED <<list, setup, text, call, answers, received,
                         undefined>>

ReaderStep(r) ==
    /\ ~undefined
    /\ \/ OnPrivmsg(r) \/ CheckForUrl(r)
       \/ HttpRequest(r) \/ ReceiveChunk(r) \/ RequestEnds(r) \/ Retry(r)
       \/ Measure(r) \/ Save(r) \/ Token(r) \/ Restore(r)
       \/ AddUrl(r) \/ AppendToFile(r) \/ FreeUrls(r) \/ GetUrls(r)

Next == \E r \in Readers : ReaderStep(r) \/ (~undefined /\ GotPrivmsg(r))

\* The readers are scheduled, and a request ends by its timeout.
Fairness == \A r \in Readers : WF_vars(ReaderStep(r))

Spec == Init /\ [][Next]_vars /\ Fairness
-----------------------------------------------------------------------------
(***************************************************************************)
(* Properties.                                                             *)
(***************************************************************************)

\* Every variable is in its range: no more than three retries, no place in
\* the list beyond its end, and a string that ends within its memory.
TypeOK ==
    /\ file = Null \/ file \in Seq(STRING)
    /\ urls = Null \/ urls \in Seq(STRING)
    /\ urls = Null => nul = {}
    /\ urls # Null =>
          urls # <<>> /\ nul \subseteq 1..Len(urls) /\ Len(urls) \in nul
    /\ hasFilter \in BOOLEAN /\ weatherFirst \in BOOLEAN
    /\ pc \in [Readers -> {"idle", "weather", "check", "request", "receive",
                           "retry", "measure", "save", "token", "restore", "add",
                           "append", "free", "read"}]
    /\ text \in [Readers -> [command : Commands, link : Links,
                             line : STRING \cup {Null}]]
    /\ caller \in [Readers -> {"check", "add"}]
    /\ at \in [Readers -> Nat \ {0}] /\ saved \in [Readers -> Nat]
    /\ \A r \in Readers :
          pc[r] \in {"token", "restore"} =>
              at[r] \in 1..Len(urls) /\ saved[r] \in 1..Len(urls)
    /\ ark \in [Readers -> [tries : 0..3, found : BOOLEAN, titles : Nat]]
    /\ reports \in [Readers -> {0, 1}]
    /\ received \in 0..MaxMessages
    /\ overlap \in BOOLEAN /\ undefined \in BOOLEAN

\* However often a page is requested and in however many pieces it arrives,
\* a message is answered with one title at most, and the retries end with
\* it.  With weather loaded first a message that is reported on is cut before
\* title looks for a link in it, so that there is one answer in all unless the
\* link is in the command's own word, as in "!weatherhttp://x/ London".
AnsweredOnce ==
    \A r \in Readers :
        /\ ark[r].titles <= 1
        /\ ark[r].titles = 1 => pc[r] \notin {"request", "retry"}
        /\ weatherFirst /\ text[r].link # "first" =>
              ark[r].titles + reports[r] <= 1

\* When nobody uses urls it is NULL or holds every line of the file, with all
\* its newlines in place unless two readers have been in check_url or
\* get_urls at the same time, which can cut it short for good.
UrlsWhole ==
    (~undefined /\ \A r \in Readers : ~Using(r) /\ pc[r] # "free") =>
        \/ urls = Null
        \/ urls = file /\ (~overlap => nul = {Len(file)})

\* A reader comes back from a message to its server, whatever the pages do
\* and whatever the other readers do to the list.
MessageHandled ==
    \A r \in Readers : pc[r] # "idle" ~> (pc[r] = "idle" \/ undefined)
=============================================================================
