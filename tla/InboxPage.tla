------------------------------ MODULE InboxPage ------------------------------
(***************************************************************************)
(* The inbox page in the browser (assets/ui/ui.js): a document rendered by *)
(* the server, a poll that reloads it when the first page of the mailbox   *)
(* has changed, a reader that loads message bodies when they are selected, *)
(* and the tab's session history, where the selection is kept and where an *)
(* opened reader adds an entry on a narrow window.  Timers, answers,       *)
(* visibility changes, clicks and moves through the history come in any    *)
(* order; each handler runs without interruption up to its next await.     *)
(*                                                                         *)
(* The server is external here: its first page is what ListPageContext     *)
(* returns (MailStore), and it may refuse or fail any request (Service).   *)
(***************************************************************************)
EXTENDS Integers, Sequences, FiniteSets

CONSTANTS
  Messages,   \* messages that may arrive, each once
  HasHTML,    \* those with an HTML part, in which images are blocked
  Earlier,    \* those in the mailbox when the page is opened, newest first
  PageSize,   \* PAGE_SIZE, the server's defaultPageSize
  MaxDelay,   \* the longest delay, in units of POLL_MS
  MaxHistory  \* bound on the entries of this page in the session history

ASSUME InboxAssumption ==
  /\ IsFiniteSet(Messages) /\ HasHTML \subseteq Messages /\ "none" \notin Messages
  /\ Earlier \in Seq(Messages)
  /\ PageSize \in Nat \ {0} /\ MaxDelay \in Nat \ {0} /\ MaxHistory \in Nat \ {0}

VARIABLES
  inbox,      \* unexpired messages at the server, newest first
  arrived,    \* history: messages that have arrived
  doc,        \* "live", "reloading" (live until the new one is there), "error" or "loading"
  page,       \* pageIDs and pageHasMore
  visible,    \* document.visibilityState
  timer,      \* whether a timeout for poll is set
  poll,       \* the request in flight, and its answer
  delay,
  current,    \* the selected message
  art,        \* the article of each message
  isReading,  \* the class is-reading: on a narrow window the reader covers the list
  entries,    \* session history: the message in the URL of each entry of this page
  at,         \* the entry of the tab's location
  travelled   \* history: whether it has moved since the selection last changed

mail == <<inbox, arrived>>
polling == <<visible, timer, poll, delay>>
browsing == <<isReading, entries, at, travelled>>
reading == <<current, art, browsing>>
vars == <<inbox, arrived, doc, page, visible, timer, poll, delay, current, art,
          isReading, entries, at, travelled>>

Members(s) == {s[i] : i \in DOMAIN s}

-----------------------------------------------------------------------------
(* The server.                                                              *)

FirstPage == [ids |-> SubSeq(inbox, 1, IF Len(inbox) < PageSize THEN Len(inbox) ELSE PageSize),
              hasMore |-> Len(inbox) > PageSize]

Arrive(m) ==
  /\ m \notin arrived /\ arrived' = arrived \cup {m}
  /\ inbox' = <<m>> \o inbox
  /\ UNCHANGED <<doc, page, polling, reading>>

\* The oldest expires, or is evicted.
Expire ==
  /\ inbox # <<>> /\ inbox' = SubSeq(inbox, 1, Len(inbox) - 1)
  /\ UNCHANGED <<arrived, doc, page, polling, reading>>

-----------------------------------------------------------------------------
(* The poll.                                                                *)

\* Before the first document, and in one without the script.
NoPage == [ids |-> <<>>, hasMore |-> FALSE]

Idle == [st |-> "none", changed |-> FALSE]
Running == doc \in {"live", "reloading"}

\* poll(): nothing while a request is in flight.
StartPoll == poll' = IF poll.st = "none" THEN [Idle EXCEPT !.st = "sent"] ELSE poll

\* finally: inFlight = false, schedule().
EndPoll == poll' = Idle /\ timer' = visible

TimerFires ==
  /\ Running /\ timer /\ timer' = FALSE /\ StartPoll
  /\ UNCHANGED <<mail, doc, page, visible, delay, reading>>

\* Mutant: the timeout that is set is left to fire as well.
CheckNowAsWell ==
  /\ Running /\ visible /\ StartPoll
  /\ UNCHANGED <<mail, doc, page, visible, timer, delay, reading>>

\* The live button.
CheckNow ==
  /\ Running /\ visible /\ timer' = FALSE /\ StartPoll
  /\ UNCHANGED <<mail, doc, page, visible, delay, reading>>

\* The visibility may change at any time; the handlers are the script's.
Show ==
  /\ ~visible /\ visible' = TRUE /\ IF Running THEN StartPoll ELSE UNCHANGED poll
  /\ UNCHANGED <<mail, doc, page, timer, delay, reading>>

Hide ==
  /\ visible /\ visible' = FALSE /\ timer' = FALSE
  /\ UNCHANGED <<mail, doc, page, poll, delay, reading>>

\* Mutant: only the number of messages is compared.
FewerOrMore(new) == Len(new.ids) # Len(page.ids)

Changed(new) == new # page

\* 200: the page as the server has it now.  Of the answer, only the outcome of the
\* comparison is kept: the page it is compared with stays as long as the document.
PollAnswered ==
  /\ Running /\ poll.st = "sent" /\ poll' = [st |-> "page", changed |-> Changed(FirstPage)]
  /\ delay' = 1
  /\ UNCHANGED <<mail, doc, page, visible, timer, reading>>

PollHandled ==
  /\ Running /\ poll.st = "page" /\ EndPoll
  /\ doc' = IF poll.changed THEN "reloading" ELSE doc
  /\ UNCHANGED <<mail, page, visible, delay, reading>>

\* 429 or 503.
PollRefused ==
  /\ Running /\ poll.st = "sent" /\ EndPoll
  /\ delay' = IF 2 * delay < MaxDelay THEN 2 * delay ELSE MaxDelay
  /\ UNCHANGED <<mail, doc, page, visible, reading>>

\* Another status or no network; or a 200 whose body breaks off.
PollFails ==
  /\ Running /\ poll.st = "sent" /\ EndPoll /\ delay' \in {delay, 1}
  /\ UNCHANGED <<mail, doc, page, visible, reading>>

-----------------------------------------------------------------------------
(* The reader.                                                              *)

NewArticle == [st |-> "none", html |-> FALSE, plain |-> FALSE, images |-> FALSE,
               frame |-> "none"]

ensureFrame(a) ==
  IF a.html /\ a.frame = "none"
  THEN [a EXCEPT !.frame = IF a.images THEN "remote" ELSE "blocked"] ELSE a

\* loadMessage, then the frame unless the plain text is shown.
Opened(a) ==
  LET b == IF a.st \in {"none", "failed"} THEN [a EXCEPT !.st = "loading"] ELSE a
  IN  IF b.plain THEN b ELSE ensureFrame(b)

\* The part of select that every caller shares.  Of the list, the keys reach a
\* neighbour and the mouse any row.
Activate(m) ==
  /\ Running /\ m \in Members(page.ids)
  /\ current' = m /\ art' = [art EXCEPT ![m] = Opened(@)]
  /\ travelled' = (travelled /\ m = current)
  /\ UNCHANGED <<mail, doc, page, polling>>

\* Mutant: the URL keeps the message the page was opened with.
NotRemembered(m) == entries

\* history.replaceState in select: only the entry of the location changes, and
\* only if the row is not selected yet.
Remembered(m) == IF m = current THEN entries ELSE [entries EXCEPT ![at] = m]

\* A click on a wide window, or j, k, an arrow, Home or End, which open nothing.
Select(m) ==
  /\ Activate(m) /\ entries' = Remembered(m) /\ UNCHANGED <<isReading, at>>

\* A click on a narrow window: openReader adds an entry with the same URL and
\* { reader: true }, and the entries ahead are gone.
SelectAndOpen(m) ==
  /\ ~isReading /\ at < MaxHistory /\ Activate(m)
  /\ entries' = Append(SubSeq(Remembered(m), 1, at), Remembered(m)[at])
  /\ isReading' = TRUE /\ at' = at + 1

\* The back button, Escape, or the browser's own buttons: the location moves and
\* popstate follows, which selects nothing.  Every entry but the first is one
\* of openReader's; on the first the reader is closed.
Travel(i) ==
  /\ i # at /\ at' = i /\ travelled' = TRUE
  /\ isReading' = (isReading /\ i # 1)
  /\ UNCHANGED <<mail, doc, page, polling, current, art, entries>>

\* The window gets wide.
Widen ==
  /\ isReading /\ isReading' = FALSE
  /\ UNCHANGED <<mail, doc, page, polling, current, art, entries, at, travelled>>

\* Mutant: the frame is only made when a message is selected.
LateBodyWithoutFrame(m) ==
  /\ Running /\ art[m].st = "loading" /\ m \in Members(inbox)
  /\ art' = [art EXCEPT ![m].st = "loaded", ![m].html = m \in HasHTML]
  /\ UNCHANGED <<mail, doc, page, polling, current, browsing>>

\* The body arrives, perhaps when another message is selected.
BodyArrives(m) ==
  /\ Running /\ art[m].st = "loading" /\ m \in Members(inbox)
  /\ LET a == [art[m] EXCEPT !.st = "loaded", !.html = m \in HasHTML]
     IN  art' = [art EXCEPT ![m] = IF m = current /\ ~a.plain THEN ensureFrame(a) ELSE a]
  /\ UNCHANGED <<mail, doc, page, polling, current, browsing>>

\* 404, 500 or no network: the text says so; selecting it again retries.
BodyFails(m) ==
  /\ Running /\ art[m].st = "loading"
  /\ art' = [art EXCEPT ![m].st = "failed", ![m].html = FALSE]
  /\ UNCHANGED <<mail, doc, page, polling, current, browsing>>

\* The toolbar is shown with an article that has HTML (ui.css:191).
ShowView(plain) ==
  /\ Running /\ current # "none" /\ art[current].html
  /\ LET a == [art[current] EXCEPT !.plain = plain]
     IN  art' = [art EXCEPT ![current] = IF plain THEN a ELSE ensureFrame(a)]
  /\ UNCHANGED <<mail, doc, page, polling, current, browsing>>

\* The button is shown with the formatted view of a body that has images
\* (ui.css:199).
ToggleImages ==
  /\ Running /\ current # "none" /\ art[current].html /\ ~art[current].plain
  /\ LET a == [art[current] EXCEPT !.images = ~@, !.frame = "none"]
     IN  art' = [art EXCEPT ![current] = ensureFrame(a)]
  /\ UNCHANGED <<mail, doc, page, polling, current, browsing>>

-----------------------------------------------------------------------------
(* The document.                                                            *)

\* The refresh button, the key r, or the browser's own reload.
Refresh ==
  /\ doc' = IF Running THEN "reloading" ELSE "loading"
  /\ UNCHANGED <<mail, page, polling, reading>>

\* The message of the URL, if the page still has it, or else the first.
Chosen(ids) ==
  IF entries[at] \in Members(ids) THEN entries[at]
  ELSE IF ids = <<>> THEN "none" ELSE ids[1]

\* renderInbox includes the chosen body, unless it has just gone; then the
\* script selects the row and schedules the first poll.  The history stays.
Load ==
  /\ doc \in {"loading", "reloading"} /\ doc' = "live" /\ page' = FirstPage
  /\ LET m == Chosen(FirstPage.ids)
     IN  /\ current' = m
         /\ entries' = IF m = "none" THEN entries ELSE [entries EXCEPT ![at] = m]
         /\ \E body \in BOOLEAN :
              LET a == IF body THEN [NewArticle EXCEPT !.st = "loaded", !.html = m \in HasHTML]
                               ELSE NewArticle
              IN  art' = [x \in Messages |-> IF x = m THEN Opened(a) ELSE NewArticle]
  /\ timer' = visible /\ poll' = Idle /\ delay' = 1
  /\ isReading' = FALSE /\ travelled' = FALSE
  /\ UNCHANGED <<mail, visible, at>>

\* The server refuses the page: what is shown instead has no script.
LoadFails ==
  /\ doc \in {"loading", "reloading"} /\ doc' = "error"
  /\ timer' = FALSE /\ poll' = Idle /\ delay' = 1
  /\ current' = "none" /\ art' = [x \in Messages |-> NewArticle]
  /\ page' = NoPage
  /\ isReading' = FALSE /\ travelled' = FALSE
  /\ UNCHANGED <<mail, visible, entries, at>>

-----------------------------------------------------------------------------
Init ==
  /\ inbox = Earlier /\ arrived = Members(Earlier) /\ doc = "loading" /\ page = NoPage
  /\ visible = TRUE /\ timer = FALSE /\ poll = Idle /\ delay = 1
  /\ current = "none" /\ art = [m \in Messages |-> NewArticle]
  /\ isReading = FALSE /\ entries = <<"none">> /\ at = 1 /\ travelled = FALSE

Poll == TimerFires \/ PollAnswered \/ PollHandled
Next ==
  \/ Expire \/ Poll \/ CheckNow \/ Show \/ Hide \/ PollRefused \/ PollFails
  \/ ToggleImages \/ Refresh \/ Load \/ LoadFails \/ Widen
  \/ \E m \in Messages :
       Arrive(m) \/ Select(m) \/ SelectAndOpen(m) \/ BodyArrives(m) \/ BodyFails(m)
  \/ \E i \in DOMAIN entries : Travel(i)
  \/ \E plain \in BOOLEAN : ShowView(plain)

Spec == Init /\ [][Next]_vars

\* Timeouts fire, requests are answered in some way, and a reload ends.
FairSpec == Spec /\ WF_vars(Poll \/ PollRefused \/ PollFails) /\ WF_vars(Load \/ LoadFails)

-----------------------------------------------------------------------------
(* Properties.                                                              *)

\* Every variable stays in its type.
TypeOK ==
  /\ inbox \in Seq(Messages) /\ arrived \subseteq Messages
  /\ doc \in {"live", "reloading", "error", "loading"} /\ visible \in BOOLEAN /\ timer \in BOOLEAN
  /\ poll.st \in {"none", "sent", "page"} /\ delay \in 1 .. MaxDelay
  /\ current \in Messages \cup {"none"}
  /\ entries \in Seq(Messages \cup {"none"}) /\ at \in 1 .. Len(entries)
  /\ Len(entries) <= MaxHistory
  /\ isReading \in BOOLEAN /\ travelled \in BOOLEAN
  /\ art \in [Messages -> [st : {"none", "loading", "loaded", "failed"}, html : BOOLEAN,
                           plain : BOOLEAN, images : BOOLEAN, frame : {"none", "blocked", "remote"}]]

\* While the tab is visible, the next check is always under way: whatever the
\* order of clicks, timeouts, answers and visibility changes, there is a timer
\* or a request, never both, and a hidden tab sets no timer (ui.js:442-481).
PollAlive ==
  /\ doc = "live" /\ visible => (timer <=> poll.st = "none")
  /\ ~visible => ~timer

\* The reader shows what was asked for, however late a body arrives: a frame
\* stands in the article of a message with HTML and loads remote images only if
\* the reader chose so in this document; the selected message is loaded or
\* loading, and once it is loaded its HTML is there unless plain text was
\* chosen (ui.js:232-311, 326-396).
ReaderTruthful ==
  /\ \A m \in Messages :
       art[m].frame # "none" => m \in HasHTML /\ (art[m].frame = "remote" <=> art[m].images)
  /\ current # "none" =>
       /\ art[current].st # "none"
       /\ art[current].html /\ ~art[current].plain => art[current].frame # "none"

\* "The URL hash preserves selection if it is still present; otherwise
\* selection falls back" (ui.js:463-464): a reload, whoever asked for it and
\* whatever arrived, expired or was selected meanwhile, does not take the reader
\* to another message, unless the tab has gone back or forward in its history
\* since the selection last changed.
SelectionKept ==
  [][Load /\ current \in Messages /\ ~travelled =>
       IF current \in Members(page'.ids) THEN current' = current
       ELSE page'.ids # <<>> => current' = page'.ids[1]]_vars

\* In a visible tab, once requests are no longer refused, the page ends up
\* showing the first page of the mailbox as it is (ui.js:418-482).
NewMailShown ==
  <>[]visible /\ <>[](doc # "error") /\ <>[][~PollRefused /\ ~PollFails]_vars =>
    <>[](page = FirstPage)
=============================================================================
