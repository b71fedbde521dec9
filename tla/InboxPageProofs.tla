--------------------------- MODULE InboxPageProofs ---------------------------
(* Theorems about InboxPage, for any finite set of messages, any page size,  *)
(* any longest delay and any length of the session history.                  *)
EXTENDS InboxPage, SequenceTheorems, TLAPS

USE InboxAssumption

Article == [st : {"none", "loading", "loaded", "failed"}, html : BOOLEAN,
            plain : BOOLEAN, images : BOOLEAN, frame : {"none", "blocked", "remote"}]

\* An article is true to its message m.
Faithful(m, a) ==
  /\ a.html => m \in HasHTML
  /\ a.frame # "none" => m \in HasHTML /\ (a.frame = "remote" <=> a.images)

\* An article shows what its reader asked for.
Shown(a) == a.st # "none" /\ (a.html /\ ~a.plain => a.frame # "none")

Articles ==
  /\ \A m \in Messages : Faithful(m, art[m])
  /\ current # "none" => Shown(art[current])

\* The tab's location is one of the entries.
Location ==
  /\ entries \in Seq(Messages \cup {"none"}) /\ at \in 1 .. Len(entries)
  /\ Len(entries) <= MaxHistory /\ isReading \in BOOLEAN /\ travelled \in BOOLEAN

\* The selected message is the one in the URL, until the location moves.
Hash == current # "none" /\ ~travelled => entries[at] = current

\* While the reader is open the location is at an entry that openReader added.
ReaderHasEntry == isReading => at > 1

Browsing == Location /\ Hash /\ ReaderHasEntry

\* The inductive invariant.
InboxInv == TypeOK /\ PollAlive /\ Articles /\ Browsing

-----------------------------------------------------------------------------
(* Articles.                                                                *)

\* A frame is made with the images the reader chose.
LEMMA EnsureFrame ==
  ASSUME NEW m \in Messages, NEW a \in Article, Faithful(m, a)
  PROVE  /\ ensureFrame(a) \in Article /\ Faithful(m, ensureFrame(a))
         /\ a.st # "none" => Shown(ensureFrame(a))
<1>1. CASE a.html /\ a.frame = "none"
  BY <1>1 DEF ensureFrame, Article, Faithful, Shown
<1>2. CASE ~(a.html /\ a.frame = "none")
  BY <1>2 DEF ensureFrame, Article, Faithful, Shown
<1> QED BY <1>1, <1>2

\* Opening an article loads it and shows it.
LEMMA OpenArticle ==
  ASSUME NEW m \in Messages, NEW a \in Article, Faithful(m, a)
  PROVE  Opened(a) \in Article /\ Faithful(m, Opened(a)) /\ Shown(Opened(a))
<1> DEFINE b == IF a.st \in {"none", "failed"} THEN [a EXCEPT !.st = "loading"] ELSE a
<1>1. b \in Article /\ Faithful(m, b) /\ b.st # "none" BY DEF Article, Faithful
<1>2. Opened(a) = IF b.plain THEN b ELSE ensureFrame(b) BY DEF Opened
<1> HIDE DEF b
<1>3. CASE b.plain BY <1>1, <1>2, <1>3 DEF Shown
<1>4. CASE ~b.plain BY <1>1, <1>2, <1>4, EnsureFrame
<1> QED BY <1>3, <1>4

\* A change of one article, and perhaps of the selection.
LEMMA ArticleMove ==
  ASSUME TypeOK, Articles, NEW m \in Messages, NEW a \in Article, Faithful(m, a),
         art' = [art EXCEPT ![m] = a],
         \/ current' = current /\ (m = current => Shown(a))
         \/ current' = m /\ Shown(a)
  PROVE  art' \in [Messages -> Article] /\ Articles'
<1>1. art \in [Messages -> Article] /\ current \in Messages \cup {"none"} BY DEF TypeOK, Article
<1>2. art' \in [Messages -> Article] BY <1>1
<1>3. \A x \in Messages : Faithful(x, art'[x]) BY <1>1 DEF Articles
<1>4. current' # "none" => Shown(art'[current']) BY <1>1 DEF Articles
<1> QED BY <1>2, <1>3, <1>4 DEF Articles

-----------------------------------------------------------------------------
(* The steps.                                                               *)

\* What polling does not touch keeps its part of the invariant.
LEMMA ReadingRests == ASSUME Articles, Browsing, UNCHANGED reading PROVE Articles' /\ Browsing'
<1>1. UNCHANGED <<current, art>> /\ UNCHANGED browsing BY DEF reading
<1>2. Articles' BY <1>1 DEF Articles, Faithful, Shown
<1>3. Browsing' BY <1>1, Zenon DEF Browsing, Location, Hash, ReaderHasEntry, browsing
<1> QED BY <1>2, <1>3

\* Mail arrives and expires at the server.
LEMMA MailInv ==
  ASSUME InboxInv, Expire \/ \E m \in Messages : Arrive(m)
  PROVE  InboxInv'
<1>1. UNCHANGED <<doc, page, polling, reading>> BY DEF Expire, Arrive
<1>2. Articles' /\ Browsing' BY <1>1, ReadingRests DEF InboxInv
<1>3. inbox' \in Seq(Messages) /\ arrived' \subseteq Messages
  <2>1. inbox \in Seq(Messages) /\ arrived \subseteq Messages BY DEF InboxInv, TypeOK
  <2>2. CASE Expire
    <3>1. inbox # <<>> /\ inbox' = SubSeq(inbox, 1, Len(inbox) - 1) /\ arrived' = arrived
      BY <2>2 DEF Expire
    <3> QED BY <2>1, <3>1
  <2>3. ASSUME NEW m \in Messages, Arrive(m)
        PROVE  inbox' \in Seq(Messages) /\ arrived' \subseteq Messages
    <3>1. <<m>> \in Seq(Messages) OBVIOUS
    <3>2. inbox' = <<m>> \o inbox /\ arrived' = arrived \cup {m} BY <2>3 DEF Arrive
    <3> QED BY <2>1, <3>1, <3>2
  <2> QED BY <2>2, <2>3
<1>4. TypeOK' BY <1>1, <1>3 DEF InboxInv, TypeOK, polling, reading, browsing
<1>5. PollAlive' BY <1>1 DEF InboxInv, PollAlive, polling
<1> QED BY <1>2, <1>4, <1>5 DEF InboxInv

\* Timeouts, answers, clicks on the live button and changes of visibility.
LEMMA PollInv ==
  ASSUME InboxInv,
         Poll \/ CheckNow \/ Show \/ Hide \/ PollRefused \/ PollFails \/ Refresh
  PROVE  InboxInv'
<1>1. UNCHANGED <<mail, reading>>
  BY DEF Poll, TimerFires, PollAnswered, PollHandled, CheckNow, Show, Hide, PollRefused,
         PollFails, Refresh
<1>2. Articles' /\ Browsing' BY <1>1, ReadingRests DEF InboxInv
<1>3. /\ doc \in {"live", "reloading", "error", "loading"} /\ visible \in BOOLEAN /\ timer \in BOOLEAN
      /\ poll.st \in {"none", "sent", "page"} /\ delay \in 1 .. MaxDelay /\ PollAlive
  BY DEF InboxInv, TypeOK
<1>4. Idle.st = "none" /\ [Idle EXCEPT !.st = "sent"].st = "sent"
      /\ \A x : [st |-> "page", changed |-> x].st = "page"
  BY DEF Idle
<1>5. /\ doc' \in {"live", "reloading", "error", "loading"} /\ visible' \in BOOLEAN /\ timer' \in BOOLEAN
      /\ poll'.st \in {"none", "sent", "page"} /\ delay' \in 1 .. MaxDelay
  <2>1. visible' \in BOOLEAN /\ timer' \in BOOLEAN
    BY <1>3, Zenon
       DEF Poll, TimerFires, PollAnswered, PollHandled, CheckNow, Show, Hide, PollRefused,
           PollFails, Refresh, EndPoll, polling
  <2>2. poll'.st \in {"none", "sent", "page"}
    BY <1>3, <1>4
       DEF Poll, TimerFires, PollAnswered, PollHandled, CheckNow, Show, Hide, PollRefused,
           PollFails, Refresh, EndPoll, StartPoll, polling
  <2>3. doc' \in {"live", "reloading", "error", "loading"} /\ delay' \in 1 .. MaxDelay
    BY <1>3
       DEF Poll, TimerFires, PollAnswered, PollHandled, CheckNow, Show, Hide, PollRefused,
           PollFails, Refresh, polling
  <2> QED BY <2>1, <2>2, <2>3
<1>6. TypeOK' BY <1>1, <1>5 DEF InboxInv, TypeOK, mail, reading, browsing
<1>7. PollAlive'
  <2>1. CASE TimerFires BY <1>3, <1>4, <2>1 DEF TimerFires, StartPoll, PollAlive
  <2>2. CASE PollAnswered BY <1>3, <1>4, <2>2 DEF PollAnswered, PollAlive
  <2>3. CASE PollHandled BY <1>3, <1>4, <2>3 DEF PollHandled, EndPoll, PollAlive
  <2>4. CASE CheckNow BY <1>3, <1>4, <2>4 DEF CheckNow, StartPoll, PollAlive
  <2>5. CASE Show
    <3>1. visible' /\ ~timer /\ timer' = timer /\ doc' = doc
      BY <1>3, <2>5, Zenon DEF Show, PollAlive
    <3>2. doc = "live" => poll'.st # "none" BY <1>3, <1>4, <2>5 DEF Show, Running, StartPoll
    <3> QED BY <3>1, <3>2, Zenon DEF PollAlive
  <2>6. CASE Hide BY <1>3, <1>4, <2>6 DEF Hide, PollAlive
  <2>7. CASE PollRefused BY <1>3, <1>4, <2>7 DEF PollRefused, EndPoll, PollAlive
  <2>8. CASE PollFails BY <1>3, <1>4, <2>8 DEF PollFails, EndPoll, PollAlive
  <2>9. CASE Refresh BY <1>3, <1>4, <2>9 DEF Refresh, polling, PollAlive
  <2> QED BY <2>1, <2>2, <2>3, <2>4, <2>5, <2>6, <2>7, <2>8, <2>9 DEF Poll
<1> QED BY <1>2, <1>6, <1>7 DEF InboxInv

\* What select does to the URL.
LEMMA Remembering ==
  ASSUME Location, NEW m \in Messages
  PROVE  /\ Remembered(m) \in Seq(Messages \cup {"none"})
         /\ Len(Remembered(m)) = Len(entries)
         /\ Remembered(m)[at] = IF m = current THEN entries[at] ELSE m
<1>1. CASE m = current BY <1>1 DEF Remembered, Location
<1>2. CASE m # current
  <2>1. Remembered(m) = [entries EXCEPT ![at] = m] BY <1>2 DEF Remembered
  <2>2. entries \in Seq(Messages \cup {"none"}) /\ at \in 1 .. Len(entries)
        /\ m \in Messages \cup {"none"}
    BY DEF Location
  <2> QED BY <1>2, <2>1, <2>2, ExceptSeq
<1> QED BY <1>1, <1>2

\* A row that is selected, with or without an entry for the reader.
LEMMA SelectBrowsing ==
  ASSUME Browsing, NEW m \in Messages, Select(m) \/ SelectAndOpen(m)
  PROVE  Browsing'
<1> DEFINE S == Messages \cup {"none"}
           r == Remembered(m)
<1>1. current' = m /\ travelled' = (travelled /\ m = current)
  BY DEF Select, SelectAndOpen, Activate
<1>2. r \in Seq(S) /\ Len(r) = Len(entries) /\ r[at] = IF m = current THEN entries[at] ELSE m
  BY Remembering DEF Browsing
<1>3. at \in 1 .. Len(entries) /\ Len(entries) \in Nat /\ Len(entries) <= MaxHistory
      /\ isReading \in BOOLEAN
  BY LenProperties DEF Browsing, Location
<1>4. travelled' \in BOOLEAN BY <1>1, Zenon
<1>5. ASSUME m # "none", ~travelled' PROVE r[at] = m
  BY <1>1, <1>2, <1>5 DEF Browsing, Hash
<1>6. CASE Select(m)
  <2>1. entries' = r /\ at' = at /\ isReading' = isReading BY <1>6 DEF Select
  <2> HIDE DEF r
  <2>2. Location' BY <1>2, <1>3, <1>4, <2>1 DEF Location
  <2>3. Hash' BY <1>1, <1>5, <2>1 DEF Hash
  <2>4. ReaderHasEntry' BY <2>1 DEF Browsing, ReaderHasEntry
  <2> QED BY <2>2, <2>3, <2>4 DEF Browsing
<1>7. CASE SelectAndOpen(m)
  <2> DEFINE t == SubSeq(r, 1, at)
  <2>1. entries' = Append(t, r[at]) /\ at' = at + 1 /\ isReading' = TRUE /\ at < MaxHistory
    BY <1>7 DEF SelectAndOpen
  <2> HIDE DEF r
  <2>2. r[at] \in S /\ \A i \in 1 .. at : r[i] \in S BY <1>2, <1>3
  <2>3. t \in Seq(S) /\ Len(t) = at BY <1>3, <2>2, SubSeqProperties
  <2> HIDE DEF t
  <2>4. /\ entries' \in Seq(S) /\ Len(entries') = at + 1
        /\ entries'[at + 1] = r[at]
    BY <2>1, <2>2, <2>3, AppendProperties
  <2>5. Location' BY <1>3, <1>4, <2>1, <2>4 DEF Location
  <2>6. Hash' BY <1>1, <1>5, <2>1, <2>4 DEF Hash
  <2>7. ReaderHasEntry' BY <1>3, <2>1 DEF ReaderHasEntry
  <2> QED BY <2>5, <2>6, <2>7 DEF Browsing
<1> QED BY <1>6, <1>7

\* Back, forward, and a window that gets wide.
LEMMA TravelInv ==
  ASSUME InboxInv, Widen \/ \E i \in DOMAIN entries : Travel(i)
  PROVE  InboxInv'
<1>1. UNCHANGED <<mail, doc, page, polling, current, art, entries>> BY DEF Widen, Travel
<1>2. TypeOK /\ Browsing /\ Location BY DEF InboxInv, Browsing
<1>3. Browsing'
  <2>1. CASE Widen
    <3>1. isReading' = FALSE /\ UNCHANGED <<at, travelled>> BY <2>1 DEF Widen
    <3> QED BY <1>1, <1>2, <3>1, Zenon DEF Browsing, Location, Hash, ReaderHasEntry
  <2>2. ASSUME NEW i \in DOMAIN entries, Travel(i) PROVE Browsing'
    <3>1. at' = i /\ travelled' = TRUE /\ isReading' = (isReading /\ i # 1)
      BY <2>2 DEF Travel
    <3>2. i \in 1 .. Len(entries) BY <1>2 DEF Location
    <3>3. isReading' \in BOOLEAN /\ (isReading' => i # 1) BY <3>1, Zenon
    <3>4. Location' BY <1>1, <1>2, <3>1, <3>2, <3>3 DEF Location
    <3>5. Hash' BY <3>1 DEF Hash
    <3>6. ReaderHasEntry' BY <3>1, <3>2, <3>3 DEF ReaderHasEntry
    <3> QED BY <3>4, <3>5, <3>6 DEF Browsing
  <2> QED BY <2>1, <2>2
<1>4. Articles' BY <1>1 DEF InboxInv, Articles, Faithful, Shown
<1>5. TypeOK' BY <1>1, <1>2, <1>3 DEF Browsing, Location, TypeOK, mail, polling
<1>6. PollAlive' BY <1>1 DEF InboxInv, PollAlive, polling
<1> QED BY <1>3, <1>4, <1>5, <1>6 DEF InboxInv

\* Clicks in the reader, and bodies that arrive or fail at any time.
LEMMA ReadInv ==
  ASSUME InboxInv,
         \/ ToggleImages
         \/ \E m \in Messages : Select(m) \/ SelectAndOpen(m) \/ BodyArrives(m) \/ BodyFails(m)
         \/ \E plain \in BOOLEAN : ShowView(plain)
  PROVE  InboxInv'
<1>1. UNCHANGED <<mail, doc, page, polling>>
  BY DEF ToggleImages, Select, SelectAndOpen, Activate, BodyArrives, BodyFails, ShowView
<1>2. PollAlive' BY <1>1 DEF InboxInv, PollAlive, polling
<1>3. TypeOK /\ Articles /\ Browsing BY DEF InboxInv
<1>4. /\ art \in [Messages -> Article] /\ \A m \in Messages : Faithful(m, art[m])
      /\ current \in Messages \cup {"none"} /\ (current # "none" => Shown(art[current]))
  BY <1>3 DEF TypeOK, Article, Articles
<1>5. ASSUME art' \in [Messages -> Article], Articles',
             \/ UNCHANGED <<current, browsing>>
             \/ current' \in Messages /\ Browsing'
      PROVE  InboxInv'
  <2>1. Browsing'
    <3>1. CASE UNCHANGED <<current, browsing>>
      BY <1>3, <3>1, Zenon DEF Browsing, Location, Hash, ReaderHasEntry, browsing
    <3> QED BY <1>5, <3>1
  <2>2. current' \in Messages \cup {"none"} BY <1>4, <1>5
  <2>3. TypeOK' BY <1>1, <1>3, <1>5, <2>1, <2>2
    DEF TypeOK, Article, mail, polling, Browsing, Location
  <2> QED BY <1>2, <1>5, <2>1, <2>3 DEF InboxInv
<1>6. ASSUME NEW m \in Messages, Select(m) \/ SelectAndOpen(m) PROVE InboxInv'
  <2>1. art' = [art EXCEPT ![m] = Opened(art[m])] /\ current' = m
    BY <1>6 DEF Select, SelectAndOpen, Activate
  <2>0. Browsing' BY <1>3, <1>6, SelectBrowsing
  <2>2. Opened(art[m]) \in Article /\ Faithful(m, Opened(art[m])) /\ Shown(Opened(art[m]))
    BY <1>4, OpenArticle
  <2>3. art' \in [Messages -> Article] /\ Articles' BY <1>3, <2>1, <2>2, ArticleMove
  <2> QED BY <1>5, <2>0, <2>1, <2>3
<1>7. ASSUME NEW m \in Messages, BodyArrives(m) PROVE InboxInv'
  <2> DEFINE h == m \in HasHTML
             q == [art[m] EXCEPT !.st = "loaded"]
             a == [q EXCEPT !.html = h]
             b == IF m = current /\ ~a.plain THEN ensureFrame(a) ELSE a
  <2>1. a \in Article /\ Faithful(m, a) /\ a.st = "loaded"
    <3>1. q \in Article /\ Faithful(m, q) /\ q.st = "loaded" BY <1>4 DEF Article, Faithful
    <3>2. h \in BOOLEAN /\ (h => m \in HasHTML) OBVIOUS
    <3> HIDE DEF q, h
    <3>3. a \in Article /\ a.html = h /\ a.st = "loaded" /\ a.frame = q.frame /\ a.images = q.images
      BY <3>1, <3>2 DEF Article
    <3> QED BY <3>1, <3>2, <3>3 DEF Faithful
  <2>2. art' = [art EXCEPT ![m] = b] /\ UNCHANGED <<current, browsing>> BY <1>7 DEF BodyArrives
  <2> HIDE DEF a
  <2>3. b \in Article /\ Faithful(m, b) /\ (m = current => Shown(b))
    <3>1. CASE m = current /\ ~a.plain BY <2>1, <3>1, EnsureFrame
    <3>2. CASE ~(m = current /\ ~a.plain) BY <2>1, <3>2 DEF Shown
    <3> QED BY <3>1, <3>2
  <2> HIDE DEF b
  <2>4. art' \in [Messages -> Article] /\ Articles' BY <1>3, <2>2, <2>3, ArticleMove
  <2> QED BY <1>5, <2>2, <2>4
<1>8. ASSUME NEW m \in Messages, BodyFails(m) PROVE InboxInv'
  <2> DEFINE q == [art[m] EXCEPT !.st = "failed"]
             a == [q EXCEPT !.html = FALSE]
  <2>1. a \in Article /\ Faithful(m, a) /\ Shown(a)
    <3>1. q \in Article /\ Faithful(m, q) /\ q.st = "failed" BY <1>4 DEF Article, Faithful
    <3> HIDE DEF q
    <3> QED BY <3>1 DEF Article, Faithful, Shown
  <2>2. art' = [art EXCEPT ![m] = a] /\ UNCHANGED <<current, browsing>> BY <1>8 DEF BodyFails
  <2> HIDE DEF a
  <2>3. art' \in [Messages -> Article] /\ Articles' BY <1>3, <2>1, <2>2, ArticleMove
  <2> QED BY <1>5, <2>2, <2>3
<1>9. ASSUME NEW plain \in BOOLEAN, ShowView(plain) PROVE InboxInv'
  <2> DEFINE a == [art[current] EXCEPT !.plain = plain]
             b == IF plain THEN a ELSE ensureFrame(a)
  <2>0. current \in Messages BY <1>4, <1>9 DEF ShowView
  <2>1. a \in Article /\ Faithful(current, a) /\ a.st # "none" /\ (plain => a.plain)
    BY <1>4, <2>0 DEF Article, Faithful, Shown
  <2>2. art' = [art EXCEPT ![current] = b] /\ UNCHANGED <<current, browsing>> BY <1>9 DEF ShowView
  <2> HIDE DEF a
  <2>3. b \in Article /\ Faithful(current, b) /\ Shown(b)
    <3>1. CASE plain BY <2>1, <3>1 DEF Shown
    <3>2. CASE ~plain BY <2>0, <2>1, <3>2, EnsureFrame
    <3> QED BY <3>1, <3>2
  <2> HIDE DEF b
  <2>4. art' \in [Messages -> Article] /\ Articles' BY <1>3, <2>0, <2>2, <2>3, ArticleMove
  <2> QED BY <1>5, <2>2, <2>4
<1>10. CASE ToggleImages
  <2> DEFINE q == [art[current] EXCEPT !.images = ~@]
             a == [q EXCEPT !.frame = "none"]
  <2>0. current \in Messages BY <1>4, <1>10 DEF ToggleImages
  <2>1. a \in Article /\ Faithful(current, a) /\ a.st # "none"
    <3>1. q \in Article /\ (q.html => current \in HasHTML) /\ q.st # "none"
      BY <1>4, <2>0, ZenonT(60) DEF Article, Faithful, Shown
    <3> HIDE DEF q
    <3> QED BY <3>1 DEF Article, Faithful
  <2>2. art' = [art EXCEPT ![current] = ensureFrame(a)] /\ UNCHANGED <<current, browsing>>
    <3>1. /\ art' = [art EXCEPT ![current] =
                  ensureFrame([art[current] EXCEPT !.images = ~@, !.frame = "none"])]
          /\ UNCHANGED <<current, browsing>>
      BY <1>10 DEF ToggleImages
    <3>2. [art[current] EXCEPT !.images = ~@, !.frame = "none"] = a OBVIOUS
    <3> QED BY <3>1, <3>2
  <2> HIDE DEF a
  <2>3. ensureFrame(a) \in Article /\ Faithful(current, ensureFrame(a)) /\ Shown(ensureFrame(a))
    BY <2>0, <2>1, EnsureFrame
  <2>4. art' \in [Messages -> Article] /\ Articles' BY <1>3, <2>0, <2>2, <2>3, ArticleMove
  <2> QED BY <1>5, <2>2, <2>4
<1> QED BY <1>6, <1>7, <1>8, <1>9, <1>10

-----------------------------------------------------------------------------
(* The document.                                                            *)

\* The first page holds messages of the mailbox.
LEMMA FirstPageMessages ==
  ASSUME TypeOK
  PROVE  FirstPage.ids \in Seq(Messages) /\ Chosen(FirstPage.ids) \in Messages \cup {"none"}
<1>1. inbox \in Seq(Messages) /\ entries[at] \in Messages \cup {"none"} BY DEF TypeOK
<1> DEFINE n == IF Len(inbox) < PageSize THEN Len(inbox) ELSE PageSize
           ids == SubSeq(inbox, 1, n)
<1>2. n \in Nat /\ n <= Len(inbox) BY <1>1
<1>3. FirstPage.ids = ids BY DEF FirstPage
<1> HIDE DEF n
<1>4. ids \in Seq(Messages) BY <1>1, <1>2
<1> HIDE DEF ids
<1>5. Chosen(ids) \in Messages \cup {"none"}
  <2>1. CASE ids = <<>> BY <1>1, <2>1 DEF Chosen
  <2>2. CASE ids # <<>>
    <3>1. ids[1] \in Messages BY <1>4, <2>2
    <3> QED BY <1>1, <2>2, <3>1 DEF Chosen
  <2> QED BY <2>1, <2>2
<1> QED BY <1>3, <1>4, <1>5

\* A new document shows the chosen message and sets its timer; an error page
\* has no script.
LEMMA LoadInv == ASSUME InboxInv, Load \/ LoadFails PROVE InboxInv'
<1>1. TypeOK /\ visible \in BOOLEAN BY DEF InboxInv, TypeOK
<1>2. /\ NewArticle \in Article /\ \A m \in Messages : Faithful(m, NewArticle)
  BY DEF NewArticle, Article, Faithful
<1>3. Idle.st = "none" BY DEF Idle
<1>4. CASE Load
  <2> DEFINE m == Chosen(FirstPage.ids)
  <2>1. PICK body \in BOOLEAN :
          LET a == IF body THEN [NewArticle EXCEPT !.st = "loaded", !.html = m \in HasHTML]
                           ELSE NewArticle
          IN  art' = [x \in Messages |-> IF x = m THEN Opened(a) ELSE NewArticle]
    BY <1>4 DEF Load
  <2>2. /\ doc' = "live" /\ current' = m
        /\ entries' = (IF m = "none" THEN entries ELSE [entries EXCEPT ![at] = m])
        /\ timer' = visible /\ poll' = Idle /\ delay' = 1 /\ isReading' = FALSE
        /\ travelled' = FALSE /\ UNCHANGED <<mail, visible, at>>
    BY <1>4 DEF Load
  <2>3. m \in Messages \cup {"none"} BY <1>1, FirstPageMessages
  <2> DEFINE h == m \in HasHTML
             q == [NewArticle EXCEPT !.st = "loaded"]
             a == IF body THEN [q EXCEPT !.html = h] ELSE NewArticle
  <2>4. art' = [x \in Messages |-> IF x = m THEN Opened(a) ELSE NewArticle]
    <3>1. [NewArticle EXCEPT !.st = "loaded", !.html = h] = [q EXCEPT !.html = h] OBVIOUS
    <3> QED BY <2>1, <3>1
  <2>5. a \in Article /\ Faithful(m, a)
    <3>1. h \in BOOLEAN /\ (h => m \in HasHTML) OBVIOUS
    <3>2. q \in Article /\ q.frame = "none" BY DEF NewArticle, Article
    <3> HIDE DEF q, h
    <3>3. [q EXCEPT !.html = h] \in Article /\ [q EXCEPT !.html = h].html = h
          /\ [q EXCEPT !.html = h].frame = "none"
      BY <3>1, <3>2 DEF Article
    <3>4. NewArticle.html = FALSE /\ NewArticle.frame = "none" BY DEF NewArticle
    <3> QED BY <1>2, <3>1, <3>3, <3>4 DEF Faithful
  <2> HIDE DEF a, m
  <2>6. m \in Messages => Opened(a) \in Article /\ Faithful(m, Opened(a)) /\ Shown(Opened(a))
    BY <2>5, OpenArticle
  <2>7. art' \in [Messages -> Article] BY <1>2, <2>4, <2>6
  <2>8. \A x \in Messages : Faithful(x, art'[x]) BY <1>2, <2>4, <2>6
  <2>9. Articles' BY <2>2, <2>3, <2>4, <2>6, <2>8 DEF Articles
  <2>10. Browsing'
    <3>1. entries \in Seq(Messages \cup {"none"}) /\ at \in 1 .. Len(entries) BY <1>1 DEF TypeOK
    <3>2. /\ entries' \in Seq(Messages \cup {"none"}) /\ Len(entries') = Len(entries)
          /\ (m # "none" => entries'[at] = m)
      <4>1. CASE m = "none" BY <2>2, <3>1, <4>1
      <4>2. CASE m # "none"
        <5>1. entries' = [entries EXCEPT ![at] = m] BY <2>2, <4>2
        <5> QED BY <2>3, <3>1, <5>1, ExceptSeq
      <4> QED BY <4>1, <4>2
    <3>3. Location' BY <1>1, <2>2, <3>1, <3>2 DEF TypeOK, Location
    <3>4. Hash' BY <2>2, <3>2 DEF Hash
    <3>5. ReaderHasEntry' BY <2>2 DEF ReaderHasEntry
    <3> QED BY <3>3, <3>4, <3>5 DEF Browsing
  <2>11. TypeOK' BY <1>1, <1>3, <2>2, <2>3, <2>7, <2>10
    DEF TypeOK, mail, Article, Browsing, Location
  <2>12. PollAlive' BY <1>1, <1>3, <2>2 DEF PollAlive
  <2> QED BY <2>9, <2>10, <2>11, <2>12 DEF InboxInv
<1>5. CASE LoadFails
  <2>1. /\ doc' = "error" /\ current' = "none" /\ art' = [x \in Messages |-> NewArticle]
        /\ timer' = FALSE /\ poll' = Idle /\ delay' = 1 /\ isReading' = FALSE
        /\ travelled' = FALSE /\ UNCHANGED <<mail, visible, entries, at>>
    BY <1>5 DEF LoadFails
  <2>2. art' \in [Messages -> Article] /\ Articles' BY <1>2, <2>1 DEF Articles
  <2>5. Browsing'
    <3>1. Location' BY <1>1, <2>1 DEF TypeOK, Location
    <3>2. Hash' /\ ReaderHasEntry' BY <2>1 DEF Hash, ReaderHasEntry
    <3> QED BY <3>1, <3>2 DEF Browsing
  <2>3. TypeOK'
    <3>1. timer' \in BOOLEAN /\ visible' \in BOOLEAN BY <1>1, <2>1, Zenon
    <3>2. poll'.st = "none" BY <1>3, <2>1
    <3> QED BY <1>1, <2>1, <2>2, <2>5, <3>1, <3>2
      DEF TypeOK, mail, Article, Browsing, Location
  <2>4. PollAlive' BY <2>1 DEF PollAlive
  <2> QED BY <2>2, <2>3, <2>4, <2>5 DEF InboxInv
<1> QED BY <1>4, <1>5

\* The browser starts by loading the page.
LEMMA InitInbox == ASSUME Init PROVE InboxInv
<1>1. NewArticle \in Article /\ \A m \in Messages : Faithful(m, NewArticle)
  BY DEF NewArticle, Article, Faithful
<1>2. visible \in BOOLEAN /\ timer \in BOOLEAN BY Zenon DEF Init
<1>3. inbox \in Seq(Messages) /\ arrived \subseteq Messages BY DEF Init, Members
<1>4. Idle.st = "none" BY DEF Idle
<1>5. Browsing
  <2>1. entries = <<"none">> /\ at = 1 /\ current = "none" BY DEF Init
  <2>2. isReading = FALSE /\ travelled = FALSE BY Zenon DEF Init
  <2>3. entries \in Seq(Messages \cup {"none"}) /\ Len(entries) = 1 BY <2>1
  <2>4. isReading \in BOOLEAN /\ travelled \in BOOLEAN BY <2>2, Zenon
  <2>5. Location BY <2>1, <2>3, <2>4 DEF Location
  <2>6. Hash /\ ReaderHasEntry BY <2>1, <2>2, Zenon DEF Hash, ReaderHasEntry
  <2> QED BY <2>5, <2>6 DEF Browsing
<1>6. TypeOK BY <1>1, <1>2, <1>3, <1>4, <1>5 DEF Init, TypeOK, Article, Browsing, Location
<1>7. Articles BY <1>1 DEF Init, Articles
<1>8. PollAlive BY DEF Init, PollAlive
<1> QED BY <1>5, <1>6, <1>7, <1>8 DEF InboxInv

\* Every handler of the script, and every step of the server, keeps the
\* invariant.
LEMMA NextInbox == ASSUME InboxInv, [Next]_vars PROVE InboxInv'
<1>1. CASE UNCHANGED vars
  <2>1. Articles' /\ Browsing' BY <1>1, ReadingRests DEF vars, reading, browsing, InboxInv
  <2>2. TypeOK' /\ PollAlive' BY <1>1 DEF vars, InboxInv, TypeOK, PollAlive
  <2> QED BY <2>1, <2>2 DEF InboxInv
<1> QED BY <1>1, MailInv, PollInv, ReadInv, TravelInv, LoadInv DEF Next

\* The inductive invariant: the poll, the articles and the session history.
THEOREM InboxInvariance == Spec => []InboxInv
<1>1. Init => InboxInv BY InitInbox
<1>2. InboxInv /\ [Next]_vars => InboxInv' BY NextInbox
<1> QED BY <1>1, <1>2, PTL DEF Spec

\* The state of the page stays in its type; the delay never passes its limit
\* (ui.js:410-452).
THEOREM InboxTyping == Spec => []TypeOK
<1>1. InboxInv => TypeOK BY DEF InboxInv
<1> QED BY <1>1, InboxInvariance, PTL

\* A visible page always has its next check under way, and only one
\* (ui.js:442-481).
THEOREM PollNeverDies == Spec => []PollAlive
<1>1. InboxInv => PollAlive BY DEF InboxInv
<1> QED BY <1>1, InboxInvariance, PTL

\* The reader shows what was asked for, and remote images only when chosen,
\* however late bodies arrive (ui.js:232-311, 326-396).
THEOREM Reader == Spec => []ReaderTruthful
<1>1. InboxInv => ReaderTruthful BY DEF InboxInv, Articles, Faithful, Shown, ReaderTruthful
<1> QED BY <1>1, InboxInvariance, PTL

\* While the reader covers the list, going back closes it before it leaves the
\* page: the location is at an entry that openReader added (ui.js:313-325, 396-398).
THEOREM BackStaysInInbox == Spec => []ReaderHasEntry
<1>1. InboxInv => ReaderHasEntry BY DEF InboxInv, Browsing
<1> QED BY <1>1, InboxInvariance, PTL

\* A reload keeps the selection, in every tab that has not gone back or forward
\* since the selection last changed (ui.js:341-345, 413-415, 463-464).
THEOREM Selection == Spec => SelectionKept
<1>1. ASSUME InboxInv, Load, current \in Messages, ~travelled
      PROVE  IF current \in Members(page'.ids) THEN current' = current
             ELSE page'.ids # <<>> => current' = page'.ids[1]
  <2>1. entries[at] = current BY <1>1 DEF InboxInv, Browsing, Hash
  <2>2. page' = FirstPage /\ current' = Chosen(FirstPage.ids) BY <1>1 DEF Load
  <2> QED BY <2>1, <2>2 DEF Chosen
<1>2. InboxInv /\ [Next]_vars =>
        [Load /\ current \in Messages /\ ~travelled =>
           IF current \in Members(page'.ids) THEN current' = current
           ELSE page'.ids # <<>> => current' = page'.ids[1]]_vars
  BY <1>1
<1> QED BY <1>2, InboxInvariance, PTL DEF Spec, SelectionKept
=============================================================================
