------------------------------ MODULE SmtpServer ------------------------------
(***************************************************************************)
(* The SMTP server (internal/app/smtp.go): the admission listener with its *)
(* session slots, per-source counts and pool of rejection goroutines; the  *)
(* sessions that collect recipients and call Store.Save; and clients that  *)
(* lose their connection, or the answer, and send the message again.       *)
(*                                                                         *)
(* The protocol engine (go-smtp) is external: it forwards RCPT after MAIL  *)
(* and DATA after an accepted RCPT, resets the session after DATA and on   *)
(* RSET, and replaces it on STARTTLS.  Save is one step with the promise   *)
(* of Mailbox: all recipients or an error and nothing.                     *)
(***************************************************************************)
EXTENDS Integers, FiniteSets

CONSTANTS
  Conns,            \* connections, each made once
  Sources,          \* source addresses
  Source,           \* the address each connection comes from
  Messages,         \* messages that clients want delivered
  Addresses,        \* [local, domain]; "mail.test" is MAIL_DOMAIN
  MaxConnections,   \* cap(s.sessions)
  MaxPerIP,         \* cfg.MaxSMTPConnectionsPerIP, 0: no limit
  MaxRejections,    \* maxConcurrentSMTPRejections
  MaxRecipients,    \* protocolServer.MaxRecipients
  MaxTransfers      \* bound on unanswered DATA commands per message

ASSUME SmtpAssumption ==
  /\ IsFiniteSet(Conns) /\ Source \in [Conns -> Sources]
  /\ MaxConnections \in Nat \ {0} /\ MaxPerIP \in Nat /\ MaxRejections \in Nat \ {0}
  /\ MaxRecipients \in Nat \ {0} /\ MaxTransfers \in Nat /\ "none" \notin Messages

VARIABLES
  conn,       \* "new", "slot", "held", "closing", "half", "rejecting", "closed"
  sessions,   \* len(s.sessions)
  sources,    \* s.sources
  rejects,    \* len(s.rejects)
  sess,       \* the session and its engine: phase, recipients, ...
  client,     \* whether the other end is there
  shut,       \* Close was called
  surplus,    \* history: copies of <<message, recipient>> that Save inserted,
              \* less those a 250 after DATA vouched for
  said,       \* history: recipients answered 250 in the current transaction
  unanswered  \* history: transfers of a message whose answer is still to come
              \* or was lost

admission == <<conn, sessions, sources, rejects, shut>>
delivery  == <<surplus, unanswered>>
vars == <<conn, sessions, sources, rejects, sess, client, shut, surplus, said, unanswered>>

-----------------------------------------------------------------------------
(* smtpAdmissionListener.Accept: one goroutine.                             *)

Accepting == {c \in Conns : conn[c] = "slot"}

\* scheduleRejection: a goroutine answers 421 and closes, if the pool allows.
ScheduleRejection(c) ==
  IF rejects < MaxRejections
  THEN conn' = [conn EXCEPT ![c] = "rejecting"] /\ rejects' = rejects + 1
  ELSE conn' = [conn EXCEPT ![c] = "closed"] /\ UNCHANGED rejects

AcceptSlot(c) ==
  /\ conn[c] = "new" /\ Accepting = {} /\ ~shut
  /\ sessions < MaxConnections
  /\ sessions' = sessions + 1 /\ conn' = [conn EXCEPT ![c] = "slot"]
  /\ client' = [client EXCEPT ![c] = TRUE]
  /\ UNCHANGED <<sources, rejects, shut, sess, said, delivery>>

AcceptFull(c) ==
  /\ conn[c] = "new" /\ Accepting = {} /\ ~shut
  /\ sessions = MaxConnections /\ ScheduleRejection(c)
  /\ client' = [client EXCEPT ![c] = TRUE]
  /\ UNCHANGED <<sessions, sources, shut, sess, said, delivery>>

Count(s) == IF s \in DOMAIN sources THEN sources[s] ELSE 0

\* acquireSource.
SourceFree(s) == MaxPerIP = 0 \/ Count(s) < MaxPerIP
AcquireSource(s) == sources' = [x \in DOMAIN sources \cup {s} |-> Count(x) + IF x = s THEN 1 ELSE 0]

AcceptSource(c) ==
  /\ conn[c] = "slot" /\ SourceFree(Source[c])
  /\ AcquireSource(Source[c]) /\ conn' = [conn EXCEPT ![c] = "held"]
  /\ UNCHANGED <<sessions, rejects, shut, sess, client, said, delivery>>

\* Mutant: the slot is not given back.
RefuseKeepingSlot(c) ==
  /\ conn[c] = "slot" /\ ~SourceFree(Source[c])
  /\ ScheduleRejection(c)
  /\ UNCHANGED <<sessions, sources, shut, sess, client, said, delivery>>

RefuseSource(c) ==
  /\ conn[c] = "slot" /\ ~SourceFree(Source[c])
  /\ sessions' = sessions - 1 /\ ScheduleRejection(c)
  /\ UNCHANGED <<sources, shut, sess, client, said, delivery>>

\* Mutant: without the deadline, a client that does not read keeps the goroutine.
RejectedIfRead(c) ==
  /\ conn[c] = "rejecting" /\ client[c]
  /\ conn' = [conn EXCEPT ![c] = "closed"] /\ rejects' = rejects - 1
  /\ UNCHANGED <<sessions, sources, shut, sess, client, said, delivery>>

\* The goroutine of scheduleRejection: its write ends within 100 ms.
Rejected(c) ==
  /\ conn[c] = "rejecting"
  /\ conn' = [conn EXCEPT ![c] = "closed"] /\ rejects' = rejects - 1
  /\ UNCHANGED <<sessions, sources, shut, sess, client, said, delivery>>

-----------------------------------------------------------------------------
(* admittedSMTPConn.Close, called by the session's goroutine when it ends   *)
(* and by SMTPServer.Close beside it: only the first call releases.         *)

\* Mutant: the connection is closed as soon as the client is gone.
MayCloseOnDrop(c) == sess[c].ph = "ended" \/ ~client[c] \/ shut

MayClose(c) == sess[c].ph = "ended" \/ shut

CloseConn(c) ==
  /\ conn[c] = "held" /\ MayClose(c)
  /\ conn' = [conn EXCEPT ![c] = "closing"]
  /\ client' = [client EXCEPT ![c] = FALSE]
  /\ UNCHANGED <<sessions, sources, rejects, shut, sess, said, delivery>>

\* Mutant: the entry of the last connection is not deleted.
ReleaseSourceKeepingZero(c) ==
  /\ conn[c] = "closing" /\ conn' = [conn EXCEPT ![c] = "half"]
  /\ sources' = [sources EXCEPT ![Source[c]] = @ - 1]
  /\ UNCHANGED <<sessions, rejects, shut, sess, client, said, delivery>>

ReleaseSource(c) ==
  /\ conn[c] = "closing" /\ conn' = [conn EXCEPT ![c] = "half"]
  /\ LET s == Source[c]
     IN  sources' = IF Count(s) <= 1
                    THEN [x \in DOMAIN sources \ {s} |-> sources[x]]
                    ELSE [sources EXCEPT ![s] = @ - 1]
  /\ UNCHANGED <<sessions, rejects, shut, sess, client, said, delivery>>

ReleaseSlot(c) ==
  /\ conn[c] = "half" /\ conn' = [conn EXCEPT ![c] = "closed"]
  /\ sessions' = sessions - 1
  /\ UNCHANGED <<sources, rejects, shut, sess, client, said, delivery>>

\* SMTPServer.Close: no new connections; the open ones are closed.
Close ==
  /\ ~shut /\ shut' = TRUE
  /\ UNCHANGED <<conn, sessions, sources, rejects, sess, client, said, delivery>>

-----------------------------------------------------------------------------
(* smtpSession.  ph: "none", "idle", "mail", "saving", "replying", "ended". *)

normalizeRecipient(a) == [a EXCEPT !.domain = "mail.test"]
Mailboxes == {normalizeRecipient(a) : a \in Addresses}
\* strings.EqualFold(domain, cfg.MailDomain)
Accepts(a) == a.domain \in {"mail.test", "MAIL.TEST"}

NoSession == [ph |-> "none", msg |-> "none", recipients |-> {}, rcpts |-> 0, reply |-> 0]

\* The backend creates a session for a greeted connection.
Greet(c) ==
  /\ conn[c] = "held" /\ client[c] /\ sess[c].ph = "none"
  /\ sess' = [sess EXCEPT ![c].ph = "idle"]
  /\ UNCHANGED <<admission, client, said, delivery>>

\* Mutant: MAIL keeps the recipients of a transaction it replaces.
MailKeepsRecipients(c, m) ==
  /\ sess[c].ph \in {"idle", "mail"} /\ client[c]
  /\ sess' = [sess EXCEPT ![c].ph = "mail", ![c].msg = m]
  /\ said' = [said EXCEPT ![c] = {}]
  /\ UNCHANGED <<admission, client, delivery>>

Mail(c, m) ==
  /\ sess[c].ph \in {"idle", "mail"} /\ client[c]
  /\ sess' = [sess EXCEPT ![c].ph = "mail", ![c].msg = m, ![c].recipients = {}]
  /\ said' = [said EXCEPT ![c] = {}]
  /\ UNCHANGED <<admission, client, delivery>>

\* An address of another domain is answered 550 and changes nothing.
Rcpt(c, a) ==
  /\ sess[c].ph = "mail" /\ client[c] /\ sess[c].rcpts < MaxRecipients /\ Accepts(a)
  /\ sess' = [sess EXCEPT ![c].recipients = @ \cup {normalizeRecipient(a)}, ![c].rcpts = @ + 1]
  /\ said' = [said EXCEPT ![c] = @ \cup {a}]
  /\ UNCHANGED <<admission, client, delivery>>

\* RSET, or the new session that follows STARTTLS.
Reset(c) ==
  /\ sess[c].ph = "mail" /\ client[c]
  /\ sess' = [sess EXCEPT ![c] = [NoSession EXCEPT !.ph = "idle"]]
  /\ said' = [said EXCEPT ![c] = {}]
  /\ UNCHANGED <<admission, client, delivery>>

\* DATA: the whole text has been read.
Data(c) ==
  /\ sess[c].ph = "mail" /\ client[c] /\ sess[c].rcpts > 0
  /\ unanswered[sess[c].msg] < MaxTransfers
  /\ sess' = [sess EXCEPT ![c].ph = "saving"]
  /\ unanswered' = [unanswered EXCEPT ![sess[c].msg] = @ + 1]
  /\ UNCHANGED <<admission, client, said, surplus>>

\* Too large (552), or the connection broke while reading (554).
DataFails(c) ==
  /\ sess[c].ph = "mail" /\ sess[c].rcpts > 0
  /\ unanswered[sess[c].msg] < MaxTransfers
  /\ sess' = [sess EXCEPT ![c].ph = "replying", ![c].reply = 552]
  /\ unanswered' = [unanswered EXCEPT ![sess[c].msg] = @ + 1]
  /\ UNCHANGED <<admission, client, said, surplus>>

SaveOK(c) ==
  /\ sess[c].ph = "saving" /\ sess[c].recipients # {}
  /\ surplus' = [k \in DOMAIN surplus |->
                   surplus[k] + IF k[1] = sess[c].msg /\ k[2] \in sess[c].recipients THEN 1 ELSE 0]
  /\ sess' = [sess EXCEPT ![c].ph = "replying", ![c].reply = 250]
  /\ UNCHANGED <<admission, client, said, unanswered>>

\* A storage failure, a full store, or no recipients.
SaveFails(c) ==
  /\ sess[c].ph = "saving"
  /\ sess' = [sess EXCEPT ![c].ph = "replying", ![c].reply = 451]
  /\ UNCHANGED <<admission, client, said, delivery>>

\* The answer reaches a client that is still there, and the engine resets
\* the session for the next transaction.
Reply(c) ==
  /\ sess[c].ph = "replying" /\ client[c]
  /\ surplus' = [k \in DOMAIN surplus |->
                   surplus[k] - IF /\ sess[c].reply = 250 /\ k[1] = sess[c].msg
                                   /\ \E a \in said[c] : normalizeRecipient(a) = k[2]
                                THEN 1 ELSE 0]
  /\ unanswered' = [unanswered EXCEPT ![sess[c].msg] = @ - 1]
  /\ sess' = [sess EXCEPT ![c] = [NoSession EXCEPT !.ph = "idle"]]
  /\ said' = [said EXCEPT ![c] = {}]
  /\ UNCHANGED <<admission, client>>

\* The client, the network or the session timeout ends the connection; the
\* goroutine notices when it next reads or writes.
Drop(c) ==
  /\ client[c] /\ client' = [client EXCEPT ![c] = FALSE]
  /\ UNCHANGED <<admission, sess, said, delivery>>

EndSession(c) ==
  /\ conn[c] \in {"held", "closing", "half", "closed"} /\ ~client[c]
  /\ sess[c].ph \notin {"saving", "ended"}
  /\ conn[c] = "held" \/ sess[c].ph # "none"
  /\ sess' = [sess EXCEPT ![c] = [NoSession EXCEPT !.ph = "ended"]]
  /\ said' = [said EXCEPT ![c] = {}]
  /\ UNCHANGED <<admission, client, delivery>>

-----------------------------------------------------------------------------
Init ==
  /\ conn = [c \in Conns |-> "new"] /\ sessions = 0 /\ sources = [s \in {} |-> 0]
  /\ rejects = 0 /\ shut = FALSE
  /\ sess = [c \in Conns |-> NoSession] /\ client = [c \in Conns |-> FALSE]
  /\ surplus = [k \in Messages \X Mailboxes |-> 0]
  /\ said = [c \in Conns |-> {}]
  /\ unanswered = [m \in Messages |-> 0]

Admit(c) == AcceptSlot(c) \/ AcceptFull(c) \/ AcceptSource(c) \/ RefuseSource(c) \/ Rejected(c)
Release(c) == CloseConn(c) \/ ReleaseSource(c) \/ ReleaseSlot(c)
Session(c) ==
  \/ Greet(c) \/ Reset(c) \/ Data(c) \/ DataFails(c) \/ SaveOK(c) \/ SaveFails(c)
  \/ Reply(c) \/ EndSession(c)
  \/ \E m \in Messages : Mail(c, m)
  \/ \E a \in Addresses : Rcpt(c, a)

Next == Close \/ \E c \in Conns : Admit(c) \/ Release(c) \/ Session(c) \/ Drop(c)

Spec == Init /\ [][Next]_vars

\* The goroutine that serves a connection runs on: it is handed over or
\* refused, Save returns, a read or a write without a client ends, and what is
\* held is released.  Each of these steps stays enabled until it is taken.
FairSpec ==
  /\ Spec
  /\ \A c \in Conns :
       WF_vars(\/ AcceptSource(c) \/ RefuseSource(c) \/ Rejected(c) \/ Release(c)
               \/ SaveOK(c) \/ SaveFails(c) \/ EndSession(c))

-----------------------------------------------------------------------------
(* Properties.                                                              *)

Holding(states) == {c \in Conns : conn[c] \in states}

\* Every variable stays in its type; the counters do not go below 0.
TypeOK ==
  /\ conn \in [Conns -> {"new", "slot", "held", "closing", "half", "rejecting", "closed"}]
  /\ sessions \in Nat /\ rejects \in Nat /\ shut \in BOOLEAN
  /\ DOMAIN sources \subseteq Sources /\ sources \in [DOMAIN sources -> Nat]
  /\ client \in [Conns -> BOOLEAN]
  /\ sess \in [Conns -> [ph : {"none", "idle", "mail", "saving", "replying", "ended"},
                         msg : Messages \cup {"none"}, recipients : SUBSET Mailboxes,
                         rcpts : 0 .. MaxRecipients, reply : {0, 250, 451, 552}]]

\* The session slots in use are the connections that hold one, within the
\* limit, and the rejection pool counts its goroutines: no path of Accept,
\* Close or a rejection leaks or frees a slot twice.
SlotsExact ==
  /\ sessions = Cardinality(Holding({"slot", "held", "closing", "half"}))
  /\ sessions <= MaxConnections
  /\ rejects = Cardinality(Holding({"rejecting"})) /\ rejects <= MaxRejections

\* The count of each source is the number of its admitted connections, within
\* the limit per source, and a source without connections has no entry (the
\* map does not grow with every address ever seen).
SourcesExact ==
  \A s \in Sources :
    /\ Count(s) = Cardinality({c \in Holding({"held", "closing"}) : Source[c] = s})
    /\ s \in DOMAIN sources => sources[s] >= 1
    /\ MaxPerIP > 0 => Count(s) <= MaxPerIP

\* Answers are the truth, and transactions do not mix: a 250 stands for one
\* copy in every mailbox named since the last MAIL, an error for none, and
\* any further copy for a transfer whose answer the client never got.
AnswersHonest ==
  \A k \in DOMAIN surplus : surplus[k] \in 0 .. unanswered[k[1]]

\* Until the server is closed, a delivery in Save counts against the limits:
\* a client that disconnects and comes back cannot pile up work beyond them.
SaveHoldsSlot ==
  ~shut => \A c \in Conns : sess[c].ph = "saving" => conn[c] = "held"

Dangling == {c \in Conns : conn[c] \notin {"new", "closed"} /\ ~client[c]}

\* Connections whose clients are gone all give back what they hold, the slot,
\* the source count or the rejection goroutine (smtp.go:115-190).
DroppedConnectionReleased == (Dangling # {}) ~> (Dangling = {})
=============================================================================
