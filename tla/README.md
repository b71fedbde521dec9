# Verification of tmpmail

TLA+ models of the temporary-mail service in this repository, the TLC
configurations that check them on small instances, and TLAPS proofs, for every
value of the constants, of all the safety properties that the passing runs check
and of the refinement of the store's abstract specification. Paths are relative to
the repository; `store.go` and so on are in `internal/app/`, `ui.js` is in
`internal/app/assets/ui/`.

## The system

One Go process (`cmd/tmpmail/main.go`) receives mail over SMTP, keeps it for
`MESSAGE_TTL` in a directory of raw files plus an SQLite database, and shows it
over HTTP to anyone who knows the mailbox name.

| Component | State it keeps | Operations | What makes it correct |
|---|---|---|---|
| Message store (`store.go`) | tables `messages`, `blobs`, `pending_deletions`; the message directory; in memory `storedBytes`, `storedMessages`, `storageFault`, `pendingCursor`, under `writeMu` | `OpenStore` (migrate, normalize, reconcile), `Save`, `Cleanup`, `RunCleanup`, `GetContext`, `ListPageContext` | accepted mail is never lost before it expires or is evicted, and is found in its mailbox; `Save` answers the truth; the cap holds; nothing on disk is unaccounted for; expired mail goes |
| SMTP server (`smtp.go`) | semaphore of session slots, map of connections per source, rejection pool; per session the recipients | `Accept`, `Close`, `scheduleRejection`, `acquireSource`/`releaseSource`, `Mail`, `Rcpt`, `Data`, `Reset` | slots and counts are exact and come back; a 250 means stored once in each mailbox, an error means not stored |
| Certificate reloader (`smtp.go`, used by `manual_https.go`) | the served pair, the file state it was loaded from, the file state that failed | `GetCertificate`, `loadTLSCertificate` | serves only complete pairs; adopts a valid replacement |
| Analytics recorder (`analytics.go`) | bounded channel, batch, `pending` counter, own SQLite file | `Record`, `run` (write, retry, reopen, prune, maintain), `Close` | never blocks callers, bounded memory, every event written or counted as dropped, drains on shutdown |
| Automatic TLS (`autotls.go`) | current certificate, readiness channel | refresh loop, `activate`, `GetCertificate`, HTTP challenge and fallback handlers | SMTP starts only with a certificate; refresh never loses a valid one |
| HTTP API and pages (`http.go`, `ui.go`, generated `openapi.gen.go`) | concurrency semaphore | list, message, attachment, pages | slots come back, also after a panic; a failed read is never shown as expiry |
| Rate limiter (`ratelimit.go`) | token bucket per client | `rateLimitPerIP`, `resolvedClientIP` | a client never gets more than its budget, whatever header it sends |
| Browser script (`ui.js`) | selected message, articles, poll timer, request in flight, session history | poll, select, open, go back, load a body, reload | one check at a time and always a next one; a late answer does no harm; a reload keeps the selection |
| Process (`main.go`) | listeners, error channel, context | start, fatal exits, shutdown | ends when told to; a clean shutdown is no error; servers are drained before recorder and store close |
| Admin server, metrics, MIME rendering, configuration, canary, load test | - | - | not modelled, see below |

Interactions: an SMTP session calls `Store.Save` inside `Data` and holds its
slot for as long; HTTP handlers read the store without its lock; SMTP and HTTP
handlers call `Analytics.Record`; TLS handshakes of SMTP and HTTPS call the
reloader; `main` opens the store, runs a first `Cleanup` before any listener
starts, and ends the process when either fails. Compose restarts the process
(`compose.yaml:17`, `restart: unless-stopped`).

What is hard: two storage media (SQLite and a directory) that a stop or a power
loss may leave in different states; every I/O call may fail in the middle of
an operation; readers that take no lock; files replaced by another program
while they are read; `Close` racing `Record`; connections closed from two
goroutines; clients that lose the answer and send again; servers that report
their end while `main` shuts them down; a browser in which timers, clicks and
answers meet in any order. `PROJECT.json` lists
each hazard at its line.

## Modules

| Module | Models | Extends / uses |
|---|---|---|
| `Mailbox` | what the store promises: a delivery enters whole or not at all, mail leaves only by expiring or making room | - |
| `MailStore` | `store.go`, its readers in `http.go`, and the store's part of `main.go` | instance of `Mailbox` (refinement) |
| `MailStoreProofs` | theorems about `MailStore` | `MailStore`, TLAPS |
| `Counting` | lemmas about the size of a finite set that changes in one element | TLAPS |
| `SmtpServer` | `smtp.go`: listener, limits, sessions | - |
| `SmtpServerProofs` | theorems about `SmtpServer` | `SmtpServer`, `Counting` |
| `CertReloader` | `smtp.go`: `tlsCertificateReloader`, `loadTLSCertificate` | - |
| `CertReloaderProofs` | theorems about `CertReloader` | `CertReloader`, TLAPS |
| `Analytics` | `analytics.go` | - |
| `AnalyticsProofs` | theorems about `Analytics` | `Analytics`, `Counting` |
| `AutoTLS` | `autotls.go` and the start of SMTP in `main.go` | - |
| `AutoTLSProofs` | theorems about `AutoTLS` | `AutoTLS`, TLAPS |
| `Service` | `main.go` with the HTTP servers, `ratelimit.go` and the request limit and recording of `http.go`; the other components are steps of it | - |
| `ServiceProofs` | theorems about `Service` | `Service`, `Counting` |
| `InboxPage` | `ui.js`: poll, selection, reader and session history, over a mailbox that changes | - |
| `InboxPageProofs` | theorems about `InboxPage` | `InboxPage`, TLAPS |
| `MCMailStore`, `MCSmtpServer`, `MCCertReloader`, `MCAnalytics`, `MCAutoTLS`, `MCService`, `MCInboxPage` | small instances | the above |

Each module holds, beside the definitions of the code, some definitions marked
`Mutant:`. They change one definition the way a plausible mistake would, and
none of them is used by a specification; `PROJECT.json` pairs each property
with one that violates it.

### MailStore

`db` is the committed database, `tx` the view of the open transaction, `files`
the directory as the kernel shows it and `durable` the directory as of its last
sync. `pc` is the next I/O call of whoever holds `writeMu` (`"free"`: nobody),
with the locals of `Save`, of the drain of the deletion queue and of `Cleanup`
in `sv`, `dr` and `cl`. There is one action per I/O call or transaction step
and, where the call may fail, one for the failure path (`SaveWriteFails`,
`DrainFails`, ...). `Stop` ends the process between any two calls; `PowerLoss`
also replaces `files` by any mixture of the synced directory and the changes
since. `Boot` to `OpenLoad` is `OpenStore`; the `Cleanup` that follows runs
before the store serves, and an error there is `Fatal`.

A blob and its path are one number, because the path is built from the id; the
numbers give the order of `ORDER BY path`. Bytes are counted, contents are not
kept: a file of the right size under an id that is never reused is the message.
Names from `newID` and `CreateTemp` are ones nothing mentions (128 random bits).

A reader takes no lock. `RenderInbox` lists a page of a mailbox, for an address
in any spelling and any offset, and picks a message; `SelectBody`, or `ReadRow` for
the handlers that are asked for an id, runs `GetContext`'s query, and `ReadFile`
opens the file. Anything may happen between two of these. A message that is gone
at the query is shown without its body or answered 404; one whose file is gone is
`ReadError`, a 500 that may be retried.

### SmtpServer

`conn[c]` follows a connection through `Accept` (`"slot"`: holds a slot, source
not counted yet; `"held"`: admitted; `"rejecting"`: in the rejection pool) and
through the release (`"closing"`, `"half"`: the two steps of the `sync.Once`
body). `sess[c]` is the session's state. The command loop is that of the
library go-smtp and is modelled from how `smtp.go` uses it: the engine calls
`Reset` after `DATA`, on `RSET` and on `STARTTLS`, and the connection's goroutine
closes it when reading or writing fails.
`Save` is one step that stores a copy for every recipient or fails and stores
none, which is what `MailStore` shows (`SaveAnswerTrue`, `ImplementsMailbox`).
`said`, `surplus` and `unanswered` are history: what the client named, the copies
stored less those a 250 vouched for, and the transfers it has not heard about.

### CertReloader

Every `os.Stat` and every read is an action, and the certificate manager may
replace either file between any two. The state of a file is the number of the
write that made it. `NotYetValid` is the one failure the code tries again.

### Analytics

`rec[r]` is a call of `Record` between its check of `closed`, its count and its
send; `wpc` and `ret` are the worker's position. Each database call may fail.
The three tables are one set of rows, since the code treats them alike except
for their order in the eviction query, which is by time and then by id. Usage
is counted in rows, plus what the write-ahead log may add.

### AutoTLS

`pc[h]` is the worker of a host: `"refresh"` (inside `manager.GetCertificate`),
`"verify"` and `"store"` (the two halves of `activate`, between which the clock
may pass an expiry), `"settle"` and `"sleep"`. Certificates are numbered in the
order of issue, with their validity in `Periods`. The wall clock (`Tick`) decides
validity; timers run in minutes (`Minute`), which pass only while every worker
sleeps or waits for the CA. `Init` chooses the configuration and the hosts
that the CA can reach. A certificate is issued only if the CA gets a challenge
answered by the very handlers the module models. `lag[h]` is the number of
minutes the latest certificate of a host has been valid and not in use; it starts
again with each certificate.

### Service

`main` is the position of `main.go`'s goroutine, `go[s]` that of each server's
goroutine (`"waiting"` is SMTP before its certificate) and `errCh` the channel they
report on. `Shutdown` of a server ends when no request on it is in flight or when
`Expire` ends the one context of ten seconds that all the shutdowns share; a server
that is shut down before it listens returns at once. After `stop()` a second
signal kills the process. A request arrives at a server that is open, passes the
client's bucket and the limit on concurrent requests, is handled or panics, and is
recorded unless the recorder is closed; `plain` in the instance goes to the HTTP
server that, under TLS, only redirects. The instance has no health check
(`Health` is empty): it passes the bucket unchanged and is a request like any other
after that. Store, SMTP sessions, certificates and the
recorder's own shutdown are single steps here, with the outcomes their modules
show.

### InboxPage

One action per event of the page: the timeout, the live button, the tab becoming
visible or hidden, each kind of answer to a poll, a click on a message, the arrival
or failure of its body, the choice of a view, the images button, a reload and its
outcome. `poll` is the request in flight and, between its two awaits, the outcome
of comparing the answer with the page; `art[m]` is what the article of a message
shows. The list of messages is the server's; messages arrive at its head and leave
at its end at any time. A message counts as one with images if it has HTML, so the
images button is there in the cases that matter. The script goes on taking clicks
and timeouts after `location.reload()`, until the new document is there (`doc` is
`"reloading"`); with `"error"` and `"loading"` there is no script.

The selection is kept in the URL, and the URL in the session history: `entries` holds
the message of each entry of this page and `at` is the location. `select` rewrites
the entry at the location (`Remembered`). On a narrow window `openReader` adds an
entry with the same URL and the state `{ reader: true }` (`SelectAndOpen`); whether
the window is narrow is left open at each click, and one that gets wide closes the
reader (`Widen`). Every entry but the first was added in this way, so that
`history.state?.reader` is `at # 1`. `Travel` is the location moving back or
forward, by the page's own button or the browser's; `popstate` may close the reader
and selects nothing. A reload keeps the history and drops everything else. The
other branch of the back button, for a reader that is open at the first entry, does
not occur (`BackStaysInInbox`) and has no action.

## Runs

| Run | Question | Bounds |
|---|---|---|
| `store_faults` | With every I/O call failing at will and a stop between any two: are the totals exact, is every file charged, does the cap hold, does eviction always find room, is `Save`'s answer true? | 3 blobs, sizes 1 and 2, cap 3, message limit 2, 1 staging name, deletion batches of 2, clock 0..1, TTL 1 |
| `store_power` | With power losses, a clock that moves back and a pre-dedup database: does accepted mail stay on disk, does a queue entry outlive its file, is every message found by paging through its mailbox, does live mail go oldest first? | 3 blobs of size 1, cap 2, pages of 1, one legacy message |
| `store_shared` | With recipients that share a blob and a reader without a lock: are reference counts right, does a read error mean deletion, does the store implement `Mailbox`? | 2 blobs, 2 mailboxes, one spelled in two ways |
| `store_progress` | Does expired mail go, and are deletions not starved? | 2 blobs, batches of 1 |
| `store_stubborn` (violation) | Does start-up tolerate a file that cannot be unlinked? No: see findings | 1 blob |
| `smtp` | Are slots, source counts and the rejection pool exact, does a delivery count against the limit while it runs, is everything released, and do answers and stored copies agree through repeated `MAIL`, `RSET`, lost answers and second tries? | 3 connections, 2 sources, 2 slots, 1 per source, 1 rejection; 2 open transfers, 3 addresses, 2 recipients |
| `certs_reload` | Is the remembered state true, and is a valid replacement adopted? | 4 pairs, 3 writes, clock 0..1 |
| `certs_unreadable` (violation) | The same if reads may fail for a while: see findings | 2 writes |
| `analytics` | Is every event accounted for and settled, is memory bounded, does shutdown drain and `Close` return, does eviction go by age? | 2 callers, 3 events, channel and batch of 2, 2 attempts, budget of 1 row |
| `autotls` | Does each service come up on its own, is a usable certificate never withdrawn, is a redirect justified, are renewals adopted within a minute? | all combinations of web and SMTP TLS on one or two hosts, any of them out of the CA's reach; 2 certificates per host, wall clock 0..2, backoff 1, 2 |
| `service` | Are requests drained before recorder and store close, is a shutdown never reported as a failure, are slots and buckets exact, and does the process end though handlers hang? | HTTP and HTTPS, SMTP waiting for its certificate; 3 requests: two of one client, behind the proxy and past it, and one to be redirected; 1 slot, buckets of 1 with 1 refill |
| `inbox` | Is exactly one check under way, does the reader show what was asked for, is the selection kept across reloads, does the page catch up with the mailbox? | 3 messages, 1 there from the start and 1 with HTML, a page of 2, delays 1 and 2, 2 entries in the history |

Why these bounds are enough to be of interest. The store's interesting cases
need an old message to evict, one that stays and one incoming: three blobs with
a cap that holds two. Batches of one and two make a queue longer than a batch
and one that fits. Time 0..1 with a TTL of 1 gives expired and live mail at
once; the wall clock moving back gives mail that is received later with an
earlier time. In the SMTP run the limits are one below the number of
connections, so each is reached with a connection left over, and two
connections share a source. A channel and a batch of two with three events
overflow and fill. Three writes of certificate files replace a pair and spoil
it again, or go through a mismatched pair. Symmetry is not used: path numbers,
event ids and row numbers are ordered by the code.

Two HTTP servers are shut down one after the other under one deadline, and a
third goroutine, SMTP's, ends in the middle; more servers of the same kind add
nothing. Three messages on a page of two give a page that is exactly full, one
that overflows, and an arrival that makes up for an expiry. Two entries in the history
are enough for an entry that is left behind when another one is rewritten, and for a
reload at either.

Two certificates per host, of which the second is dated ahead, valid together with
the first and valid after it, give every order of renewal and expiry.

`MaxTime`, `MaxRowid`, `MaxWrites`, `MaxTransfers` and `MaxHistory` bound counters
that the code does not bound; they occur only in the guards of the clock, of a new
delivery, of the certificate manager, of a transfer and of a new entry in the history.

### Fairness

* `MailStore`: the holder of the mutex runs on (weak fairness of `LockStep`:
  file and database calls return); Compose starts the process again (weak
  fairness of `Boot`); the ticker of `RunCleanup` fires (`CleanupBegin`); and
  `sync.Mutex` hands the lock to a waiter that has waited for a millisecond, so
  a cleanup that wants the lock between saves gets it (strong fairness of
  `CleanupSelect`). Faults are not fair: properties that need them to end say so
  (`FaultsCease`).
* `SmtpServer`: the goroutine that serves a connection runs on (weak fairness per
  connection): `Save` returns, and a read or write on a connection whose client is
  gone ends (session timeouts).
* `Analytics`: goroutines run on; Go's `select` picks uniformly among the cases
  that are ready, so one that is ready again and again is taken (strong
  fairness); the tickers keep firing. The database owes nothing.
* `AutoTLS`: goroutines run on, timers fire and time passes; a CA that can
  validate a host again and again issues a certificate (strong fairness). A
  host out of its reach is owed nothing: its lookup may hang forever.
* `Service`: `main` is scheduled and the ten seconds of the shutdown pass. No
  handler, server or client is promised to do anything.
* `InboxPage`: a timeout that is set fires, a request is answered or fails, a
  reload ends. That requests stop being refused and the tab stays visible is a
  hypothesis of `NewMailShown`.
* `CertReloader`: handshakes keep coming, and each runs to its end.

### Findings

* `store_stubborn`: a file that resists `unlink` is tolerated by
  `reconcileFiles`, but the first `Cleanup` in `main.go:40` drains the same queue,
  returns the error, and the process exits.
* `certs_unreadable`: a pair whose load met an I/O error is remembered like a bad
  pair (`smtp.go:380`) and not tried again until a file changes, though
  `README.md:86` says a complete valid replacement is adopted.

Known without a run of their own:

* If removing the staging file and then `os.Stat` of it fail, `Save` (`store.go:266`)
  neither records the file nor blocks later saves, though `README.md:78` says it
  would. `NoUnchargedFile` and the bound on the directory in `DiskBounded` are
  therefore checked with `StatMayFail = FALSE` and proved under that hypothesis;
  the other invariants of the store are proved without it.
* Once a host's certificate has expired, its worker backs off up to an hour
  (`autotls.go:164`), and a renewal obtained meanwhile is not used until then;
  `README.md:314` says that renewals are adopted within a minute. `RenewedInTime`
  is stated for a certificate that is still usable.
* Going back may take the reload to another message, though the comment at
  `ui.js:463` says that the URL preserves the selection if it is still present. On a
  window of 960 px or less: open A, go to B with `j`, which rewrites the newest entry
  only, and press Back. The URL is A's again (`ui.js:397` only closes the reader) and
  B stays selected, so the next reload shows A though B is still listed.
  Selecting B again does not help, because its row is already current
  (`ui.js:331`). Going forward, or Back after a reload inside an open message, can do
  the same. `SelectionKept` is stated for a tab that has not gone back or forward
  since the selection last changed (`travelled`); without that condition TLC finds
  the sequence above.
* A reload that a poll asks for may be refused with 429 or 503 (`ui.js:467`): the
  page shown then has no script, and checking ends until the visitor reloads
  (`LoadFails`). `NewMailShown` is stated for documents that load.

## Proofs

Every theorem holds for all values of the constants that meet the named
assumptions of its module: any paths, addresses, sizes, limits, hosts, callers,
requests and messages, and with no bound on the number of steps. Each invariant
was checked by TLC before it was proved. A proof of `Spec => []Inv` has one lemma or
case per action; facts about how an update changes a table, a sum or a count are
lemmas that the cases cite.

| Theorem | States | From |
|---|---|---|
| `MailStoreProofs!Typing` | `TypeOK` | `StoreInv` |
| `References` | `ReferencesIntact` | `StoreInv` |
| `Durability` | `AcceptedMailOnDisk` | `StoreInv` |
| `StartsAgain` | no start-up ends with "referenced blob missing" | `StoreInv` |
| `QueueLast` | `QueueOutlivesFile` (action property) | `StoreInv` |
| `EvictionOrder` | `LiveEvictionOldestFirst` (action property) | `TxInv` |
| `SaveTruthful` | `SaveAnswerTrue` | `Answering` |
| `ReadSafety` | `ReadErrorMeansDeleted` | `ReaderInv` |
| `Charging` | `NoUnchargedFile`, if `~StatMayFail` | `DirInv` |
| `Totals` | `TotalsExact` | `LedgerInv` |
| `EvictionNeverStuck` | `EvictionSuffices` | `LedgerInv` |
| `DiskUsage` | `DiskBounded`, if `~StatMayFail` | `LedgerInv` |
| `Listing` | `MailIsListed` | `PromiseInv` |
| `Refinement` | `ImplementsMailbox`, if `~ClockMayStepBack` | all of them |
| `SmtpServerProofs!SmtpTyping`, `Slots`, `SourceCounts`, `DeliveryHoldsSlot`, `Honesty` | `TypeOK`, `SlotsExact`, `SourcesExact`, `SaveHoldsSlot`, `AnswersHonest` | `SmtpInv` |
| `ServiceProofs!ServiceTyping`, `DrainFirst`, `CleanEnd`, `Limits` | `TypeOK`, `DrainedBeforeClose`, `CleanExit`, `LimitsHold` | `ServiceInv` |
| `InboxPageProofs!InboxTyping`, `PollNeverDies`, `Reader`, `BackStaysInInbox`, `Selection` | `TypeOK`, `PollAlive`, `ReaderTruthful`, `ReaderHasEntry`, `SelectionKept` (action property) | `InboxInv` |
| `AutoTLSProofs!AutoTLSTyping`, `TimelyRenewal`, `Retention`, `Redirects` | `TypeOK`, `RenewedInTime`, `NeverWithdrawn`, `RedirectJustified` (the last two action properties) | `AutoTLSInv` |
| `AnalyticsProofs!AnalyticsTyping`, `LagExact`, `EventsAccounted`, `DrainsOnShutdown`, `OldestGoFirst` | `TypeOK`, `PendingExact`, `Accounted`, `ShutdownDrains`, `EvictionOldestFirst` (action property) | `AnalyticsInv` |
| `CertReloaderProofs!ReloaderTyping`, `Truthful` | `TypeOK`, `StateTruthful` | `ReloaderInv` |

### The message store

None of the properties is inductive as it stands: that a committed row has its
file depends on what `Save` had done before it committed, and that reference
counts are right after a commit depends on the open transaction. The invariants
say so step by step, each resting on the ones before.

`StoreInv` (`Invariance`), with or without power losses and clock steps:

* `Staged`: at each point of `Save`, whether the staging file or the renamed
  file exists, is complete and is synced, and that no table mentions it yet;
* `Draining`: what a drain selects is queued, what it has removed is gone from
  the directory and, before its commit, from the synced directory;
* `InTx`: the transaction's view is intact, its queue contains the committed
  one, and its blobs are committed ones or the incoming one;
* `BlobsOnDisk`: every blob row, not only every message, has its file;
* `Unmigrated`: a legacy database is untouched until it is migrated.

Its proof has one lemma per operation (`DrainInv`, `SaveInv`, `CleanupInv`,
`OpenInv`, `GetInv`, `PowerLossInv`) over lemmas on what deleting
(`DeleteIntact`), inserting (`InsertIntact`), queueing (`EnqueueIntact`),
migrating (`MigrateIntact`) and normalizing (`NormalizeIntact`) do to a database
that is intact.

`TxInv` (`Transactions`): what the open transaction has done to the committed
rows. A message evicted so far had expired, or was no younger than every message
left when none had (`TxEvicts`); a message that `Cleanup` deletes had expired
(`TxCleans`); a blob row leaves only for the deletion queue, with its size
(`Moved`); and the rows of the incoming delivery are complete (`Delivered`).

`Answering` (`Answers`): at every call of `Save`, whether it will answer an error and
then that no row mentions the blob, or success and then that the rows are there.
Rows of the delivery stay until `Save` returns because it holds the lock.

`ReaderInv`: a reader between its query and its file knows a name that `Save`
does not draw again (`Fresh`), so the file it opens is the one of its row or none,
and none only once the row is gone.

`LedgerInv` (`Ledger`): the directory, the tables and the totals agree.

* `OneContent`: a name has one content, in the directory, in its synced state
  and in the queue, so that a power loss brings nothing unknown back;
* `HandNew`, `Known`: a file is a blob, queued, or the one `Save` has in hand.
  `Known` needs `~StatMayFail`: without it the code does lose track of a file
  (see Findings);
* `Admitted`, `Exact`, `TxTotals`: the limits that admission checked still hold
  when the transaction opens, the totals are the sums over the tables, and those of
  the transaction differ from them by the incoming message less what was evicted;
* `BlobsFit`, `DiskFits`: the bounds themselves, and that the directory is within
  the cap when an upload starts.

`Bytes` is the size of a set of cells, one for each byte, rather than a recursive
sum. What an update does to a total is then a statement about disjoint finite sets
(`BytesSplit`, `BytesPut`, `BytesWithout`, `BytesMono`) and needs no induction over
tables. `EvictionNeverStuck` follows: with no victim left, the transaction's blobs
are the incoming one alone, and admission has checked that it fits beside the
queue.

`PromiseInv` (`Handled`): recipients of the delivery and, once the store is open,
of every row are in canonical form; `Save` and `Cleanup` read a clock that has not
moved back since, if it never does.

`Refinement` maps each step to `Mailbox` (`StepRefines`): `SaveBegin` is `Request`, the
commit of `Save` is `Accept` (`CommitAccepts`: all recipients at once, what remains
fits), a failure before it is `Refuse`, the return is `Answer`, the commit of a
cleanup batch is `Expire`, normalization and everything that ends the process is
`Restart`, `Tick` is `Wait`; every other I/O call is invisible. The hypothesis
`~ClockMayStepBack` is what `Mailbox` asks for: with a clock set back, `Cleanup` may
delete, by the reading of the clock it started with, what has not expired by the
clock of the moment.

### The other components

* `SmtpInv` adds to the counts what sessions rest on: a live session has its
  connection until the server closes (`LiveHeld`), its recipients are those it
  answered since the last `MAIL` (`Transactions`), and the copies that no answer will
  vouch for are no more than the transfers whose answer was lost (`Answers`). The
  counts are sizes of sets of connections, and `Counting!Recount` says how one
  connection's step moves them.
* `ServiceInv`: where `main` stands tells what is shut down and what is open
  (`Progress`); an error in the channel comes from a server that failed
  (`ErrorsTrue`); a server that is shut down has no request left while the ten
  seconds last (`Drained`); slots are the requests being handled, and tokens left
  plus requests passed are the burst plus the refills (`Limited`).
* `InboxInv`: articles are true to their messages and the selected one shows what
  was asked for (`Articles`); the location is one of the entries (`Location`), the
  selected message is the one in the URL until the location moves (`Hash`), and an open
  reader has an entry of its own (`ReaderHasEntry`).
* `AutoTLSInv`: what a worker holds is between what is active and what autocert has
  (`Certificates`), a redirected visitor came after a certificate (`Visitors`), and
  a renewal that has waited a minute is the next thing its worker adopts
  (`Renewals`). `AutoTLSAssumption` says that a later certificate of a host does not
  end before an earlier one, which is how a CA issues renewals.
* `AnalyticsInv`: where the worker can be (`Stands`), that an event is with its
  caller, in the channel or in the batch and nowhere else until it is settled
  (`OnePlace`), and the counters as sums of those (`Tally`).
* `ReloaderInv`: writes only go up, so a state seen earlier is never ahead of the
  files (`Seen`), and a file whose number is still the one seen before the load
  holds what the load read (`ReadSince`). The look after the load then gives the
  remembered state its meaning when `Adopt` installs both.

### Only model-checked

* The liveness properties (`ExpiredEventuallyDeleted`, `DeletionNotStarved`,
  `DroppedConnectionReleased`, `ReplacementAdopted`, `CloseReturns`, `EventsSettle`,
  `ServicesComeUp`, `ServiceEnds`, `NewMailShown`): fairness and `ENABLED` are out of
  the prover's reach.
* The violations of `store_stubborn` and `certs_unreadable`, which are counterexamples.

## Assumptions

* SQLite commits are atomic and durable, and a commit that reports an error has
  been rolled back.
* A directory sync makes every earlier rename, create and unlink durable; until
  then each may or may not survive a power loss on its own. File contents are
  synced before the rename (`store.go:277`).
* Random names do not collide.
* Every write of a certificate file changes its modification time or its size.
* go-smtp calls the session's methods in sequence, and `Reset` between
  transactions.

## Not modelled

* Wording, metrics, logging, the values shown by the status page.
* `Status` and the admin server: they only read, in one query or a few that do not
  depend on each other.
* `enforceLimitLocked` and `cleanupLocked` (`store.go:535-569`): no caller outside
  the tests.
* MIME rendering and sanitizing (`mime.go`), templates and headers: data rather
  than control.
* `manual_https.go` beyond its certificates: a comparison of the host and one of the
  certificate's dates, with no state.
* In `ui.js`: the address form, clipboard, themes, focus and times. Leaving the page
  through the history and coming back, and a reload that the visitor stops.
* The canary: one goroutine that runs three checks in sequence and replaces its
  result under a lock.
* The `healthcheck` subcommand: one request and an exit code.
* Configuration: one pass over the environment before anything runs.
* `openapi.gen.go` is generated; the load test is a client.

## Plan

Done: the store with its readers and findings, its refinement of `Mailbox`; SMTP
admission and sessions; the certificate reloader; the analytics recorder; automatic
TLS; the life of the process with its HTTP requests; the inbox page; and theorems
for the safety properties of all of them.

Next:

1. `CertReloader`: as an action property, that a handshake never replaces a pair
   that is valid by one that is not.
2. Shorter proofs of the frame conditions in `MailStoreProofs`, which repeat the
   list of actions that leave a variable alone.
