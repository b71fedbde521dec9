------------------------------- MODULE Service -------------------------------
(***************************************************************************)
(* The life of the process (cmd/tmpmail/main.go) with the HTTP requests it *)
(* serves: main binds listeners, starts one goroutine per server, waits    *)
(* for a signal or for a server that stops by itself, shuts the servers    *)
(* down and closes the recorder and the store.  A request passes the       *)
(* client's rate limit (ratelimit.go), the limit on concurrent requests    *)
(* and the recording of its outcome (http.go).                             *)
(*                                                                         *)
(* Opening the store is part of MailStore, the wait for SMTP's certificate *)
(* of AutoTLS, SMTP sessions of SmtpServer and the recorder's own shutdown *)
(* of Analytics; here each is one step.                                    *)
(***************************************************************************)
EXTENDS Integers, Sequences, FiniteSets

CONSTANTS
  Servers,          \* the configured ones of "http", "https", "metrics", "admin"
  TLS,              \* automatic or manual TLS: main binds http and https itself
  WaitTLS,          \* cfg.AutoTLSSMTPEnabled: SMTP starts with its certificate
  Requests,
  Server,           \* the server a request is sent to
  Peer, Header,     \* a request's peer address, and the address its header gives
  IPs,              \* what net.ParseIP accepts
  UseHeader,        \* cfg.HTTPRateLimitIPHeader # ""
  Health,           \* the requests that are GET or HEAD /healthz
  MaxHTTPRequests,  \* cfg.MaxHTTPRequests; 0: no limit
  Burst,            \* cfg.HTTPRateLimitBurst
  MaxRefills        \* bound on tokens a client gets back

IfConfigured(s) == IF s \in Servers THEN <<s>> ELSE <<>>
Order == IfConfigured("http") \o IfConfigured("https") \o IfConfigured("metrics")
           \o IfConfigured("admin")

ASSUME ServiceAssumption ==
  /\ "http" \in Servers /\ Servers \subseteq {"http", "https", "metrics", "admin"}
  /\ TLS \in BOOLEAN /\ WaitTLS \in BOOLEAN /\ UseHeader \in BOOLEAN
  /\ ("https" \in Servers \/ WaitTLS) => TLS
  /\ IsFiniteSet(Requests) /\ Server \in [Requests -> Servers] /\ Health \subseteq Requests
  /\ IsFiniteSet(IPs) /\ Peer \in [Requests -> IPs] /\ Header \in [Requests -> STRING]
  /\ MaxHTTPRequests \in Nat /\ Burst \in Nat \ {0} /\ MaxRefills \in Nat

VARIABLES
  main,      \* what main does next
  at,        \* the server in Order that main shuts down
  exit,      \* how the process ended, "none" while it runs
  sig,       \* a signal has cancelled ctx
  go,        \* the goroutine of each server
  errCh,     \* TRUE: an error, FALSE: nil
  closed,    \* servers on which Shutdown or Close has been called
  expired,   \* the ten seconds of shutdownCtx are over
  open,      \* "analytics" and "store", until they are closed
  req,       \* the requests
  requests,  \* tokens in the channel of limitHTTPRequests
  tokens,    \* the bucket of each client
  refills,   \* history: tokens each client got back
  passed,    \* history: requests the rate limit let through
  failed     \* history: servers that could not listen or stopped by themselves

process == <<main, at, exit, sig, closed, expired, open>>
servers == <<go, errCh, failed>>
traffic == <<req, requests, tokens, refills, passed>>
vars == <<main, at, exit, sig, go, errCh, closed, expired, open, req, requests, tokens,
          refills, passed, failed>>

Running == exit = "none"
Goroutines == Servers \cup {"smtp"}

\* stop() cancels ctx as well as a signal does.
Cancelled == sig \/ main \notin {"bindHTTP", "bindHTTPS", "select"}

\* main reads errCh once; the channel holds one value for each sender.
Send(err) == Len(errCh) < 5 /\ errCh' = Append(errCh, err)

-----------------------------------------------------------------------------
(* main, until a server fails or a signal arrives.                          *)

Exit(how) == exit' = how /\ UNCHANGED <<main, at, sig, closed, expired, open>>

BindHTTP ==
  /\ Running /\ main = "bindHTTP"
  /\ main' = IF "https" \in Servers THEN "bindHTTPS" ELSE "select"
  /\ UNCHANGED <<at, exit, sig, closed, expired, open, servers, traffic>>

BindHTTPS ==
  /\ Running /\ main = "bindHTTPS"
  /\ main' = "select"
  /\ UNCHANGED <<at, exit, sig, closed, expired, open, servers, traffic>>

\* log.Fatalf
BindFails ==
  /\ Running /\ main \in {"bindHTTP", "bindHTTPS"}
  /\ failed' = failed \cup {IF main = "bindHTTP" THEN "http" ELSE "https"}
  /\ Exit("fatal") /\ UNCHANGED <<go, errCh, traffic>>

SelectDone ==
  /\ Running /\ main = "select" /\ sig
  /\ main' = "shutdown"
  /\ UNCHANGED <<at, exit, sig, closed, expired, open, servers, traffic>>

\* An error ends the process on the spot, without the deferred calls.
SelectErr ==
  /\ Running /\ main = "select" /\ errCh # <<>>
  /\ IF Head(errCh) THEN Exit("fatal")
     ELSE main' = "shutdown" /\ UNCHANGED <<at, exit, sig, closed, expired, open>>
  /\ UNCHANGED <<servers, traffic>>

\* SIGINT or SIGTERM.  Until stop() is called, it only cancels ctx; after it,
\* the default action ends the process.
Signal ==
  /\ Running
  /\ IF main \in {"bindHTTP", "bindHTTPS", "select"}
     THEN /\ ~sig /\ sig' = TRUE
          /\ UNCHANGED <<main, at, exit, closed, expired, open>>
     ELSE Exit("killed")
  /\ UNCHANGED <<servers, traffic>>

-----------------------------------------------------------------------------
(* The goroutines of the servers.                                           *)

Started == Running /\ main \notin {"bindHTTP", "bindHTTPS"}
BoundByMain(s) == TLS /\ s \in {"http", "https"}

\* A server that was shut down before it listens returns ErrServerClosed,
\* sent as nil.  go-smtp does not look whether it was closed before.
Listen(s) ==
  /\ Started /\ go[s] = "off"
  /\ IF s # "smtp" /\ s \in closed
     THEN go' = [go EXCEPT ![s] = "returned"] /\ Send(FALSE)
     ELSE go' = [go EXCEPT ![s] = "serving"] /\ UNCHANGED errCh
  /\ UNCHANGED <<failed, process, traffic>>

\* The address is taken, or Accept fails for good.
ServeFails(s) ==
  /\ Started /\ s \notin closed
  /\ go[s] = "serving" \/ (go[s] = "off" /\ ~BoundByMain(s))
  /\ go' = [go EXCEPT ![s] = "returned"] /\ Send(TRUE)
  /\ failed' = failed \cup {s}
  /\ UNCHANGED <<process, traffic>>

Returns(s) ==
  /\ Started /\ go[s] = "serving" /\ s \in closed
  /\ go' = [go EXCEPT ![s] = "returned"] /\ Send(FALSE)
  /\ UNCHANGED <<failed, process, traffic>>

\* WaitSMTPReady: the certificate, or the end of ctx.
SmtpReady ==
  /\ Started /\ go["smtp"] = "waiting"
  /\ go' = [go EXCEPT !["smtp"] = "off"]
  /\ UNCHANGED <<errCh, failed, process, traffic>>

\* Mutant: the goroutine reports the end of ctx as an error.
SmtpReportsCancel ==
  /\ Started /\ go["smtp"] = "waiting" /\ Cancelled
  /\ go' = [go EXCEPT !["smtp"] = "returned"] /\ Send(TRUE)
  /\ UNCHANGED <<failed, process, traffic>>

SmtpGivesUp ==
  /\ Started /\ go["smtp"] = "waiting" /\ Cancelled
  /\ go' = [go EXCEPT !["smtp"] = "returned"]
  /\ UNCHANGED <<errCh, failed, process, traffic>>

-----------------------------------------------------------------------------
(* Shutdown.                                                                *)

InFlight(r) == req[r] \in {"arrived", "admitted", "handling", "answered"}
Busy(s) == \E r \in Requests : Server[r] = s /\ InFlight(r)

\* Shutdown closes the listener, then waits until the server is idle or
\* shutdownCtx, which all servers share, is over.
BeginShutdown ==
  /\ Running /\ main = "shutdown" /\ Order[at] \notin closed
  /\ closed' = closed \cup {Order[at]}
  /\ UNCHANGED <<main, at, exit, sig, expired, open, servers, traffic>>

NextServer ==
  /\ at' = at + 1
  /\ main' = IF at = Len(Order) THEN "smtp" ELSE "shutdown"

\* Mutant: Shutdown replaced by Close.
EndAtOnce ==
  /\ Running /\ main = "shutdown" /\ Order[at] \in closed
  /\ NextServer
  /\ UNCHANGED <<exit, sig, closed, expired, open, servers, traffic>>

\* Mutant: Shutdown with a context that has no deadline.
EndWhenIdle ==
  /\ Running /\ main = "shutdown" /\ Order[at] \in closed /\ ~Busy(Order[at])
  /\ NextServer
  /\ UNCHANGED <<exit, sig, closed, expired, open, servers, traffic>>

EndShutdown ==
  /\ Running /\ main = "shutdown" /\ Order[at] \in closed
  /\ expired \/ ~Busy(Order[at])
  /\ NextServer
  /\ UNCHANGED <<exit, sig, closed, expired, open, servers, traffic>>

Expire ==
  /\ Running /\ main = "shutdown" /\ ~expired
  /\ expired' = TRUE
  /\ UNCHANGED <<main, at, exit, sig, closed, open, servers, traffic>>

CloseSMTP ==
  /\ Running /\ main = "smtp"
  /\ closed' = closed \cup {"smtp"} /\ main' = "analytics"
  /\ UNCHANGED <<at, exit, sig, expired, open, servers, traffic>>

\* The deferred calls, in reverse order.
CloseAnalytics ==
  /\ Running /\ main = "analytics"
  /\ open' = open \ {"analytics"} /\ main' = "store"
  /\ UNCHANGED <<at, exit, sig, closed, expired, servers, traffic>>

CloseStore ==
  /\ Running /\ main = "store"
  /\ open' = open \ {"store"} /\ exit' = "ok"
  /\ UNCHANGED <<main, at, sig, closed, expired, servers, traffic>>

-----------------------------------------------------------------------------
(* HTTP requests.                                                           *)

AppServer == IF "https" \in Servers THEN "https" ELSE "http"
ToApp(r) == Server[r] = AppServer

resolvedClientIP(r) == IF UseHeader /\ Header[r] \in IPs THEN Header[r] ELSE Peer[r]

Step(r, from, to) == Running /\ req[r] = from /\ req' = [req EXCEPT ![r] = to]

\* The other servers only redirect, or show metrics or the dashboard.
Arrive(r) ==
  /\ go[Server[r]] = "serving" /\ Server[r] \notin closed
  /\ Step(r, "new", IF ToApp(r) THEN "arrived" ELSE "handling")
  /\ UNCHANGED <<requests, tokens, refills, passed, process, servers>>

PassRate(r) ==
  /\ Step(r, "arrived", "admitted")
  /\ LET c == resolvedClientIP(r) IN
     IF r \in Health THEN UNCHANGED <<tokens, passed>>
     ELSE /\ tokens[c] > 0
          /\ tokens' = [tokens EXCEPT ![c] = @ - 1]
          /\ passed' = passed \cup {r}
  /\ UNCHANGED <<requests, refills, process, servers>>

\* 429
OverRate(r) ==
  /\ r \notin Health /\ tokens[resolvedClientIP(r)] = 0
  /\ Step(r, "arrived", "answered")
  /\ UNCHANGED <<requests, tokens, refills, passed, process, servers>>

\* tollbooth's bucket, as time goes by
Refill(c) ==
  /\ Running /\ tokens[c] < Burst /\ refills[c] < MaxRefills
  /\ tokens' = [tokens EXCEPT ![c] = @ + 1]
  /\ refills' = [refills EXCEPT ![c] = @ + 1]
  /\ UNCHANGED <<req, requests, passed, process, servers>>

TakeSlot(r) ==
  /\ MaxHTTPRequests > 0 => requests < MaxHTTPRequests
  /\ Step(r, "admitted", "handling")
  /\ requests' = IF MaxHTTPRequests > 0 THEN requests + 1 ELSE requests
  /\ UNCHANGED <<tokens, refills, passed, process, servers>>

\* 503
Overloaded(r) ==
  /\ MaxHTTPRequests > 0 /\ requests = MaxHTTPRequests
  /\ Step(r, "admitted", "answered")
  /\ UNCHANGED <<requests, tokens, refills, passed, process, servers>>

\* The deferred receive of limitHTTPRequests
GiveSlotBack(r) ==
  requests' = IF ToApp(r) /\ MaxHTTPRequests > 0 THEN requests - 1 ELSE requests

Finish(r) ==
  /\ Step(r, "handling", IF ToApp(r) THEN "answered" ELSE "done")
  /\ GiveSlotBack(r)
  /\ UNCHANGED <<tokens, refills, passed, process, servers>>

\* Mutant: the slot is given back after the handler instead of by a defer.
PanicKeepsSlot(r) ==
  /\ Step(r, "handling", "done")
  /\ UNCHANGED <<requests, tokens, refills, passed, process, servers>>

\* net/http recovers; the deferred receive runs, what follows the call does not.
Panic(r) ==
  /\ Step(r, "handling", "done")
  /\ GiveSlotBack(r)
  /\ UNCHANGED <<tokens, refills, passed, process, servers>>

\* Record counts the event, or drops it once the recorder is closed.
RecordEvent(r) ==
  /\ Step(r, "answered", IF "analytics" \in open THEN "done" ELSE "dropped")
  /\ UNCHANGED <<requests, tokens, refills, passed, process, servers>>

-----------------------------------------------------------------------------
Init ==
  /\ main = IF TLS THEN "bindHTTP" ELSE "select"
  /\ at = 1 /\ exit = "none" /\ sig = FALSE
  /\ go = [s \in Goroutines |-> IF s = "smtp" /\ WaitTLS THEN "waiting" ELSE "off"]
  /\ errCh = <<>> /\ closed = {} /\ expired = FALSE /\ open = {"analytics", "store"}
  /\ req = [r \in Requests |-> "new"] /\ requests = 0
  /\ tokens = [c \in IPs |-> Burst] /\ refills = [c \in IPs |-> 0]
  /\ passed = {} /\ failed = {}

Main ==
  \/ BindHTTP \/ BindHTTPS \/ SelectDone \/ SelectErr
  \/ BeginShutdown \/ EndShutdown \/ CloseSMTP \/ CloseAnalytics \/ CloseStore

Next ==
  \/ Main \/ BindFails \/ Signal \/ Expire \/ SmtpReady \/ SmtpGivesUp
  \/ \E s \in Goroutines : Listen(s) \/ ServeFails(s) \/ Returns(s)
  \/ \E r \in Requests :
       \/ Arrive(r) \/ PassRate(r) \/ OverRate(r) \/ TakeSlot(r) \/ Overloaded(r)
       \/ Finish(r) \/ Panic(r) \/ RecordEvent(r)
  \/ \E c \in IPs : Refill(c)

Spec == Init /\ [][Next]_vars

\* main is scheduled and, where it waits, the ten seconds pass.  No handler is
\* promised to end.
FairSpec == Spec /\ WF_vars(Main \/ Expire)

-----------------------------------------------------------------------------
(* Properties.                                                              *)

TypeOK ==
  /\ main \in {"bindHTTP", "bindHTTPS", "select", "shutdown", "smtp", "analytics", "store"}
  /\ at \in 1..Len(Order) + 1 /\ exit \in {"none", "ok", "fatal", "killed"}
  /\ sig \in BOOLEAN /\ expired \in BOOLEAN
  /\ go \in [Goroutines -> {"waiting", "off", "serving", "returned"}]
  /\ errCh \in Seq(BOOLEAN) /\ closed \subseteq Goroutines /\ failed \subseteq Goroutines
  /\ open \subseteq {"analytics", "store"} /\ passed \subseteq Requests
  /\ req \in [Requests -> {"new", "arrived", "admitted", "handling", "answered", "done", "dropped"}]
  /\ requests \in 0..MaxHTTPRequests
  /\ tokens \in [IPs -> 0..Burst] /\ refills \in [IPs -> 0..MaxRefills]

\* Unless the ten seconds run out, the recorder and the store are closed only
\* when no HTTP request is being served, so that no request meets a closed
\* store and none goes unrecorded: main.go:172-197 against http.go:498-526.
DrainedBeforeClose ==
  open # {"analytics", "store"} /\ ~expired =>
    \A r \in Requests : ~InFlight(r) /\ req[r] # "dropped"

\* The process ends by log.Fatal only because a server could not listen or
\* stopped by itself, never because of its own shutdown; main returns only after a
\* signal, with every server shut down and recorder and store closed by its
\* deferred calls (main.go:103-197).
CleanExit ==
  /\ exit = "fatal" => failed # {}
  /\ exit = "ok" => sig /\ closed = Goroutines /\ open = {}

\* However requests are answered, refused, overtaken or broken off by a panic,
\* the slots taken are those of the requests being handled, so capacity is
\* never lost and the limit never passed; and a client gets no more requests
\* through than its burst and what was refilled, whatever header its requests
\* carry (http.go:319-337, ratelimit.go:47-86).
LimitsHold ==
  /\ MaxHTTPRequests > 0 =>
       requests = Cardinality({r \in Requests : ToApp(r) /\ req[r] = "handling"})
  /\ \A c \in IPs :
       Cardinality({r \in passed : resolvedClientIP(r) = c}) + tokens[c] = Burst + refills[c]

\* A signal or a failed server ends the process, even if handlers hang
\* (main.go:164-197).
ServiceEnds == (sig \/ failed # {}) ~> exit # "none"

=============================================================================
