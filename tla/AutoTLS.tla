------------------------------- MODULE AutoTLS -------------------------------
(***************************************************************************)
(* Automatic TLS (internal/app/autotls.go): one worker per host name asks  *)
(* autocert for a certificate, activates it and sleeps; SMTP waits for its *)
(* own certificate before it listens (cmd/tmpmail/main.go); HTTP answers   *)
(* challenges and holds visitors back until HTTPS has a certificate.       *)
(*                                                                         *)
(* The certificates of a host are numbered in the order of issue; 0 is     *)
(* none.  Validity is measured by the wall clock, sleep by a timer in      *)
(* minutes.  autocert and the CA are external: autocert returns the latest *)
(* certificate at once, if there is one, and otherwise waits for the CA or *)
(* fails.  Left out: methods other than GET and HEAD, logging, and the     *)
(* channel a.ready, for which nobody waits.                                *)
(***************************************************************************)
EXTENDS Integers, Sequences

CONSTANTS
  Periods,    \* validity of the first, second, ... certificate: [from, until]
  MaxDelay,   \* cap of the backoff (one hour), in minutes
  MaxTime     \* bound on the wall clock

Hosts == {"web", "mail"}

ASSUME AutoTLSAssumption ==
  /\ Periods \in Seq([from : Nat, until : Nat])
  /\ \A g, k \in 1 .. Len(Periods) : g <= k => Periods[g].until <= Periods[k].until
  /\ MaxDelay \in Nat \ {0} /\ MaxTime \in Nat

VARIABLES
  cfg,        \* AutoTLSWebEnabled, AutoTLSSMTPEnabled, MailDomain
  public,     \* hosts whose public name leads here, so that the CA can validate
  issued,     \* the certificate autocert holds for a host
  certs,      \* a.certs
  pc,         \* what a host's worker does next
  got,        \* the certificate its last call of autocert returned
  delay,      \* its backoff
  wait,       \* minutes until its timer fires
  lag,        \* history: minutes the latest renewal, valid, has waited for adoption
  cancelled,  \* ctx is done
  listener,   \* SMTP: "waiting", "serving" or "ended"
  visitor,    \* of the web host: "http", "redirected", "connected", "served",
              \* "refused" (by the handshake) or "unavailable" (503)
  now

worker == <<pc, got, delay, wait>>
vars == <<cfg, public, issued, certs, pc, got, delay, wait, lag, cancelled, listener,
          visitor, now>>

Domains == (IF cfg.web THEN {"web"} ELSE {}) \cup (IF cfg.smtp THEN {cfg.mailDomain} ELSE {})

Valid(g) == g # 0 /\ Periods[g].from <= now /\ now < Periods[g].until

\* certificate(host) returns no error.
Usable(h) == Valid(certs[h])
Ready == \A h \in Domains : Usable(h)
WebReady == Usable("web")

-----------------------------------------------------------------------------
(* HTTPHandler with webTLSHTTPFallback, HTTPSConfig and HTTPSHandler.       *)

\* Mutant: visitors are redirected from the start.
FallbackAlwaysReady == "redirect"

Fallback == IF WebReady THEN "redirect" ELSE "pending"

HTTPAnswer(host, path) ==
  CASE path = "healthz" -> IF Ready THEN "ok" ELSE "unavailable"
    [] path # "healthz" /\ ~cfg.web /\ path # "challenge" -> "application"
    [] path # "healthz" /\ (cfg.web \/ path = "challenge") ->
         IF host \notin Domains THEN "unconfigured"
         ELSE IF path = "challenge" THEN "challenge" ELSE Fallback

\* What a TLS handshake on the HTTPS port gets.
HTTPSAnswer(host, alpn) ==
  CASE host \notin Domains -> "unconfigured"
    [] host \in Domains /\ alpn -> "challenge"
    [] host \in Domains /\ ~alpn -> IF host = "web" /\ WebReady THEN "certificate" ELSE "refused"

Visit ==
  /\ ~cancelled /\ visitor = "http"
  /\ visitor' = CASE HTTPAnswer("web", "page") = "application" -> "served"
                  [] HTTPAnswer("web", "page") = "redirect" -> "redirected"
                  [] OTHER -> "http"
  /\ UNCHANGED <<cfg, public, issued, certs, worker, lag, cancelled, listener, now>>

Connect ==
  /\ ~cancelled /\ visitor = "redirected"
  /\ visitor' = IF HTTPSAnswer("web", FALSE) = "certificate" THEN "connected" ELSE "refused"
  /\ UNCHANGED <<cfg, public, issued, certs, worker, lag, cancelled, listener, now>>

Request ==
  /\ ~cancelled /\ visitor = "connected"
  /\ visitor' = IF WebReady THEN "served" ELSE "unavailable"
  /\ UNCHANGED <<cfg, public, issued, certs, worker, lag, cancelled, listener, now>>

\* The visitor tries again.
Return ==
  /\ ~cancelled /\ visitor \in {"refused", "unavailable"} /\ visitor' = "http"
  /\ UNCHANGED <<cfg, public, issued, certs, worker, lag, cancelled, listener, now>>

-----------------------------------------------------------------------------
(* The CA.  The first certificate of a host is issued while a worker waits  *)
(* for it, a renewal at any time; either way the CA must reach a challenge. *)

Validates(h) == /\ h \in public
                /\ \/ HTTPAnswer(h, "challenge") = "challenge"
                   \/ cfg.web /\ HTTPSAnswer(h, TRUE) = "challenge"

Issue(h) ==
  /\ h \in Domains /\ Validates(h) /\ issued[h] < Len(Periods)
  /\ issued[h] = 0 => pc[h] = "refresh"
  /\ issued' = [issued EXCEPT ![h] = @ + 1] /\ lag' = [lag EXCEPT ![h] = 0]
  /\ UNCHANGED <<cfg, public, certs, worker, cancelled, listener, visitor, now>>

-----------------------------------------------------------------------------
(* run: the worker of a host.                                               *)

\* manager.GetCertificate, which does not know of ctx.
Lookup(h) ==
  /\ pc[h] = "refresh" /\ issued[h] # 0
  /\ got' = [got EXCEPT ![h] = issued[h]] /\ pc' = [pc EXCEPT ![h] = "verify"]
  /\ UNCHANGED <<cfg, public, issued, certs, delay, wait, lag, cancelled, listener,
                 visitor, now>>

LookupFails(h) ==
  /\ pc[h] = "refresh" /\ ~Valid(issued[h]) /\ pc' = [pc EXCEPT ![h] = "settle"]
  /\ UNCHANGED <<cfg, public, issued, certs, got, delay, wait, lag, cancelled, listener,
                 visitor, now>>

\* Mutant: activates whatever it is given.
VerifyAll(h) ==
  /\ pc[h] = "verify"
  /\ pc' = [pc EXCEPT ![h] = "store"]
  /\ UNCHANGED <<cfg, public, issued, certs, got, delay, wait, lag, cancelled, listener,
                 visitor, now>>

\* activate, up to the lock ...
Verify(h) ==
  /\ pc[h] = "verify"
  /\ IF Valid(got[h]) THEN pc' = [pc EXCEPT ![h] = "store"] /\ UNCHANGED got
     ELSE pc' = [pc EXCEPT ![h] = "settle"] /\ got' = [got EXCEPT ![h] = 0]
  /\ UNCHANGED <<cfg, public, issued, certs, delay, wait, lag, cancelled, listener,
                 visitor, now>>

\* ... and under it.
Store(h) ==
  /\ pc[h] = "store" /\ pc' = [pc EXCEPT ![h] = "settle"]
  /\ certs' = [certs EXCEPT ![h] = got[h]] /\ got' = [got EXCEPT ![h] = 0]
  /\ lag' = [lag EXCEPT ![h] = 0]
  /\ UNCHANGED <<cfg, public, issued, delay, wait, cancelled, listener, visitor, now>>

Backoff(d) == IF 2 * d > MaxDelay THEN MaxDelay ELSE 2 * d

\* Mutant: one slow host slows the others down.
SettleAll(h) ==
  /\ pc[h] = "settle"
  /\ IF cancelled
     THEN pc' = [pc EXCEPT ![h] = "done"] /\ UNCHANGED <<delay, wait>>
     ELSE /\ delay' = [delay EXCEPT ![h] = IF Ready THEN 1 ELSE Backoff(@)]
          /\ wait' = [wait EXCEPT ![h] = delay'[h]]
          /\ pc' = [pc EXCEPT ![h] = "sleep"]
  /\ UNCHANGED <<cfg, public, issued, certs, got, lag, cancelled, listener, visitor, now>>

\* After the attempt: the backoff and the timer.
Settle(h) ==
  /\ pc[h] = "settle"
  /\ IF cancelled
     THEN pc' = [pc EXCEPT ![h] = "done"] /\ UNCHANGED <<delay, wait>>
     ELSE /\ delay' = [delay EXCEPT ![h] = IF Usable(h) THEN 1 ELSE Backoff(@)]
          /\ wait' = [wait EXCEPT ![h] = delay'[h]]
          /\ pc' = [pc EXCEPT ![h] = "sleep"]
  /\ UNCHANGED <<cfg, public, issued, certs, got, lag, cancelled, listener, visitor, now>>

Wake(h) ==
  /\ pc[h] = "sleep" /\ (wait[h] = 0 \/ cancelled)
  /\ pc' = [pc EXCEPT ![h] = IF cancelled THEN "done" ELSE "refresh"]
  /\ wait' = [wait EXCEPT ![h] = 0]
  /\ UNCHANGED <<cfg, public, issued, certs, got, delay, lag, cancelled, listener,
                 visitor, now>>

-----------------------------------------------------------------------------
(* main: the goroutine that starts SMTP (WaitSMTPReady), and ctx.           *)

\* Mutant: SMTP waits for every certificate.
SMTPReadyAll == Ready

SMTPReady == Usable(cfg.mailDomain)

StartSMTP ==
  /\ listener = "waiting" /\ SMTPReady /\ listener' = "serving"
  /\ UNCHANGED <<cfg, public, issued, certs, worker, lag, cancelled, visitor, now>>

\* Between two looks at the certificate, which may just have arrived.
GiveUpSMTP ==
  /\ listener = "waiting" /\ cancelled /\ listener' = "ended"
  /\ UNCHANGED <<cfg, public, issued, certs, worker, lag, cancelled, visitor, now>>

Cancel ==
  /\ ~cancelled /\ cancelled' = TRUE
  /\ UNCHANGED <<cfg, public, issued, certs, worker, lag, listener, visitor, now>>

-----------------------------------------------------------------------------
(* Time.                                                                    *)

Tick ==
  /\ now < MaxTime /\ now' = now + 1
  /\ UNCHANGED <<cfg, public, issued, certs, worker, lag, cancelled, listener, visitor>>

\* A renewal that is valid and not adopted yet.
Outdated(h) == certs[h] # 0 /\ certs[h] # issued[h] /\ Valid(issued[h])

\* A minute passes while every worker sleeps, or waits for the CA.
Minute ==
  /\ ~cancelled
  /\ \A h \in Domains : \/ pc[h] = "done" \/ (pc[h] = "sleep" /\ wait[h] > 0)
                        \/ pc[h] = "refresh" /\ ~Valid(issued[h])
  /\ wait' = [h \in Hosts |-> IF pc[h] = "sleep" THEN wait[h] - 1 ELSE wait[h]]
  /\ lag' = [h \in Hosts |-> IF Outdated(h) /\ pc[h] # "done" THEN lag[h] + 1 ELSE lag[h]]
  /\ UNCHANGED <<cfg, public, issued, certs, pc, got, delay, cancelled, listener,
                 visitor, now>>

-----------------------------------------------------------------------------
\* NewAutoTLS refuses a configuration without any service.
Init ==
  /\ cfg \in {c \in [web : BOOLEAN, smtp : BOOLEAN, mailDomain : Hosts] : c.web \/ c.smtp}
  /\ public \in SUBSET Domains
  /\ issued = [h \in Hosts |-> 0] /\ certs = issued /\ got = issued /\ wait = issued
  /\ lag = issued /\ delay = [h \in Hosts |-> 1]
  /\ pc = [h \in Hosts |-> IF h \in Domains THEN "refresh" ELSE "done"]
  /\ cancelled = FALSE
  /\ listener = IF cfg.smtp THEN "waiting" ELSE "serving"
  /\ visitor = "http" /\ now = 0

Work(h) == Lookup(h) \/ Verify(h) \/ Store(h) \/ Settle(h) \/ Wake(h)
Browse == Visit \/ Connect \/ Request \/ Return

Next == \/ \E h \in Hosts : Work(h) \/ LookupFails(h) \/ Issue(h)
        \/ Browse \/ StartSMTP \/ GiveUpSMTP \/ Cancel \/ Tick \/ Minute

Spec == Init /\ [][Next]_vars

\* Goroutines run on, timers fire, time passes; a CA that can validate a host
\* again and again issues its certificate in the end (SF).  Nothing is
\* assumed of a host that the CA cannot reach: its lookup may fail or hang.
FairSpec ==
  /\ Spec
  /\ \A h \in Hosts : WF_vars(Work(h)) /\ SF_vars(Issue(h))
  /\ WF_vars(Browse) /\ WF_vars(StartSMTP) /\ WF_vars(GiveUpSMTP)
  /\ WF_vars(Tick) /\ WF_vars(Minute)

-----------------------------------------------------------------------------
(* Properties.                                                              *)

\* Every variable stays in its type.
TypeOK ==
  /\ cfg \in [web : BOOLEAN, smtp : BOOLEAN, mailDomain : Hosts] /\ public \subseteq Hosts
  /\ \A f \in {issued, certs, got} : f \in [Hosts -> 0 .. Len(Periods)]
  /\ pc \in [Hosts -> {"refresh", "verify", "store", "settle", "sleep", "done"}]
  /\ delay \in [Hosts -> 1 .. MaxDelay] /\ wait \in [Hosts -> 0 .. MaxDelay]
  /\ lag \in [Hosts -> Nat] /\ cancelled \in BOOLEAN
  /\ listener \in {"waiting", "serving", "ended"}
  /\ visitor \in {"http", "redirected", "connected", "served", "refused", "unavailable"}
  /\ now \in 0 .. MaxTime

\* "During renewal failures, the current valid certificates remain active"
\* (README.md): only the clock makes a usable certificate unusable, never the
\* worker, whichever certificate autocert returns and however long it takes.  A
\* later certificate of a host is assumed not to end before an earlier one.
NeverWithdrawn == [][\A h \in Hosts : Usable(h) /\ now' = now => Usable(h)']_vars

\* "redirects only when ready" (webTLSHTTPFallback): a visitor who was sent to
\* HTTPS is turned away there only if the certificate has expired since.
RedirectJustified ==
  [][visitor' # visitor /\ visitor' \in {"refused", "unavailable"} =>
       certs["web"] # 0 /\ now >= Periods[certs["web"]].until]_vars

\* "renewal updates adopted within a minute" (README.md), as long as the
\* certificate in use is valid and whatever the other host is doing.
RenewedInTime == \A h \in Domains : Usable(h) => lag[h] <= 1

\* "Each service becomes available independently" (README.md): if the CA can
\* reach a service's host, SMTP starts to listen, or a visitor gets the
\* application over HTTPS, though the other host may fail or hang forever.
ServicesComeUp ==
  /\ cfg.smtp /\ cfg.mailDomain \in public => <>(cancelled \/ listener = "serving")
  /\ cfg.web /\ "web" \in public => <>(cancelled \/ visitor = "served")
=============================================================================
