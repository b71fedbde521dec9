---------------------------- MODULE AutoTLSProofs ----------------------------
(* Theorems about AutoTLS, for any number of certificates whose validity      *)
(* does not end earlier than that of the ones before, and any delays.         *)
EXTENDS AutoTLS, TLAPS

USE AutoTLSAssumption

Begun(g) == g # 0 /\ Periods[g].from <= now

\* What a worker holds is not older than what is active, nor newer than what
\* autocert has; what it found valid, and what it activated, has begun.
Certificates ==
  \A h \in Hosts :
    /\ certs[h] <= issued[h] /\ got[h] <= issued[h]
    /\ certs[h] # 0 => Begun(certs[h])
    /\ pc[h] \in {"verify", "store"} => got[h] # 0 /\ certs[h] <= got[h]
    /\ pc[h] = "store" => Begun(got[h])

\* A visitor is sent to HTTPS only when the web host has had a certificate.
Visitors ==
  visitor \in {"redirected", "connected"} => "web" \in Domains /\ certs["web"] # 0

\* While its certificate is usable, a worker sleeps a minute at a time, and a
\* renewal that has waited a minute is the next thing it adopts.
Renewals ==
  /\ \A h \in Hosts : h \notin Domains => pc[h] = "done"
  /\ \A h \in Hosts : Usable(h) =>
       /\ pc[h] = "sleep" => wait[h] <= 1
       /\ lag[h] <= 1
       /\ lag[h] = 1 /\ pc[h] # "done" =>
            /\ Valid(issued[h]) /\ pc[h] # "settle"
            /\ pc[h] = "sleep" => wait[h] = 0
            /\ pc[h] = "verify" => got[h] = issued[h]

\* The inductive invariant.
AutoTLSInv == TypeOK /\ Certificates /\ Visitors /\ Renewals

-----------------------------------------------------------------------------
\* Every certificate has a beginning and an end.
LEMMA PeriodTypes ==
  \A g \in 1 .. Len(Periods) : Periods[g].from \in Nat /\ Periods[g].until \in Nat
<1> DEFINE R == [from : Nat, until : Nat]
<1>1. Periods \in Seq(R) OBVIOUS
<1>2. \A r \in R : r.from \in Nat /\ r.until \in Nat OBVIOUS
<1> HIDE DEF R
<1>3. \A g \in 1 .. Len(Periods) : Periods[g] \in R BY <1>1
<1> QED BY <1>2, <1>3

\* A later certificate of a host outlives an earlier one: if the earlier is
\* valid and the later has begun, the later is valid.
LEMMA Outlives ==
  ASSUME NEW g \in 0 .. Len(Periods), NEW k \in 0 .. Len(Periods), now \in Nat,
         Valid(g), g <= k, Begun(k)
  PROVE  Valid(k)
<1>1. g \in 1 .. Len(Periods) /\ k \in 1 .. Len(Periods) BY DEF Valid, Begun
<1>2. /\ Periods[g].from \in Nat /\ Periods[g].until \in Nat
      /\ Periods[k].from \in Nat /\ Periods[k].until \in Nat
  BY <1>1, PeriodTypes
<1>3. Periods[g].until <= Periods[k].until BY <1>1
<1> QED BY <1>2, <1>3, SMTT(60) DEF Valid, Begun

\* The functions of the hosts, one by one.
LEMMA Types ==
  ASSUME TypeOK
  PROVE  /\ issued \in [Hosts -> 0 .. Len(Periods)] /\ certs \in [Hosts -> 0 .. Len(Periods)]
         /\ got \in [Hosts -> 0 .. Len(Periods)] /\ Len(Periods) \in Nat /\ now \in Nat
         /\ pc \in [Hosts -> {"refresh", "verify", "store", "settle", "sleep", "done"}]
         /\ delay \in [Hosts -> 1 .. MaxDelay] /\ wait \in [Hosts -> 0 .. MaxDelay]
         /\ lag \in [Hosts -> Nat]
BY DEF TypeOK

\* The visitor's steps, SMTP's and the end of ctx leave the certificates and
\* the workers alone.
LEMMA WorkersRest ==
  ASSUME AutoTLSInv, UNCHANGED <<cfg, issued, certs, worker, lag, now>>
  PROVE  Certificates' /\ Renewals'
BY DEF AutoTLSInv, worker, Certificates, Begun, Renewals, Usable, Valid, Domains

\* Visitors come and go.
LEMMA BrowseInv ==
  ASSUME AutoTLSInv, Browse \/ StartSMTP \/ GiveUpSMTP \/ Cancel
  PROVE  AutoTLSInv'
<1>1. /\ UNCHANGED <<cfg, public, issued, certs, worker, lag, now>>
  BY DEF Browse, Visit, Connect, Request, Return, StartSMTP, GiveUpSMTP, Cancel
<1>2. Certificates' /\ Renewals' BY <1>1, WorkersRest
<1>3. /\ visitor \in {"http", "redirected", "connected", "served", "refused", "unavailable"}
      /\ listener \in {"waiting", "serving", "ended"} /\ cancelled \in BOOLEAN
  BY DEF AutoTLSInv, TypeOK
<1>4. /\ visitor' \in {"http", "redirected", "connected", "served", "refused", "unavailable"}
      /\ listener' \in {"waiting", "serving", "ended"} /\ cancelled' \in BOOLEAN
  <2>1. cancelled' \in BOOLEAN
    BY <1>3, Zenon DEF Browse, Visit, Connect, Request, Return, StartSMTP, GiveUpSMTP, Cancel
  <2>2. /\ visitor' \in {"http", "redirected", "connected", "served", "refused", "unavailable"}
        /\ listener' \in {"waiting", "serving", "ended"}
    BY <1>3 DEF Browse, Visit, Connect, Request, Return, StartSMTP, GiveUpSMTP, Cancel
  <2> QED BY <2>1, <2>2
<1>5. TypeOK' BY <1>1, <1>4 DEF AutoTLSInv, TypeOK, worker
<1>6. Visitors'
  <2>1. CASE Visit
    <3>1. visitor' = "redirected" => "web" \in Domains /\ WebReady
      BY <2>1 DEF Visit, HTTPAnswer, Fallback
    <3>2. visitor' # "connected" BY <2>1 DEF Visit
    <3> QED BY <1>1, <3>1, <3>2 DEF Visitors, WebReady, Usable, Valid, Domains
  <2>2. CASE Connect BY <1>1, <2>2 DEF Connect, AutoTLSInv, Visitors, Domains
  <2>3. CASE Request \/ Return BY <1>1, <2>3 DEF Request, Return, Visitors
  <2>4. CASE StartSMTP \/ GiveUpSMTP \/ Cancel
    BY <1>1, <2>4 DEF StartSMTP, GiveUpSMTP, Cancel, AutoTLSInv, Visitors, Domains
  <2> QED BY <2>1, <2>2, <2>3, <2>4 DEF Browse
<1> QED BY <1>2, <1>5, <1>6 DEF AutoTLSInv

\* Time passes: what is valid may expire, and nothing that has begun is undone.
LEMMA TickInv == ASSUME AutoTLSInv, Tick PROVE AutoTLSInv'
<1>1. /\ UNCHANGED <<cfg, public, issued, certs, pc, got, delay, wait, lag, cancelled, listener, visitor>>
      /\ now' = now + 1 /\ now < MaxTime
  BY DEF Tick, worker
<1>2. TypeOK' BY <1>1, SMTT(60) DEF AutoTLSInv, TypeOK
<1>3. now \in Nat /\ \A g \in 1 .. Len(Periods) : Periods[g].from \in Nat /\ Periods[g].until \in Nat
  BY PeriodTypes DEF AutoTLSInv, TypeOK
<1>4. \A g \in 0 .. Len(Periods) : Begun(g) => Begun(g)' BY <1>1, <1>3 DEF Begun
<1>5. \A g \in 0 .. Len(Periods) : Begun(g) /\ Valid(g)' => Valid(g)
  BY <1>1, <1>3 DEF Begun, Valid
<1>6. \A h \in Hosts : certs[h] \in 0 .. Len(Periods) /\ got[h] \in 0 .. Len(Periods)
                       /\ issued[h] \in 0 .. Len(Periods)
  BY Types DEF AutoTLSInv
<1>7. Certificates' BY <1>1, <1>4, <1>6 DEF AutoTLSInv, Certificates
<1>8. Visitors' BY <1>1 DEF AutoTLSInv, Visitors, Domains
<1>9. Renewals'
  <2>1. ASSUME NEW h \in Hosts, Usable(h)'
        PROVE  Usable(h) /\ (Valid(issued[h]) => Valid(issued[h])')
    <3>1. Valid(certs[h])' /\ certs'[h] = certs[h] BY <1>1, <2>1 DEF Usable, Valid
    <3>2. certs[h] # 0 /\ Begun(certs[h]) /\ certs[h] <= issued[h]
      BY <1>1, <3>1 DEF AutoTLSInv, Certificates, Valid
    <3>3. Valid(certs[h]) /\ Usable(h) BY <1>5, <1>6, <3>1, <3>2, <1>1 DEF Usable, Valid
    <3>4. Periods[certs[h]].until <= Periods[issued[h]].until BY <1>6, <3>2, SMTT(60)
    <3>5. certs[h] \in 1 .. Len(Periods) /\ issued[h] \in 1 .. Len(Periods) BY <1>6, <3>2
    <3>6. Periods[issued[h]].until \in Nat /\ Periods[certs[h]].until \in Nat
          /\ Periods[issued[h]].from \in Nat
      BY <1>3, <3>5
    <3>7. now + 1 < Periods[certs[h]].until BY <1>1, <3>1 DEF Valid
    <3>8. ASSUME Valid(issued[h]) PROVE Valid(issued[h])'
      <4>1. issued[h] # 0 /\ Periods[issued[h]].from <= now BY <3>8 DEF Valid
      <4>2. Periods[issued[h]].from <= now + 1 /\ now + 1 < Periods[issued[h]].until
        <5>1. now \in Nat BY <1>3
        <5> QED BY ONLY <5>1, <3>4, <3>6, <3>7, <4>1
      <4> QED BY <1>1, <4>1, <4>2 DEF Valid
    <3> QED BY <3>3, <3>8
  <2> QED BY <1>1, <2>1 DEF AutoTLSInv, Renewals, Domains, Valid
<1> QED BY <1>2, <1>7, <1>8, <1>9 DEF AutoTLSInv

\* A minute passes while workers sleep or wait.
LEMMA MinuteInv == ASSUME AutoTLSInv, Minute PROVE AutoTLSInv'
<1>1. /\ UNCHANGED <<cfg, public, issued, certs, pc, got, delay, cancelled, listener, visitor, now>>
      /\ wait' = [h \in Hosts |-> IF pc[h] = "sleep" THEN wait[h] - 1 ELSE wait[h]]
      /\ lag' = [h \in Hosts |-> IF Outdated(h) /\ pc[h] # "done" THEN lag[h] + 1 ELSE lag[h]]
      /\ \A h \in Domains : \/ pc[h] = "done" \/ (pc[h] = "sleep" /\ wait[h] > 0)
                            \/ pc[h] = "refresh" /\ ~Valid(issued[h])
  BY DEF Minute
<1>2. \A h \in Hosts : \/ pc[h] = "done" \/ (pc[h] = "sleep" /\ wait[h] > 0)
                       \/ pc[h] = "refresh" /\ ~Valid(issued[h])
  BY <1>1 DEF AutoTLSInv, Renewals
<1>3. wait \in [Hosts -> 0 .. MaxDelay] /\ lag \in [Hosts -> Nat] BY DEF AutoTLSInv, TypeOK
<1>4. wait' \in [Hosts -> 0 .. MaxDelay] /\ lag' \in [Hosts -> Nat]
  <2>1. ASSUME NEW h \in Hosts
        PROVE  /\ (IF pc[h] = "sleep" THEN wait[h] - 1 ELSE wait[h]) \in 0 .. MaxDelay
               /\ (IF Outdated(h) /\ pc[h] # "done" THEN lag[h] + 1 ELSE lag[h]) \in Nat
    <3>1. wait[h] \in 0 .. MaxDelay /\ lag[h] \in Nat BY <1>3
    <3>2. pc[h] = "sleep" => wait[h] > 0 BY <1>2
    <3>3. (IF pc[h] = "sleep" THEN wait[h] - 1 ELSE wait[h]) \in 0 .. MaxDelay BY <3>1, <3>2
    <3> QED BY <3>1, <3>3
  <2> QED BY <1>1, <2>1
<1>5. TypeOK' BY <1>1, <1>4 DEF AutoTLSInv, TypeOK
<1>6. Certificates' BY <1>1 DEF AutoTLSInv, Certificates, Begun
<1>7. Visitors' BY <1>1 DEF AutoTLSInv, Visitors, Domains
<1>8. Renewals'
  <2>1. ASSUME NEW h \in Hosts, Usable(h)
        PROVE  /\ pc[h] = "sleep" => wait'[h] <= 1
               /\ lag'[h] <= 1
               /\ lag'[h] = 1 /\ pc[h] # "done" =>
                    /\ Valid(issued[h]) /\ pc[h] # "settle"
                    /\ pc[h] = "sleep" => wait'[h] = 0
                    /\ pc[h] = "verify" => got[h] = issued[h]
    <3>1. /\ pc[h] = "sleep" => wait[h] <= 1
          /\ lag[h] <= 1
          /\ lag[h] = 1 /\ pc[h] # "done" => Valid(issued[h]) /\ (pc[h] = "sleep" => wait[h] = 0)
          /\ wait[h] \in Nat /\ lag[h] \in Nat
      BY <1>3, <2>1 DEF AutoTLSInv, Renewals
    <3>2. wait'[h] = IF pc[h] = "sleep" THEN wait[h] - 1 ELSE wait[h] BY <1>1
    <3>3. lag'[h] = lag[h] \/ (lag'[h] = lag[h] + 1 /\ Valid(issued[h]) /\ pc[h] # "done")
      BY <1>1 DEF Outdated
    <3> QED BY <1>2, <3>1, <3>2, <3>3
  <2> QED BY <1>1, <2>1 DEF AutoTLSInv, Renewals, Domains, Valid, Usable
<1> QED BY <1>5, <1>6, <1>7, <1>8 DEF AutoTLSInv

\* The CA issues a certificate: the renewal that waits is a new one.
LEMMA IssueInv == ASSUME AutoTLSInv, NEW h \in Hosts, Issue(h) PROVE AutoTLSInv'
<1>1. /\ UNCHANGED <<cfg, public, certs, pc, got, delay, wait, cancelled, listener, visitor, now>>
      /\ issued' = [issued EXCEPT ![h] = @ + 1] /\ lag' = [lag EXCEPT ![h] = 0]
      /\ issued[h] < Len(Periods)
  BY DEF Issue, worker
<1>2. /\ issued \in [Hosts -> 0 .. Len(Periods)] /\ certs \in [Hosts -> 0 .. Len(Periods)]
      /\ got \in [Hosts -> 0 .. Len(Periods)] /\ lag \in [Hosts -> Nat] /\ Len(Periods) \in Nat
  BY Types DEF AutoTLSInv
<1>3. issued' \in [Hosts -> 0 .. Len(Periods)] /\ lag' \in [Hosts -> Nat] BY <1>1, <1>2, SMTT(60)
<1>4. TypeOK' BY <1>1, <1>2, <1>3 DEF AutoTLSInv, TypeOK
<1>5. \A x \in Hosts : issued[x] <= issued'[x] /\ issued[x] \in Nat /\ issued'[x] \in Nat
                       /\ certs[x] \in Nat /\ got[x] \in Nat
  BY <1>1, <1>2, SMTT(60)
<1>6. Certificates'
  <2>1. \A x \in Hosts : certs[x] <= issued'[x] /\ got[x] <= issued'[x]
    BY <1>5 DEF AutoTLSInv, Certificates
  <2> QED BY <1>1, <2>1 DEF AutoTLSInv, Certificates, Begun
<1>7. Visitors' BY <1>1 DEF AutoTLSInv, Visitors, Domains
<1>8. Renewals'
  <2>1. \A x \in Hosts : x # h => issued'[x] = issued[x] /\ lag'[x] = lag[x] BY <1>1, <1>2
  <2>2. lag'[h] = 0 BY <1>1, <1>2
  <2>3. \A x \in Hosts : Usable(x)' <=> Usable(x) BY <1>1 DEF Usable, Valid
  <2> QED BY <1>1, <2>1, <2>2, <2>3 DEF AutoTLSInv, Renewals, Domains, Valid
<1> QED BY <1>4, <1>6, <1>7, <1>8 DEF AutoTLSInv

\* A worker moves from one place to the next; what it holds and has activated
\* stays in order.
WorkStep(h, to, g) ==
  /\ pc' = [pc EXCEPT ![h] = to] /\ got' = [got EXCEPT ![h] = g]
  /\ UNCHANGED <<cfg, public, issued, cancelled, listener, visitor, now>>
  /\ to \in {"refresh", "verify", "store", "settle", "sleep", "done"}
  /\ g \in 0 .. Len(Periods) /\ g <= issued[h]
  /\ to \in {"verify", "store"} => g # 0 /\ certs[h] <= g /\ certs' = certs
  /\ to = "store" => Begun(g)

\* The part of the invariant about timers, for the worker that moves.
TimerStep(h) ==
  Usable(h)' =>
    /\ pc'[h] = "sleep" => wait'[h] <= 1
    /\ lag'[h] <= 1
    /\ lag'[h] = 1 /\ pc'[h] # "done" =>
         /\ Valid(issued[h]) /\ pc'[h] # "settle"
         /\ pc'[h] = "sleep" => wait'[h] = 0
         /\ pc'[h] = "verify" => got'[h] = issued[h]

\* A step of a worker that keeps both keeps the invariant.
LEMMA WorkMove ==
  ASSUME AutoTLSInv, NEW h \in Domains, NEW to, NEW g, WorkStep(h, to, g), TimerStep(h),
         certs' = certs \/ (certs' = [certs EXCEPT ![h] = got[h]] /\ Begun(got[h])),
         delay' \in [Hosts -> 1 .. MaxDelay], wait' \in [Hosts -> 0 .. MaxDelay],
         lag' \in [Hosts -> Nat],
         \A x \in Hosts \ {h} : wait'[x] = wait[x] /\ lag'[x] = lag[x]
  PROVE  AutoTLSInv'
<1>1. /\ issued \in [Hosts -> 0 .. Len(Periods)] /\ certs \in [Hosts -> 0 .. Len(Periods)]
      /\ got \in [Hosts -> 0 .. Len(Periods)] /\ Len(Periods) \in Nat /\ h \in Hosts
      /\ pc \in [Hosts -> {"refresh", "verify", "store", "settle", "sleep", "done"}]
  BY Types DEF AutoTLSInv, Domains, TypeOK, Hosts
<1>2. /\ UNCHANGED <<cfg, public, issued, cancelled, listener, visitor, now>>
      /\ pc'[h] = to /\ got'[h] = g /\ \A x \in Hosts \ {h} : pc'[x] = pc[x] /\ got'[x] = got[x]
      /\ pc' \in [Hosts -> {"refresh", "verify", "store", "settle", "sleep", "done"}]
      /\ got' \in [Hosts -> 0 .. Len(Periods)] /\ certs' \in [Hosts -> 0 .. Len(Periods)]
      /\ \A x \in Hosts \ {h} : certs'[x] = certs[x]
      /\ certs'[h] = certs[h] \/ (certs'[h] = got[h] /\ Begun(got[h]))
  BY <1>1 DEF WorkStep
<1>3. TypeOK' BY <1>2 DEF AutoTLSInv, TypeOK
<1>4. Certificates'
  <2>1. ASSUME NEW x \in Hosts, x # h
        PROVE  /\ certs'[x] <= issued'[x] /\ got'[x] <= issued'[x]
               /\ certs'[x] # 0 => Begun(certs'[x])
               /\ pc'[x] \in {"verify", "store"} => got'[x] # 0 /\ certs'[x] <= got'[x]
               /\ pc'[x] = "store" => Begun(got'[x])
    BY <1>2, <2>1 DEF AutoTLSInv, Certificates
  <2>2. /\ certs[h] <= issued[h] /\ got[h] <= issued[h] /\ (certs[h] # 0 => Begun(certs[h]))
    BY <1>1 DEF AutoTLSInv, Certificates
  <2>3. /\ certs'[h] <= issued'[h] /\ got'[h] <= issued'[h]
        /\ certs'[h] # 0 => Begun(certs'[h])
        /\ pc'[h] \in {"verify", "store"} => got'[h] # 0 /\ certs'[h] <= got'[h]
        /\ pc'[h] = "store" => Begun(got'[h])
    BY <1>2, <2>2 DEF WorkStep
  <2>4. \A k : Begun(k)' <=> Begun(k) BY <1>2 DEF Begun
  <2> QED BY <2>1, <2>3, <2>4 DEF Certificates, Begun
<1>5. Visitors'
  <2>1. certs["web"] # 0 => certs'["web"] # 0 BY <1>2 DEF Begun, Hosts
  <2> QED BY <1>2, <2>1 DEF AutoTLSInv, Visitors, Domains
<1>6. Renewals'
  <2>1. Domains' = Domains BY <1>2 DEF Domains
  <2>2. \A x \in Hosts \ {h} : Usable(x)' <=> Usable(x) BY <1>2 DEF Usable, Valid
  <2>3. \A k : Valid(k)' <=> Valid(k) BY <1>2 DEF Valid
  <2>4. \A x \in Hosts : Valid(issued[x])' <=> Valid(issued[x]) BY <1>2 DEF Valid
  <2>5. ASSUME NEW x \in Hosts, x # h, Usable(x)'
        PROVE  /\ pc'[x] = "sleep" => wait'[x] <= 1
               /\ lag'[x] <= 1
               /\ lag'[x] = 1 /\ pc'[x] # "done" =>
                    /\ Valid(issued[x])' /\ pc'[x] # "settle"
                    /\ pc'[x] = "sleep" => wait'[x] = 0
                    /\ pc'[x] = "verify" => got'[x] = issued'[x]
    <3>1. /\ pc'[x] = pc[x] /\ got'[x] = got[x] /\ issued'[x] = issued[x]
          /\ wait'[x] = wait[x] /\ lag'[x] = lag[x]
      BY <1>2, <2>5
    <3>2. Usable(x) BY <2>2, <2>5
    <3>3. /\ pc[x] = "sleep" => wait[x] <= 1
          /\ lag[x] <= 1
          /\ lag[x] = 1 /\ pc[x] # "done" =>
               /\ Valid(issued[x]) /\ pc[x] # "settle"
               /\ pc[x] = "sleep" => wait[x] = 0
               /\ pc[x] = "verify" => got[x] = issued[x]
      BY <2>5, <3>2 DEF AutoTLSInv, Renewals
    <3>4. Valid(issued[x])' <=> Valid(issued[x]) BY <2>4, <2>5
    <3> QED BY ONLY <3>1, <3>3, <3>4
  <2>6. ASSUME Usable(h)'
        PROVE  /\ pc'[h] = "sleep" => wait'[h] <= 1
               /\ lag'[h] <= 1
               /\ lag'[h] = 1 /\ pc'[h] # "done" =>
                    /\ Valid(issued[h])' /\ pc'[h] # "settle"
                    /\ pc'[h] = "sleep" => wait'[h] = 0
                    /\ pc'[h] = "verify" => got'[h] = issued'[h]
    BY <1>1, <1>2, <2>4, <2>6 DEF TimerStep
  <2>7. \A x \in Hosts : x \notin Domains' => pc'[x] = "done"
    BY <1>2, <2>1 DEF AutoTLSInv, Renewals
  <2> QED BY <2>5, <2>6, <2>7 DEF Renewals
<1> QED BY <1>3, <1>4, <1>5, <1>6 DEF AutoTLSInv

\* The worker of a host: it asks autocert, verifies, stores, settles and wakes.
LEMMA WorkInv == ASSUME AutoTLSInv, NEW h \in Hosts, Work(h) \/ LookupFails(h) PROVE AutoTLSInv'
<1>1. /\ issued \in [Hosts -> 0 .. Len(Periods)] /\ certs \in [Hosts -> 0 .. Len(Periods)]
      /\ got \in [Hosts -> 0 .. Len(Periods)] /\ Len(Periods) \in Nat
      /\ pc \in [Hosts -> {"refresh", "verify", "store", "settle", "sleep", "done"}]
      /\ delay \in [Hosts -> 1 .. MaxDelay] /\ wait \in [Hosts -> 0 .. MaxDelay]
      /\ lag \in [Hosts -> Nat]
  BY Types DEF AutoTLSInv
<1>2. h \in Domains
  <2>1. pc[h] # "done" BY DEF Work, Lookup, LookupFails, Verify, Store, Settle, Wake
  <2> QED BY <2>1 DEF AutoTLSInv, Renewals
<1>3. /\ certs[h] <= issued[h] /\ got[h] <= issued[h] /\ (certs[h] # 0 => Begun(certs[h]))
      /\ pc[h] \in {"verify", "store"} => got[h] # 0 /\ certs[h] <= got[h]
      /\ pc[h] = "store" => Begun(got[h])
  BY DEF AutoTLSInv, Certificates
<1>4. Usable(h) =>
        /\ pc[h] = "sleep" => wait[h] <= 1
        /\ lag[h] <= 1
        /\ lag[h] = 1 /\ pc[h] # "done" =>
             /\ Valid(issued[h]) /\ pc[h] # "settle"
             /\ pc[h] = "sleep" => wait[h] = 0
             /\ pc[h] = "verify" => got[h] = issued[h]
  BY DEF AutoTLSInv, Renewals
<1>5. ASSUME UNCHANGED <<certs, now>> PROVE Usable(h)' <=> Usable(h) BY <1>5 DEF Usable, Valid
<1>6. ASSUME NEW to, NEW g, WorkStep(h, to, g), TimerStep(h), UNCHANGED <<certs, delay, wait, lag>>
      PROVE  AutoTLSInv'
  BY <1>1, <1>2, <1>6, WorkMove
<1>7. CASE Lookup(h)
  <2>1. /\ pc[h] = "refresh" /\ issued[h] # 0 /\ got' = [got EXCEPT ![h] = issued[h]]
        /\ pc' = [pc EXCEPT ![h] = "verify"]
        /\ UNCHANGED <<cfg, public, issued, certs, delay, wait, lag, cancelled, listener, visitor, now>>
    BY <1>7 DEF Lookup
  <2>2. WorkStep(h, "verify", issued[h]) BY <1>1, <1>3, <2>1 DEF WorkStep
  <2>3. pc'[h] = "verify" /\ got'[h] = issued[h] BY <1>1, <2>1
  <2>4. TimerStep(h) BY <1>4, <1>5, <2>1, <2>3 DEF TimerStep
  <2> QED BY <1>6, <2>1, <2>2, <2>4
<1>8. CASE LookupFails(h)
  <2>1. /\ pc[h] = "refresh" /\ ~Valid(issued[h]) /\ pc' = [pc EXCEPT ![h] = "settle"]
        /\ UNCHANGED <<cfg, public, issued, certs, got, delay, wait, lag, cancelled, listener,
                       visitor, now>>
    BY <1>8 DEF LookupFails
  <2>2. got' = [got EXCEPT ![h] = got[h]] BY <1>1, <2>1
  <2>3. WorkStep(h, "settle", got[h]) BY <1>1, <1>3, <2>1, <2>2 DEF WorkStep
  <2>4. pc'[h] = "settle" BY <1>1, <2>1
  <2>5. TimerStep(h) BY <1>4, <1>5, <2>1, <2>4 DEF TimerStep
  <2> QED BY <1>6, <2>1, <2>3, <2>5
<1>9. CASE Verify(h) /\ Valid(got[h])
  <2>1. /\ pc[h] = "verify" /\ pc' = [pc EXCEPT ![h] = "store"]
        /\ UNCHANGED <<cfg, public, issued, certs, got, delay, wait, lag, cancelled, listener,
                       visitor, now>>
    BY <1>9 DEF Verify
  <2>2. got' = [got EXCEPT ![h] = got[h]] BY <1>1, <2>1
  <2>3. Begun(got[h]) BY <1>9 DEF Valid, Begun
  <2>4. WorkStep(h, "store", got[h]) BY <1>1, <1>3, <2>1, <2>2, <2>3 DEF WorkStep
  <2>5. pc'[h] = "store" BY <1>1, <2>1
  <2>6. TimerStep(h) BY <1>4, <1>5, <2>1, <2>5 DEF TimerStep
  <2> QED BY <1>6, <2>1, <2>4, <2>6
<1>10. CASE Verify(h) /\ ~Valid(got[h])
  <2>1. /\ pc[h] = "verify" /\ pc' = [pc EXCEPT ![h] = "settle"] /\ got' = [got EXCEPT ![h] = 0]
        /\ UNCHANGED <<cfg, public, issued, certs, delay, wait, lag, cancelled, listener,
                       visitor, now>>
    BY <1>10 DEF Verify
  <2>2. WorkStep(h, "settle", 0) BY <1>1, <2>1 DEF WorkStep
  <2>3. pc'[h] = "settle" BY <1>1, <2>1
  <2>4. TimerStep(h) BY <1>4, <1>5, <1>10, <2>1, <2>3 DEF TimerStep
  <2> QED BY <1>6, <2>1, <2>2, <2>4
<1>11. CASE Store(h)
  <2>1. /\ pc[h] = "store" /\ pc' = [pc EXCEPT ![h] = "settle"] /\ got' = [got EXCEPT ![h] = 0]
        /\ certs' = [certs EXCEPT ![h] = got[h]] /\ lag' = [lag EXCEPT ![h] = 0]
        /\ UNCHANGED <<cfg, public, issued, delay, wait, cancelled, listener, visitor, now>>
    BY <1>11 DEF Store
  <2>2. WorkStep(h, "settle", 0) BY <1>1, <2>1 DEF WorkStep
  <2>3. pc'[h] = "settle" /\ lag'[h] = 0 /\ lag' \in [Hosts -> Nat]
        /\ \A x \in Hosts \ {h} : lag'[x] = lag[x]
    BY <1>1, <2>1
  <2>4. TimerStep(h) BY <2>3 DEF TimerStep
  <2>5. Begun(got[h]) BY <1>3, <2>1
  <2> QED BY <1>1, <1>2, <2>1, <2>2, <2>3, <2>4, <2>5, WorkMove
<1>12. CASE Settle(h) /\ cancelled
  <2>1. /\ pc[h] = "settle" /\ pc' = [pc EXCEPT ![h] = "done"]
        /\ UNCHANGED <<cfg, public, issued, certs, got, delay, wait, lag, cancelled, listener,
                       visitor, now>>
    BY <1>12 DEF Settle
  <2>2. got' = [got EXCEPT ![h] = got[h]] BY <1>1, <2>1
  <2>3. WorkStep(h, "done", got[h]) BY <1>1, <1>3, <2>1, <2>2 DEF WorkStep
  <2>4. pc'[h] = "done" BY <1>1, <2>1
  <2>5. TimerStep(h) BY <1>4, <1>5, <2>1, <2>4 DEF TimerStep
  <2> QED BY <1>6, <2>1, <2>3, <2>5
<1>13. CASE Settle(h) /\ ~cancelled
  <2>1. /\ pc[h] = "settle" /\ pc' = [pc EXCEPT ![h] = "sleep"]
        /\ delay' = [delay EXCEPT ![h] = IF Usable(h) THEN 1 ELSE Backoff(delay[h])]
        /\ wait' = [wait EXCEPT ![h] = delay'[h]]
        /\ UNCHANGED <<cfg, public, issued, certs, got, lag, cancelled, listener, visitor, now>>
    BY <1>13 DEF Settle
  <2>2. got' = [got EXCEPT ![h] = got[h]] BY <1>1, <2>1
  <2>3. WorkStep(h, "sleep", got[h]) BY <1>1, <1>3, <2>1, <2>2 DEF WorkStep
  <2>4. delay[h] \in 1 .. MaxDelay /\ Backoff(delay[h]) \in 1 .. MaxDelay BY <1>1 DEF Backoff
  <2>5. /\ delay' \in [Hosts -> 1 .. MaxDelay] /\ (Usable(h) => delay'[h] = 1)
    BY <1>1, <2>1, <2>4
  <2>6. /\ wait' \in [Hosts -> 0 .. MaxDelay] /\ wait'[h] = delay'[h]
        /\ \A x \in Hosts \ {h} : wait'[x] = wait[x]
    BY <1>1, <2>1, <2>5
  <2>7. pc'[h] = "sleep" BY <1>1, <2>1
  <2>8. TimerStep(h) BY <1>1, <1>4, <1>5, <2>1, <2>5, <2>6, <2>7 DEF TimerStep
  <2> QED BY <1>1, <1>2, <2>1, <2>3, <2>5, <2>6, <2>8, WorkMove
<1>14. CASE Wake(h)
  <2>1. /\ pc[h] = "sleep" /\ pc' = [pc EXCEPT ![h] = IF cancelled THEN "done" ELSE "refresh"]
        /\ wait' = [wait EXCEPT ![h] = 0]
        /\ UNCHANGED <<cfg, public, issued, certs, got, delay, lag, cancelled, listener,
                       visitor, now>>
    BY <1>14 DEF Wake
  <2>2. got' = [got EXCEPT ![h] = got[h]] BY <1>1, <2>1
  <2>3. PICK to \in {"done", "refresh"} : pc' = [pc EXCEPT ![h] = to] BY <2>1
  <2>4. WorkStep(h, to, got[h]) BY <1>1, <1>3, <2>1, <2>2, <2>3 DEF WorkStep
  <2>5. pc'[h] = to BY <1>1, <2>3
  <2>6. wait' \in [Hosts -> 0 .. MaxDelay] /\ \A x \in Hosts \ {h} : wait'[x] = wait[x]
    BY <1>1, <2>1
  <2>7. TimerStep(h) BY <1>4, <1>5, <2>1, <2>3, <2>5 DEF TimerStep
  <2> QED BY <1>1, <1>2, <2>1, <2>4, <2>6, <2>7, WorkMove
<1> QED BY <1>7, <1>8, <1>9, <1>10, <1>11, <1>12, <1>13, <1>14 DEF Work

\* The service starts without certificates.
LEMMA InitAutoTLS == ASSUME Init PROVE AutoTLSInv
<1>1. TypeOK
  <2>1. cancelled \in BOOLEAN BY Zenon DEF Init
  <2>2. cfg \in [web : BOOLEAN, smtp : BOOLEAN, mailDomain : Hosts] BY DEF Init
  <2>3. Domains \subseteq Hosts BY <2>2 DEF Domains, Hosts
  <2>4. Len(Periods) \in Nat OBVIOUS
  <2> QED BY <2>1, <2>2, <2>3, <2>4 DEF Init, TypeOK
<1>2. Certificates /\ Visitors /\ Renewals
  BY DEF Init, Certificates, Visitors, Renewals, Usable, Valid
<1> QED BY <1>1, <1>2 DEF AutoTLSInv

\* Every step of a worker, the CA, a visitor, SMTP and time keeps the
\* invariant.
LEMMA NextAutoTLS == ASSUME AutoTLSInv, [Next]_vars PROVE AutoTLSInv'
<1>1. CASE UNCHANGED vars
  <2>1. Certificates' /\ Renewals' BY <1>1, WorkersRest DEF vars, worker
  <2>2. TypeOK' /\ Visitors' BY <1>1 DEF vars, AutoTLSInv, TypeOK, Visitors, Domains
  <2> QED BY <2>1, <2>2 DEF AutoTLSInv
<1> QED BY <1>1, WorkInv, IssueInv, BrowseInv, TickInv, MinuteInv DEF Next

\* The inductive invariant: the order of certificates, and the timers.
THEOREM AutoTLSInvariance == Spec => []AutoTLSInv
<1>1. Init => AutoTLSInv BY InitAutoTLS
<1>2. AutoTLSInv /\ [Next]_vars => AutoTLSInv' BY NextAutoTLS
<1> QED BY <1>1, <1>2, PTL DEF Spec

\* The workers' state stays in its type; the backoff stays within its cap.
THEOREM AutoTLSTyping == Spec => []TypeOK
<1>1. AutoTLSInv => TypeOK BY DEF AutoTLSInv
<1> QED BY <1>1, AutoTLSInvariance, PTL

\* A renewal that is valid is adopted within a minute while the certificate in
\* use is valid, for any number of renewals and any delay of the other host
\* (autotls.go: run).
THEOREM TimelyRenewal == Spec => []RenewedInTime
<1>1. ASSUME AutoTLSInv PROVE RenewedInTime
  <2>1. Domains \subseteq Hosts BY <1>1 DEF AutoTLSInv, TypeOK, Domains, Hosts
  <2> QED BY <1>1, <2>1 DEF AutoTLSInv, Renewals, RenewedInTime
<1> QED BY <1>1, AutoTLSInvariance, PTL

\* No step of a worker makes a usable certificate unusable: what it activates
\* outlives what it replaces, though time has passed since it was verified
\* (autotls.go: activate).
THEOREM Retention == Spec => NeverWithdrawn
<1>1. ASSUME AutoTLSInv, [Next]_vars, NEW h \in Hosts, Usable(h), now' = now PROVE Usable(h)'
  <2>1. CASE certs' = certs BY <1>1, <2>1 DEF Usable, Valid
  <2>2. ASSUME NEW x \in Hosts, Store(x) PROVE Usable(h)'
    <3>1. certs' = [certs EXCEPT ![x] = got[x]] /\ pc[x] = "store" BY <2>2 DEF Store
    <3>2. /\ certs \in [Hosts -> 0 .. Len(Periods)] /\ got \in [Hosts -> 0 .. Len(Periods)]
          /\ now \in Nat
      BY <1>1, Types DEF AutoTLSInv
    <3>3. CASE x # h BY <1>1, <3>1, <3>2, <3>3 DEF Usable, Valid
    <3>4. CASE x = h
      <4>1. Begun(got[h]) /\ certs[h] <= got[h] /\ Valid(certs[h])
        BY <1>1, <3>1, <3>4 DEF AutoTLSInv, Certificates, Usable
      <4>2. Valid(got[h]) BY <3>2, <4>1, Outlives
      <4> QED BY <1>1, <3>1, <3>2, <3>4, <4>2 DEF Usable, Valid
    <3> QED BY <3>3, <3>4
  <2>3. CASE UNCHANGED vars BY <2>1, <2>3 DEF vars
  <2> QED BY <1>1, <2>1, <2>2, <2>3
         DEF Next, Work, Lookup, LookupFails, Verify, Settle, Wake, Issue, Browse, Visit,
             Connect, Request, Return, StartSMTP, GiveUpSMTP, Cancel, Tick, Minute
<1>2. AutoTLSInv /\ [Next]_vars => [\A h \in Hosts : Usable(h) /\ now' = now => Usable(h)']_vars
  BY <1>1
<1> QED BY <1>2, AutoTLSInvariance, PTL DEF Spec, NeverWithdrawn

\* A visitor sent to HTTPS is turned away only by a certificate that has
\* expired since (autotls.go: webTLSHTTPFallback).
THEOREM Redirects == Spec => RedirectJustified
<1>1. ASSUME AutoTLSInv, [Next]_vars, visitor' # visitor, visitor' \in {"refused", "unavailable"}
      PROVE  certs["web"] # 0 /\ now >= Periods[certs["web"]].until
  <2>1. Connect \/ Request
    BY <1>1
       DEF Next, Work, Lookup, LookupFails, Verify, Store, Settle, Wake, Issue, Browse, Visit,
           Connect, Request, Return, StartSMTP, GiveUpSMTP, Cancel, Tick, Minute, vars
  <2>2. visitor \in {"redirected", "connected"} BY <2>1 DEF Connect, Request
  <2>3. "web" \in Domains /\ certs["web"] # 0 BY <1>1, <2>2 DEF AutoTLSInv, Visitors
  <2>4. ~WebReady
    <3>1. CASE Connect BY <1>1, <2>3, <3>1 DEF Connect, HTTPSAnswer
    <3>2. CASE Request BY <1>1, <3>2 DEF Request
    <3> QED BY <2>1, <3>1, <3>2
  <2>5. Begun(certs["web"]) /\ certs["web"] \in 1 .. Len(Periods) /\ now \in Nat
    BY <1>1, <2>3, Types, SMTT(60) DEF AutoTLSInv, Certificates, Hosts
  <2>6. Periods[certs["web"]].until \in Nat BY <2>5, PeriodTypes
  <2> QED BY <2>3, <2>4, <2>5, <2>6 DEF WebReady, Usable, Valid, Begun
<1>2. AutoTLSInv /\ [Next]_vars =>
        [visitor' # visitor /\ visitor' \in {"refused", "unavailable"} =>
           certs["web"] # 0 /\ now >= Periods[certs["web"]].until]_vars
  BY <1>1
<1> QED BY <1>2, AutoTLSInvariance, PTL DEF Spec, RedirectJustified
=============================================================================
