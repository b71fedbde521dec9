---------------------------- MODULE ServiceProofs ----------------------------
(* Theorems about Service, for any configured servers, any finite set of     *)
(* requests and clients, and any limits.                                     *)
EXTENDS Service, Counting

USE ServiceAssumption

Early == {"bindHTTP", "bindHTTPS", "select"}
Late == {"smtp", "analytics", "store"}

\* The servers main has shut down.
Down(s) == main \in Late \/ (main = "shutdown" /\ \E i \in 1 .. at - 1 : Order[i] = s)

\* Where main stands tells what is shut down and what is still open.
Progress ==
  /\ main \in Early => closed = {} /\ at = 1
  /\ main = "bindHTTPS" => "https" \in Servers
  /\ main \notin Early => sig
  /\ main = "shutdown" => at \in 1 .. Len(Order)
  /\ \A s \in Servers : Down(s) => s \in closed
  /\ main \in {"analytics", "store"} => "smtp" \in closed
  /\ open = IF exit = "ok" THEN {}
            ELSE IF main = "store" THEN {"store"} ELSE {"analytics", "store"}
  /\ exit = "ok" => main = "store"

\* An error in errCh has a server that failed; nil comes only from a server
\* that main has shut down.
ErrorsTrue ==
  /\ (exit = "fatal" \/ \E i \in 1 .. Len(errCh) : errCh[i]) => failed # {}
  /\ main \in Early => \A i \in 1 .. Len(errCh) : errCh[i]

\* While the ten seconds last, a server that is shut down has no request left.
Drained ==
  ~expired => \A r \in Requests : req[r] # "dropped" /\ (Down(Server[r]) => ~InFlight(r))

\* Only requests to the application meet the limits, and each passes once.
Handling == {r \in Requests : ToApp(r) /\ req[r] = "handling"}
PassedFor(c) == {r \in passed : resolvedClientIP(r) = c}
Limited ==
  /\ \A r \in Requests : req[r] \in {"arrived", "admitted"} => ToApp(r)
  /\ \A r \in passed : req[r] \notin {"new", "arrived"}
  /\ MaxHTTPRequests > 0 => requests = Cardinality(Handling)
  /\ \A c \in IPs : Cardinality(PassedFor(c)) + tokens[c] = Burst + refills[c]

\* The inductive invariant.
ServiceInv == TypeOK /\ Progress /\ ErrorsTrue /\ Drained /\ Limited

-----------------------------------------------------------------------------
\* main shuts down every configured server, and no other.
LEMMA OrderServers ==
  /\ Order \in Seq(Servers) /\ Len(Order) \in Nat /\ Len(Order) >= 1
  /\ \A i \in 1 .. Len(Order) : Order[i] \in Servers
  /\ \A s \in Servers : \E i \in 1 .. Len(Order) : Order[i] = s
<1>1. Order \in Seq(Servers) BY DEF Order, IfConfigured
<1>2. \A s \in Servers : \E i \in 1 .. Len(Order) : Order[i] = s BY DEF Order, IfConfigured
<1>3. Len(Order) >= 1 BY <1>1, <1>2
<1> QED BY <1>1, <1>2, <1>3

\* Traffic does not move with the process.
LEMMA TrafficRests == ASSUME Limited, UNCHANGED traffic PROVE Limited'
BY DEF Limited, traffic, Handling, PassedFor, ToApp

\* main binds its listeners, waits and shuts the servers down; requests and
\* goroutines rest.
LEMMA MainInv ==
  ASSUME ServiceInv, Main \/ BindFails \/ Signal \/ Expire
  PROVE  ServiceInv'
<1> USE DEF ServiceInv, Early, Late
<1>1. Limited'
  BY TrafficRests DEF Main, BindHTTP, BindHTTPS, BindFails, SelectDone, SelectErr, Signal,
     BeginShutdown, EndShutdown, Expire, CloseSMTP, CloseAnalytics, CloseStore
<1>2. UNCHANGED <<go, errCh, req, requests, tokens, refills, passed>>
  BY DEF Main, BindHTTP, BindHTTPS, BindFails, SelectDone, SelectErr, Signal,
     BeginShutdown, EndShutdown, Expire, CloseSMTP, CloseAnalytics, CloseStore, traffic, servers
<1>3. CASE BindHTTP \/ BindHTTPS
  <2>1. main \in {"bindHTTP", "bindHTTPS"} /\ main' \in {"bindHTTPS", "select"}
        /\ (main' = "bindHTTPS" => "https" \in Servers)
        /\ UNCHANGED <<at, exit, sig, closed, expired, open, failed>>
    BY <1>3 DEF BindHTTP, BindHTTPS, servers
  <2> QED BY <1>1, <1>2, <2>1 DEF TypeOK, Progress, ErrorsTrue, Drained, Down, InFlight
<1>4. CASE BindFails
  <2>1. main \in {"bindHTTP", "bindHTTPS"} /\ failed' # {} /\ exit' = "fatal"
        /\ UNCHANGED <<main, at, sig, closed, expired, open>> /\ exit = "none"
    BY <1>4 DEF BindFails, Exit, Running
  <2>2. failed' \subseteq Goroutines BY <1>4 DEF BindFails, TypeOK, Goroutines, Progress
  <2> QED BY <1>1, <1>2, <2>1, <2>2 DEF TypeOK, Progress, ErrorsTrue, Drained, Down, InFlight
<1>5. CASE SelectDone
  BY <1>1, <1>2, <1>5, OrderServers
     DEF SelectDone, Running, servers, TypeOK, Progress, ErrorsTrue, Drained, Down, InFlight
<1>6. CASE SelectErr
  <2>1. /\ main = "select" /\ exit = "none" /\ failed' = failed
        /\ Head(errCh) = errCh[1] /\ 1 \in 1 .. Len(errCh)
    <3>1. errCh \in Seq(BOOLEAN) /\ errCh # <<>> BY <1>6 DEF SelectErr, TypeOK
    <3>2. Head(errCh) = errCh[1] /\ 1 \in 1 .. Len(errCh) BY <3>1
    <3> QED BY <1>6, <3>2 DEF SelectErr, Running, servers
  <2>2. errCh[1] /\ failed # {} BY <2>1 DEF ErrorsTrue
  <2>3. exit' = "fatal" /\ UNCHANGED <<main, at, sig, closed, expired, open>>
    BY <1>6, <2>1, <2>2 DEF SelectErr, Exit
  <2> QED BY <1>1, <1>2, <2>1, <2>2, <2>3 DEF TypeOK, Progress, ErrorsTrue, Drained, Down, InFlight
<1>7. CASE Signal
  <2>1. exit = "none" /\ UNCHANGED <<main, at, closed, expired, open, failed>>
        /\ \/ main \in Early /\ sig' = TRUE /\ exit' = exit
           \/ main \notin Early /\ sig' = sig /\ exit' = "killed"
    BY <1>7 DEF Signal, Exit, Running, servers
  <2> QED BY <1>1, <1>2, <2>1 DEF TypeOK, Progress, ErrorsTrue, Drained, Down, InFlight
<1>8. CASE BeginShutdown
  <2>1. main = "shutdown" /\ closed' = closed \cup {Order[at]}
        /\ UNCHANGED <<main, at, exit, sig, expired, open, failed>>
    BY <1>8 DEF BeginShutdown, servers
  <2>2. Order[at] \in Servers BY <2>1, OrderServers DEF Progress
  <2> QED BY <1>1, <1>2, <2>1, <2>2, ZenonT(60) DEF TypeOK, Progress, ErrorsTrue, Drained, Down, InFlight, Goroutines
<1>9. CASE EndShutdown
  <2>1. /\ main = "shutdown" /\ Order[at] \in closed /\ (expired \/ ~Busy(Order[at])) /\ exit = "none"
        /\ at' = at + 1 /\ main' = (IF at = Len(Order) THEN "smtp" ELSE "shutdown")
        /\ UNCHANGED <<exit, sig, closed, expired, open, failed>>
    BY <1>9 DEF EndShutdown, NextServer, servers, Running
  <2>2. at \in 1 .. Len(Order) BY <2>1 DEF Progress
  <2>3. \A s \in Servers : Down(s)' => Down(s) \/ s = Order[at]
    <3>1. \A i \in 1 .. Len(Order) : i \in 1 .. at - 1 \/ i = at \/ (at # Len(Order) /\ i > at)
      BY <2>2, OrderServers
    <3>2. at' - 1 = at BY <2>1, <2>2
    <3> QED BY <2>1, <2>2, <3>1, <3>2, OrderServers DEF Down
  <2>4. Progress'
    <3>1. main' \in {"smtp", "shutdown"} /\ (main' = "shutdown" => at' \in 1 .. Len(Order))
      BY <2>1, <2>2, OrderServers
    <3>2. \A s \in Servers : Down(s)' => s \in closed' BY <2>1, <2>3 DEF Progress
    <3> QED BY <2>1, <3>1, <3>2 DEF Progress
  <2>5. Drained'
    <3>1. ASSUME ~expired, NEW r \in Requests, Down(Server[r])' PROVE ~InFlight(r)
      <4>1. ~Busy(Order[at]) BY <2>1, <3>1
      <4> QED BY <2>3, <3>1, <4>1 DEF Busy, Drained
    <3> QED BY <1>2, <2>1, <3>1 DEF Drained, InFlight
  <2>6. TypeOK' BY <1>2, <2>1, <2>2, OrderServers DEF TypeOK
  <2>7. ErrorsTrue' BY <1>2, <2>1 DEF ErrorsTrue
  <2> QED BY <1>1, <2>4, <2>5, <2>6, <2>7
<1>10. CASE Expire
  BY <1>1, <1>2, <1>10
     DEF Expire, servers, TypeOK, Progress, ErrorsTrue, Drained, Down, InFlight
<1>11. CASE CloseSMTP
  BY <1>1, <1>2, <1>11
     DEF CloseSMTP, Running, servers, TypeOK, Progress, ErrorsTrue, Drained, Down, InFlight, Goroutines
<1>12. CASE CloseAnalytics
  BY <1>1, <1>2, <1>12
     DEF CloseAnalytics, Running, servers, TypeOK, Progress, ErrorsTrue, Drained, Down, InFlight
<1>13. CASE CloseStore
  BY <1>1, <1>2, <1>13
     DEF CloseStore, Running, servers, TypeOK, Progress, ErrorsTrue, Drained, Down, InFlight
<1> QED BY <1>3, <1>4, <1>5, <1>6, <1>7, <1>8, <1>9, <1>10, <1>11, <1>12, <1>13 DEF Main

\* The goroutine of a server listens, fails or returns what main asked for.
LEMMA ServerInv ==
  ASSUME ServiceInv,
         \/ SmtpReady \/ SmtpGivesUp
         \/ \E s \in Goroutines : Listen(s) \/ ServeFails(s) \/ Returns(s)
  PROVE  ServiceInv'
<1> USE DEF ServiceInv, Early
<1>1. UNCHANGED <<process, traffic>>
  BY DEF SmtpReady, SmtpGivesUp, Listen, ServeFails, Returns
<1>2. Limited' BY <1>1, TrafficRests
<1>3. Progress' /\ Drained'
  BY <1>1 DEF process, traffic, Progress, Drained, Down, InFlight, Late
<1>4. /\ go' \in [Goroutines -> {"waiting", "off", "serving", "returned"}]
      /\ failed' \subseteq Goroutines /\ failed \subseteq failed'
  <2>1. go \in [Goroutines -> {"waiting", "off", "serving", "returned"}]
        /\ failed \subseteq Goroutines
    BY DEF TypeOK
  <2>2. CASE SmtpReady \/ SmtpGivesUp BY <2>1, <2>2 DEF SmtpReady, SmtpGivesUp
  <2>3. ASSUME NEW s \in Goroutines, Listen(s) \/ ServeFails(s) \/ Returns(s)
        PROVE  /\ go' \in [Goroutines -> {"waiting", "off", "serving", "returned"}]
               /\ failed' \subseteq Goroutines /\ failed \subseteq failed'
    BY <2>1, <2>3 DEF Listen, ServeFails, Returns
  <2> QED BY <2>2, <2>3
<1>5. \/ errCh' = errCh
      \/ errCh' = Append(errCh, TRUE) /\ failed' # {}
      \/ errCh' = Append(errCh, FALSE) /\ closed # {} 
  BY DEF SmtpReady, SmtpGivesUp, Listen, ServeFails, Returns, Send
<1>6. errCh' \in Seq(BOOLEAN)
  <2>1. errCh \in Seq(BOOLEAN) BY DEF TypeOK
  <2>2. \A b \in BOOLEAN : Append(errCh, b) \in Seq(BOOLEAN) BY <2>1
  <2> QED BY <1>5, <2>1, <2>2
<1>7. TypeOK' BY <1>1, <1>4, <1>6 DEF TypeOK, process, traffic
<1>8. ErrorsTrue'
  <2>1. errCh \in Seq(BOOLEAN) /\ exit' = exit /\ main' = main BY <1>1 DEF TypeOK, process
  <2>2. CASE errCh' = errCh BY <1>4, <2>1, <2>2 DEF ErrorsTrue
  <2>3. CASE errCh' = Append(errCh, TRUE) /\ failed' # {} BY <2>1, <2>3 DEF ErrorsTrue
  <2>4. CASE errCh' = Append(errCh, FALSE) /\ closed # {}
    <3>1. main \notin Early BY <2>4 DEF Progress
    <3>2. \A i \in 1 .. Len(errCh') : errCh'[i] => i \in 1 .. Len(errCh) /\ errCh[i]
      BY <2>1, <2>4
    <3> QED BY <1>4, <2>1, <3>1, <3>2 DEF ErrorsTrue
  <2> QED BY <1>5, <2>2, <2>3, <2>4
<1> QED BY <1>2, <1>3, <1>7, <1>8

\* A step of one request: the process rests.
LEMMA RequestRests ==
  ASSUME ServiceInv, UNCHANGED <<process, servers>>
  PROVE  Progress' /\ ErrorsTrue'
BY DEF ServiceInv, process, servers, Progress, ErrorsTrue, Down

\* A request moves from one place to another, if it does not enter a server
\* that is shut down, or go unrecorded, while the ten seconds last.
RequestStep(r, to) ==
  /\ req' = [req EXCEPT ![r] = to] /\ UNCHANGED <<process, servers>>
  /\ to \in {"arrived", "admitted", "handling", "answered", "done", "dropped"}
  /\ to \in {"arrived", "admitted", "handling", "answered"} => InFlight(r) \/ Server[r] \notin closed
  /\ to = "dropped" => InFlight(r) /\ open # {"analytics", "store"}

\* Such a step keeps what shutdown promises.
LEMMA DrainedMove ==
  ASSUME ServiceInv, NEW r \in Requests, NEW to, RequestStep(r, to)
  PROVE  Drained'
<1>1. req \in [Requests -> {"new", "arrived", "admitted", "handling", "answered", "done", "dropped"}]
  BY DEF ServiceInv, TypeOK
<1>2. /\ req'[r] = to /\ \A q \in Requests \ {r} : req'[q] = req[q]
      /\ UNCHANGED <<main, at, exit, closed, expired, open>>
  BY <1>1 DEF RequestStep, process
<1>3. \A s \in Servers : Down(s)' <=> Down(s) BY <1>2 DEF Down
<1>4. Server[r] \in Servers OBVIOUS
<1>5. open # {"analytics", "store"} => Down(Server[r])
  BY <1>4 DEF ServiceInv, Progress, Down, Late
<1>6. ASSUME ~expired PROVE to # "dropped" /\ (Down(Server[r]) => ~InFlight(r)')
  <2>1. Down(Server[r]) => ~InFlight(r) /\ Server[r] \in closed
    BY <1>4, <1>6 DEF ServiceInv, Drained, Progress
  <2> QED BY <1>2, <1>5, <2>1 DEF RequestStep, InFlight
<1> QED BY <1>2, <1>3, <1>6 DEF ServiceInv, Drained, InFlight

\* Requests arrive, pass the limits or are refused, are handled and recorded.
LEMMA RequestInv ==
  ASSUME ServiceInv, NEW r \in Requests,
         \/ Arrive(r) \/ PassRate(r) \/ OverRate(r) \/ TakeSlot(r) \/ Overloaded(r)
         \/ Finish(r) \/ Panic(r) \/ RecordEvent(r)
  PROVE  ServiceInv'
<1>1. /\ UNCHANGED <<process, servers>> /\ Progress' /\ ErrorsTrue'
  BY RequestRests
     DEF Arrive, PassRate, OverRate, TakeSlot, Overloaded, Finish, Panic, RecordEvent
<1>2. /\ req \in [Requests -> {"new", "arrived", "admitted", "handling", "answered", "done", "dropped"}]
      /\ requests \in 0..MaxHTTPRequests /\ passed \subseteq Requests
      /\ tokens \in [IPs -> 0..Burst] /\ refills \in [IPs -> 0..MaxRefills]
      /\ Limited
  BY DEF ServiceInv, TypeOK
<1>3. \E to : RequestStep(r, to)
  BY <1>1
     DEF Arrive, PassRate, OverRate, TakeSlot, Overloaded, Finish, Panic, RecordEvent,
         Step, RequestStep, InFlight
<1>4. PICK to : RequestStep(r, to) BY <1>3
<1>5. Drained' BY <1>4, DrainedMove
<1>6. /\ req' \in [Requests -> {"new", "arrived", "admitted", "handling", "answered", "done", "dropped"}]
      /\ req'[r] = to /\ \A q \in Requests \ {r} : req'[q] = req[q]
      /\ to \in {"arrived", "admitted", "handling", "answered", "done", "dropped"}
  BY <1>2, <1>4 DEF RequestStep
<1>7. ASSUME requests' \in 0..MaxHTTPRequests, passed' \subseteq Requests,
             tokens' \in [IPs -> 0..Burst], refills' \in [IPs -> 0..MaxRefills]
      PROVE  TypeOK'
  BY <1>1, <1>6, <1>7 DEF ServiceInv, TypeOK, process, servers
<1>8. Cardinality(Handling) \in Nat /\ (r \in Handling => Cardinality(Handling) >= 1)
  <2>1. IsFiniteSet(Handling) BY FS_Subset DEF Handling
  <2> QED BY <2>1, FS_CardinalityType, Member
<1>9. /\ r \in Handling /\ to # "handling" => Cardinality(Handling') = Cardinality(Handling) - 1
      /\ r \notin Handling /\ ToApp(r) /\ to = "handling" =>
            Cardinality(Handling') = Cardinality(Handling) + 1
      /\ (r \in Handling <=> ToApp(r) /\ to = "handling") =>
            Cardinality(Handling') = Cardinality(Handling)
  <2>1. IsFiniteSet(Handling) BY FS_Subset DEF Handling
  <2>2. Handling \ {r} = Handling' \ {r} BY <1>6 DEF Handling, ToApp
  <2>3. r \in Handling' <=> ToApp(r) /\ to = "handling" BY <1>6 DEF Handling, ToApp
  <2> QED BY <2>1, <2>2, <2>3, Recount
<1>10. ASSUME UNCHANGED <<tokens, refills, passed>>, requests' \in 0..MaxHTTPRequests,
              to \in {"arrived", "admitted"} => ToApp(r),
              to = "arrived" => r \notin passed,
              MaxHTTPRequests > 0 => requests' = Cardinality(Handling')
       PROVE  ServiceInv'
  <2>1. Limited' BY <1>2, <1>6, <1>10 DEF Limited, PassedFor, ToApp
  <2> QED BY <1>1, <1>2, <1>5, <1>7, <1>10, <2>1 DEF ServiceInv
<1>11. CASE Arrive(r) \/ OverRate(r) \/ Overloaded(r) \/ RecordEvent(r)
  <2>1. /\ UNCHANGED <<requests, tokens, refills, passed>>
        /\ req[r] \in {"new", "arrived", "admitted", "answered"}
        /\ to = "arrived" => req[r] = "new" /\ ToApp(r)
        /\ to # "admitted" /\ (to = "handling" => ~ToApp(r))
    BY <1>6, <1>11 DEF Arrive, OverRate, Overloaded, RecordEvent, Step
  <2>2. to = "arrived" => r \notin passed BY <1>2, <2>1 DEF Limited
  <2>3. Cardinality(Handling') = Cardinality(Handling) BY <1>9, <2>1 DEF Handling
  <2> QED BY <1>2, <1>10, <2>1, <2>2, <2>3 DEF Limited
<1>12. CASE TakeSlot(r)
  <2>1. /\ UNCHANGED <<tokens, refills, passed>> /\ req[r] = "admitted" /\ to = "handling"
        /\ MaxHTTPRequests > 0 => requests < MaxHTTPRequests
        /\ requests' = IF MaxHTTPRequests > 0 THEN requests + 1 ELSE requests
    BY <1>6, <1>12 DEF TakeSlot, Step
  <2>2. ToApp(r) BY <1>2, <2>1 DEF Limited
  <2>3. Cardinality(Handling') = Cardinality(Handling) + 1 BY <1>9, <2>1, <2>2 DEF Handling
  <2>4. requests' \in 0..MaxHTTPRequests BY <1>2, <2>1
  <2>5. MaxHTTPRequests > 0 => requests' = Cardinality(Handling') BY <1>2, <2>1, <2>3 DEF Limited
  <2> QED BY <1>10, <2>1, <2>4, <2>5
<1>13. CASE Finish(r) \/ Panic(r)
  <2>1. /\ UNCHANGED <<tokens, refills, passed>> /\ req[r] = "handling"
        /\ to \in {"answered", "done"}
        /\ requests' = IF ToApp(r) /\ MaxHTTPRequests > 0 THEN requests - 1 ELSE requests
    BY <1>6, <1>13 DEF Finish, Panic, Step, GiveSlotBack
  <2>2. r \in Handling <=> ToApp(r) BY <2>1 DEF Handling
  <2>3. Cardinality(Handling') = IF ToApp(r) THEN Cardinality(Handling) - 1 ELSE Cardinality(Handling)
    BY <1>9, <2>1, <2>2
  <2>4. MaxHTTPRequests > 0 => requests = Cardinality(Handling) BY <1>2 DEF Limited
  <2>5. requests' \in 0..MaxHTTPRequests BY <1>2, <1>8, <2>1, <2>2, <2>4
  <2>6. MaxHTTPRequests > 0 => requests' = Cardinality(Handling') BY <2>1, <2>3, <2>4
  <2> QED BY <1>10, <2>1, <2>5, <2>6
<1>14. CASE PassRate(r)
  <2> DEFINE d == resolvedClientIP(r)
  <2>1. /\ req[r] = "arrived" /\ to = "admitted" /\ UNCHANGED <<requests, refills>>
        /\ \/ UNCHANGED <<tokens, passed>>
           \/ /\ tokens[d] > 0 /\ tokens' = [tokens EXCEPT ![d] = @ - 1]
              /\ passed' = passed \cup {r}
    BY <1>6, <1>14 DEF PassRate, Step
  <2>2. ToApp(r) /\ r \notin passed /\ r \notin Handling BY <1>2, <2>1 DEF Limited, Handling
  <2>3. MaxHTTPRequests > 0 => requests' = Cardinality(Handling')
    BY <1>2, <1>9, <2>1, <2>2 DEF Limited
  <2>4. CASE UNCHANGED <<tokens, passed>> BY <1>2, <1>10, <2>1, <2>2, <2>3, <2>4
  <2>5. CASE tokens[d] > 0 /\ tokens' = [tokens EXCEPT ![d] = @ - 1] /\ passed' = passed \cup {r}
    <3>1. d \in IPs BY DEF resolvedClientIP
    <3>2. ASSUME NEW c \in IPs
          PROVE  Cardinality(PassedFor(c)') + tokens'[c] = Burst + refills'[c]
      <4>1. /\ IsFiniteSet(PassedFor(c)) /\ PassedFor(c) \ {r} = PassedFor(c)' \ {r}
            /\ r \notin PassedFor(c) /\ (r \in PassedFor(c)' <=> c = d)
        <5>1. IsFiniteSet(PassedFor(c)) BY <1>2, FS_Subset DEF PassedFor
        <5>2. PassedFor(c) \ {r} = PassedFor(c)' \ {r} BY <2>5 DEF PassedFor, resolvedClientIP
        <5>3. r \notin PassedFor(c) BY <2>2 DEF PassedFor
        <5>4. r \in PassedFor(c)' <=> c = d BY <2>5 DEF PassedFor, resolvedClientIP
        <5> QED BY <5>1, <5>2, <5>3, <5>4
      <4>2. /\ Cardinality(PassedFor(c)) \in Nat
            /\ Cardinality(PassedFor(c)') = Cardinality(PassedFor(c)) + IF c = d THEN 1 ELSE 0
        BY <4>1, Recount
      <4>3. /\ Cardinality(PassedFor(c)) + tokens[c] = Burst + refills[c]
            /\ tokens[c] \in 0..Burst /\ refills[c] \in 0..MaxRefills
        BY <1>2 DEF Limited
      <4>4. tokens'[c] = tokens[c] - IF c = d THEN 1 ELSE 0 BY <1>2, <2>5, <3>1, <4>3
      <4> HIDE DEF d
      <4> QED BY <2>1, <4>2, <4>3, <4>4
    <3>3. tokens' \in [IPs -> 0..Burst] /\ passed' \subseteq Requests BY <1>2, <2>5, <3>1
    <3>4. Limited' BY <1>2, <1>6, <2>1, <2>2, <2>3, <2>5, <3>2 DEF Limited, ToApp
    <3> QED BY <1>1, <1>2, <1>5, <1>7, <2>1, <3>3, <3>4 DEF ServiceInv
  <2> QED BY <2>1, <2>4, <2>5
<1> QED BY <1>11, <1>12, <1>13, <1>14

\* A client gets a token back.
LEMMA RefillInv == ASSUME ServiceInv, NEW c \in IPs, Refill(c) PROVE ServiceInv'
<1>1. /\ UNCHANGED <<req, requests, passed, process, servers>>
      /\ tokens[c] < Burst /\ refills[c] < MaxRefills
      /\ tokens' = [tokens EXCEPT ![c] = @ + 1] /\ refills' = [refills EXCEPT ![c] = @ + 1]
  BY DEF Refill
<1>2. tokens \in [IPs -> 0..Burst] /\ refills \in [IPs -> 0..MaxRefills] /\ Limited
  BY DEF ServiceInv, TypeOK
<1>3. tokens' \in [IPs -> 0..Burst] /\ refills' \in [IPs -> 0..MaxRefills] BY <1>1, <1>2
<1>4. TypeOK' BY <1>1, <1>3 DEF ServiceInv, TypeOK, process, servers
<1>5. Drained' BY <1>1 DEF ServiceInv, Drained, process, Down, InFlight
<1>6. Limited'
  <2>1. ASSUME NEW d \in IPs
        PROVE  Cardinality(PassedFor(d)') + tokens'[d] = Burst + refills'[d]
    <3>1. PassedFor(d)' = PassedFor(d) BY <1>1 DEF PassedFor, resolvedClientIP
    <3>2. IsFiniteSet(PassedFor(d)) BY FS_Subset DEF PassedFor, ServiceInv, TypeOK
    <3>3. Cardinality(PassedFor(d)) \in Nat BY <3>2, FS_CardinalityType
    <3>4. Cardinality(PassedFor(d)) + tokens[d] = Burst + refills[d] BY <1>2 DEF Limited
    <3> QED BY <1>1, <1>2, <3>1, <3>3, <3>4
  <2> QED BY <1>1, <1>2, <2>1 DEF Limited, Handling, ToApp
<1> QED BY <1>1, <1>4, <1>5, <1>6, RequestRests DEF ServiceInv

\* The process starts with nothing shut down and every bucket full.
LEMMA InitService == ASSUME Init PROVE ServiceInv
<1>1. TypeOK
  <2>1. sig \in BOOLEAN /\ expired \in BOOLEAN BY Zenon DEF Init
  <2>2. errCh \in Seq(BOOLEAN) BY DEF Init
  <2> QED BY <2>1, <2>2, OrderServers DEF Init, TypeOK, Goroutines
<1>2. Progress BY DEF Init, Progress, Early, Late, Down
<1>3. ErrorsTrue BY DEF Init, ErrorsTrue
<1>4. Drained BY DEF Init, Drained, InFlight
<1>5. Limited
  <2>1. Handling = {} /\ \A c \in IPs : PassedFor(c) = {} BY DEF Init, Handling, PassedFor
  <2>2. Cardinality(Handling) = 0 /\ \A c \in IPs : Cardinality(PassedFor(c)) = 0
    BY <2>1, FS_EmptySet
  <2> QED BY <2>2 DEF Init, Limited
<1> QED BY <1>1, <1>2, <1>3, <1>4, <1>5 DEF ServiceInv

\* Every step of main, the servers, the requests and time keeps the invariant.
LEMMA NextService == ASSUME ServiceInv, [Next]_vars PROVE ServiceInv'
<1>1. CASE UNCHANGED vars
  <2>1. Limited' BY <1>1, TrafficRests DEF vars, traffic, ServiceInv
  <2> QED BY <1>1, <2>1
         DEF vars, ServiceInv, TypeOK, Progress, ErrorsTrue, Drained, Down, InFlight
<1> QED BY <1>1, MainInv, ServerInv, RequestInv, RefillInv DEF Next

\* The inductive invariant: how far shutdown is, who may still be served, and
\* who holds a slot or has spent a token.
THEOREM ServiceInvariance == Spec => []ServiceInv
<1>1. Init => ServiceInv BY InitService
<1>2. ServiceInv /\ [Next]_vars => ServiceInv' BY NextService
<1> QED BY <1>1, <1>2, PTL DEF Spec

\* Main, its channels and the requests stay in their types.
THEOREM ServiceTyping == Spec => []TypeOK
<1>1. ServiceInv => TypeOK BY DEF ServiceInv
<1> QED BY <1>1, ServiceInvariance, PTL

\* Whatever is configured and in flight, the recorder and the store are closed
\* after the last HTTP request, unless the ten seconds ran out
\* (main.go:172-197).
THEOREM DrainFirst == Spec => []DrainedBeforeClose
<1>1. ASSUME ServiceInv PROVE DrainedBeforeClose
  <2>1. open # {"analytics", "store"} => \A s \in Servers : Down(s)
    BY <1>1 DEF ServiceInv, Progress, Down, Late
  <2> QED BY <1>1, <2>1 DEF ServiceInv, Drained, DrainedBeforeClose
<1> QED BY <1>1, ServiceInvariance, PTL

\* A shutdown never reports itself as a failure, and a normal end comes after
\* a signal with everything closed (main.go:103-197).
THEOREM CleanEnd == Spec => []CleanExit
<1>1. ASSUME ServiceInv PROVE CleanExit
  <2>1. exit = "ok" => closed = Goroutines
    BY <1>1 DEF ServiceInv, Progress, TypeOK, Down, Late, Goroutines
  <2> QED BY <1>1, <2>1 DEF ServiceInv, Progress, ErrorsTrue, CleanExit, Early
<1> QED BY <1>1, ServiceInvariance, PTL

\* The slots taken are the requests being handled, and no client passes more
\* requests than its burst and its refills, for any limits and any headers
\* (http.go:319-337, ratelimit.go:47-86).
THEOREM Limits == Spec => []LimitsHold
<1>1. ServiceInv => LimitsHold BY DEF ServiceInv, Limited, LimitsHold, Handling, PassedFor
<1> QED BY <1>1, ServiceInvariance, PTL
=============================================================================
