--------------------------- MODULE AnalyticsProofs ---------------------------
(* Theorems about Analytics, for any callers, any finite set of events, any  *)
(* sizes of channel and batch, any storage budget and any clock.             *)
EXTENDS Analytics, Counting

USE AnalyticsAssumption

Checked == Cardinality(Callers("checked"))
Counted == Cardinality(Callers("counted"))
Unsettled == Cardinality(taken) - Cardinality(settled) - dropped
Busy(r) == rec[r].st \in {"checked", "counted"}

\* The sets that are counted are finite, and a busy caller holds an event.
Sound ==
  /\ IsFiniteSet(rows)
  /\ \A r \in Recorders : Busy(r) => rec[r].ev \in Event

\* Where the worker stands: only retry opens the database, so what fails once
\* stop is seen stays away, and a drain on a healthy database has no batch left.
Stands ==
  /\ ret = "select" => wpc \in {"select", "write", "prune", "maintain"}
  /\ ret = "retried" => wpc \in {"open", "prune", "maintain", "retried"}
  /\ ret = "drain" => /\ wpc \in {"write", "maintain", "drain", "fill", "finish", "done"}
                      /\ closer \in {"stopped", "returned"}
  /\ ret = "drain" /\ wpc = "maintain" => batch = <<>>
  /\ wpc = "drain" /\ connected => batch = <<>>

\* An event is in one place: with its caller, in the channel or in the batch,
\* and only as long as it is not written.
OnePlace ==
  /\ \A i, j \in 1 .. Len(queue) : queue[i].id = queue[j].id => i = j
  /\ \A i, j \in 1 .. Len(batch) : batch[i].id = batch[j].id => i = j
  /\ \A i \in 1 .. Len(queue), j \in 1 .. Len(batch) : queue[i].id # batch[j].id
  /\ \A r, s \in Recorders : Busy(r) /\ Busy(s) /\ rec[r].ev.id = rec[s].ev.id => r = s
  /\ \A r \in Recorders : Busy(r) =>
       /\ \A i \in 1 .. Len(queue) : rec[r].ev.id # queue[i].id
       /\ \A i \in 1 .. Len(batch) : rec[r].ev.id # batch[i].id
       /\ rec[r].ev.id \in taken \ settled
  /\ \A i \in 1 .. Len(queue) : queue[i].id \in taken \ settled
  /\ \A i \in 1 .. Len(batch) : batch[i].id \in taken \ settled
  /\ settled \subseteq taken

\* The two counters, exact until the worker is done; from then on each lies
\* between the calls still busy and the number of callers.
Tally ==
  IF wpc # "done"
  THEN pending = Waiting + Counted /\ Unsettled = Waiting + Checked + Counted
  ELSE /\ Counted <= pending /\ pending + Checked <= Cardinality(Recorders)
       /\ Checked + Counted <= Unsettled /\ Unsettled <= Cardinality(Recorders)

\* The inductive invariant.
AnalyticsInv == TypeOK /\ Sound /\ Stands /\ OnePlace /\ Tally /\ ShutdownDrains

-----------------------------------------------------------------------------
\* The sizes the counters are made of.
LEMMA Sizes ==
  ASSUME TypeOK
  PROVE  /\ Checked \in Nat /\ Counted \in Nat /\ Cardinality(Recorders) \in Nat
         /\ Checked + Counted <= Cardinality(Recorders)
         /\ IsFiniteSet(Callers("checked")) /\ IsFiniteSet(Callers("counted"))
         /\ IsFiniteSet(taken) /\ IsFiniteSet(settled)
         /\ Cardinality(taken) \in Nat /\ Cardinality(settled) \in Nat
         /\ Len(queue) \in Nat /\ Len(batch) \in Nat
<1>1. Callers("checked") \in SUBSET Recorders /\ Callers("counted") \in SUBSET Recorders
      /\ Callers("checked") \cap Callers("counted") = {}
  BY DEF Callers
<1>2. IsFiniteSet(taken) /\ IsFiniteSet(settled)
  <2>1. taken \in SUBSET EventIds /\ settled \in SUBSET EventIds BY DEF TypeOK
  <2> QED BY <2>1, FS_Subset
<1>3. Cardinality(taken) \in Nat /\ Cardinality(settled) \in Nat BY <1>2, FS_CardinalityType
<1>4. Len(queue) \in Nat /\ Len(batch) \in Nat BY DEF TypeOK
<1> QED BY <1>1, <1>2, <1>3, <1>4, Apart DEF Checked, Counted

\* A call of Record moves one caller.
LEMMA OneCaller ==
  ASSUME TypeOK, NEW r \in Recorders, NEW x, rec' = [rec EXCEPT ![r] = x]
  PROVE  /\ Checked' = Checked + (IF x.st = "checked" THEN 1 ELSE 0)
                               - (IF rec[r].st = "checked" THEN 1 ELSE 0)
         /\ Counted' = Counted + (IF x.st = "counted" THEN 1 ELSE 0)
                               - (IF rec[r].st = "counted" THEN 1 ELSE 0)
<1>1. ASSUME NEW st PROVE Callers(st) \ {r} = Callers(st)' \ {r}
                          /\ (r \in Callers(st) <=> rec[r].st = st)
                          /\ (r \in Callers(st)' <=> x.st = st)
  BY DEF Callers, TypeOK
<1>2. IsFiniteSet(Callers("checked")) /\ IsFiniteSet(Callers("counted")) BY Sizes
<1>3. Checked' = Checked + (IF x.st = "checked" THEN 1 ELSE 0)
                         - (IF rec[r].st = "checked" THEN 1 ELSE 0)
  BY <1>1, <1>2, Recount DEF Checked
<1>4. Counted' = Counted + (IF x.st = "counted" THEN 1 ELSE 0)
                         - (IF rec[r].st = "counted" THEN 1 ELSE 0)
  BY <1>1, <1>2, Recount DEF Counted
<1> QED BY <1>3, <1>4

\* The counts rest with the calls.
LEMMA CallersRest ==
  ASSUME rec' = rec
  PROVE  Checked' = Checked /\ Counted' = Counted /\ \A r \in Recorders : Busy(r)' <=> Busy(r)
BY DEF Checked, Counted, Callers, Busy

\* No event moves: the channel, the batch and the counters rest, and the
\* worker is not done before or after.
LEMMA EventsRest ==
  ASSUME AnalyticsInv, UNCHANGED <<rec, queue, batch, pending, dropped, taken, settled>>,
         wpc' = "done" <=> wpc = "done"
  PROVE  OnePlace' /\ Tally'
<1>1. OnePlace' BY CallersRest DEF AnalyticsInv, OnePlace, Busy
<1>2. Tally' BY CallersRest DEF AnalyticsInv, Tally, Waiting, Unsettled
<1> QED BY <1>1, <1>2

\* The batch is gone, written or dropped, with what it counted for.
LEMMA BatchGone ==
  ASSUME AnalyticsInv, wpc # "done", wpc' # "done", UNCHANGED <<rec, queue, taken>>,
         batch' = <<>>, pending' = pending - Len(batch),
         \/ dropped' = dropped + Len(batch) /\ settled' = settled
         \/ dropped' = dropped /\ settled' = settled \cup {e.id : e \in Elements(batch)}
  PROVE  OnePlace' /\ Tally' /\ pending' \in Nat /\ dropped' \in Nat /\ settled' \in SUBSET EventIds
<1> DEFINE f == [k \in 1 .. Len(batch) |-> batch[k].id]
           V == {f[k] : k \in 1 .. Len(batch)}
<1>1. batch \in Seq(Event) /\ Len(batch) \in Nat /\ DOMAIN batch = 1 .. Len(batch)
      /\ \A k \in 1 .. Len(batch) : batch[k] \in Event /\ batch[k].id \in EventIds
  <2>1. batch \in Seq(Event) BY DEF AnalyticsInv, TypeOK
  <2>2. \A k \in 1 .. Len(batch) : batch[k] \in Event BY <2>1
  <2>3. \A e \in Event : e.id \in EventIds BY DEF Event
  <2> QED BY <2>1, <2>2, <2>3
<1>2. V = {e.id : e \in Elements(batch)} BY <1>1 DEF Elements
<1>3. IsFiniteSet(V) /\ Cardinality(V) = Len(batch)
  <2>1. f \in [1 .. Len(batch) -> EventIds] BY <1>1
  <2>2. \A i, j \in 1 .. Len(batch) : f[i] = f[j] => i = j BY DEF AnalyticsInv, OnePlace
  <2>3. Len(batch) \in Nat BY <1>1
  <2>4. V = {f[k] : k \in 1 .. Len(batch)} OBVIOUS
  <2> HIDE DEF f, V
  <2>5. IsFiniteSet(V) BY ONLY <2>1, <2>3, <2>4, Values
  <2>6. f \in Injection(1 .. Len(batch), EventIds) BY <2>1, <2>2 DEF Injection, IsInjective
  <2>7. Cardinality(V) = Len(batch) BY ONLY <2>3, <2>4, <2>6, DistinctValues
  <2> QED BY <2>5, <2>7
<1>4. V \cap settled = {} /\ V \subseteq EventIds BY <1>1 DEF AnalyticsInv, OnePlace
<1>5. Cardinality(settled \cup V) = Cardinality(settled) + Len(batch)
  <2>1. IsFiniteSet(settled) /\ Cardinality(settled) \in Nat BY Sizes DEF AnalyticsInv
  <2>2. Cardinality(settled \cap V) = 0
    <3>1. settled \cap V = {} BY <1>4
    <3> QED BY <3>1, FS_EmptySet
  <2> HIDE DEF V
  <2>3. Cardinality(settled \cup V) = Cardinality(settled) + Cardinality(V) - Cardinality(settled \cap V)
    BY <1>3, <2>1, FS_Union
  <2> QED BY ONLY <1>1, <1>3, <2>1, <2>2, <2>3
<1> HIDE DEF V, f
<1>6. Len(batch') = 0 OBVIOUS
<1>7. OnePlace'
  <2>0. V \subseteq taken BY <1>1, <1>2 DEF AnalyticsInv, OnePlace, Elements
  <2>1. \A i \in 1 .. Len(queue) : queue[i].id \notin V
    BY <1>1, <1>2 DEF AnalyticsInv, OnePlace, Elements
  <2>2. \A r \in Recorders : Busy(r) => rec[r].ev.id \notin V
    BY <1>1, <1>2 DEF AnalyticsInv, OnePlace, Elements
  <2>3. settled' = settled \/ settled' = settled \cup V BY <1>2
  <2> QED BY <1>6, <2>0, <2>1, <2>2, <2>3, CallersRest DEF AnalyticsInv, OnePlace, Busy
<1>8. Tally' /\ pending' \in Nat /\ dropped' \in Nat
  <2>1. Cardinality(settled') + dropped' = Cardinality(settled) + dropped + Len(batch)
        /\ dropped' \in Nat
    <3>1. dropped \in Nat /\ Cardinality(settled) \in Nat BY Sizes DEF AnalyticsInv, TypeOK
    <3>2. CASE dropped' = dropped + Len(batch) /\ settled' = settled BY <1>1, <3>1, <3>2
    <3>3. CASE dropped' = dropped /\ settled' = settled \cup V BY <1>1, <1>5, <3>1, <3>3
    <3> QED BY <1>2, <3>2, <3>3
  <2>2. Cardinality(settled') \in Nat
    <3>1. Cardinality(settled) \in Nat BY Sizes DEF AnalyticsInv
    <3>2. settled' = settled \/ settled' = settled \cup V BY <1>2
    <3>3. Len(batch) \in Nat BY <1>1
    <3>4. CASE settled' = settled BY <3>1, <3>4
    <3>5. CASE settled' = settled \cup V BY ONLY <3>3, <1>5, <3>1, <3>5
    <3> QED BY <3>2, <3>4, <3>5
  <2>3. pending = Len(queue) + Len(batch) + Counted
        /\ Cardinality(taken) - Cardinality(settled) - dropped = Len(queue) + Len(batch) + Checked + Counted
    BY DEF AnalyticsInv, Tally, Waiting, Unsettled
  <2>4. /\ Checked \in Nat /\ Counted \in Nat /\ Cardinality(taken) \in Nat
        /\ Cardinality(settled) \in Nat /\ Len(queue) \in Nat /\ Len(batch) \in Nat /\ dropped \in Nat
    BY Sizes DEF AnalyticsInv, TypeOK
  <2>5. pending' = Len(queue) + Counted /\ pending' \in Nat
        /\ Cardinality(taken) - Cardinality(settled') - dropped' = Len(queue) + Checked + Counted
    <3>1. pending' = pending - Len(batch) OBVIOUS
    <3>2. pending' = Len(queue) + Counted BY ONLY <2>3, <2>4, <3>1
    <3>3. Cardinality(taken) - Cardinality(settled') - dropped' = Len(queue) + Checked + Counted
      <4> DEFINE t == Cardinality(taken)    s == Cardinality(settled)    ss == Cardinality(settled')
                 d == dropped   dd == dropped'   n == Len(batch)   q == Len(queue)
      <4>1. /\ t \in Nat /\ s \in Nat /\ ss \in Nat /\ d \in Nat /\ dd \in Nat /\ n \in Nat /\ q \in Nat
            /\ Checked \in Nat /\ Counted \in Nat
        BY <2>1, <2>2, <2>4
      <4>2. ss + dd = s + d + n /\ t - s - d = q + n + Checked + Counted BY <2>1, <2>3
      <4> HIDE DEF t, s, ss, d, dd, n, q
      <4>3. t - ss - dd = q + Checked + Counted BY ONLY <4>1, <4>2
      <4> QED BY <4>3 DEF t, s, ss, d, dd, n, q
    <3>4. pending' \in Nat BY ONLY <3>2, <2>4
    <3> QED BY <3>2, <3>3, <3>4
  <2>6. Tally' BY <1>6, <2>4, <2>5, CallersRest DEF Tally, Waiting, Unsettled
  <2> QED BY <2>1, <2>5, <2>6
<1> QED BY <1>2, <1>4, <1>7, <1>8 DEF AnalyticsInv, TypeOK

-----------------------------------------------------------------------------
\* The invariant on the numbers: three sums that every move of an event must
\* keep.
Numbers ==
  /\ Tally
  /\ wpc = "finish" /\ connected => Len(queue) + Checked + Counted <= Cardinality(Recorders)

LEMMA InvNumbers == ASSUME AnalyticsInv PROVE Numbers
BY DEF AnalyticsInv, Numbers, ShutdownDrains, Checked, Counted

\* A call of Record takes an event, counts it, and sends or drops it, whatever
\* the worker does, and takes none once Close has begun.
LEMMA RecordInv ==
  ASSUME AnalyticsInv, NEW r \in Recorders, Record(r)
  PROVE  AnalyticsInv'
<1>1. UNCHANGED <<batch, attempts, connected, rows, wpc, ret, rounds, settled, closer, now>>
  BY DEF Record, Check, Count, Send, Overflow, worker
<1>2. /\ TypeOK /\ Numbers /\ Checked \in Nat /\ Counted \in Nat /\ Cardinality(Recorders) \in Nat
      /\ Cardinality(taken) \in Nat /\ Cardinality(settled) \in Nat
      /\ Len(queue) \in Nat /\ Len(batch) \in Nat /\ pending \in Nat /\ dropped \in Nat
      /\ IsFiniteSet(taken) /\ queue \in Seq(Event)
  BY InvNumbers, Sizes DEF AnalyticsInv, TypeOK
<1>3. rec[r] \in [st : {"idle", "checked", "counted"}, ev : Event \cup {NoEvent}]
  BY DEF AnalyticsInv, TypeOK
<1>4. CASE Check(r)
  <2>1. PICK i \in EventIds \ taken, t \in 0 .. now :
          /\ rec' = [rec EXCEPT ![r] = [st |-> "checked", ev |-> [id |-> i, ts |-> t]]]
          /\ taken' = taken \cup {i}
    BY <1>4 DEF Check
  <2>2. closer = "open" /\ rec[r].st = "idle" /\ UNCHANGED <<queue, pending, dropped>>
    BY <1>4 DEF Check
  <2>3. wpc \notin {"finish", "done"} BY <2>2 DEF AnalyticsInv, Stands, TypeOK
  <2> DEFINE x == [st |-> "checked", ev |-> [id |-> i, ts |-> t]]
  <2>4. x.st = "checked" /\ x.ev \in Event /\ x.ev.id = i
        /\ x \in [st : {"idle", "checked", "counted"}, ev : Event \cup {NoEvent}]
    BY DEF AnalyticsInv, TypeOK, Event
  <2>5. rec' = [rec EXCEPT ![r] = x] BY <2>1
  <2> HIDE DEF x
  <2>6. Checked' = Checked + 1 /\ Counted' = Counted
    <3>1. /\ Checked' = Checked + (IF x.st = "checked" THEN 1 ELSE 0)
                                - (IF rec[r].st = "checked" THEN 1 ELSE 0)
          /\ Counted' = Counted + (IF x.st = "counted" THEN 1 ELSE 0)
                                - (IF rec[r].st = "counted" THEN 1 ELSE 0)
      BY <1>2, <2>5, OneCaller
    <3> QED BY <1>2, <2>2, <2>4, <3>1
  <2>7. Cardinality(taken') = Cardinality(taken) + 1 BY <1>2, <2>1, FS_AddElement
  <2>8. Numbers'
    BY <1>1, <1>2, <2>2, <2>3, <2>6, <2>7, SMTT(60) DEF Numbers, Tally, Waiting, Unsettled
  <2>9. rec' \in [Recorders -> [st : {"idle", "checked", "counted"}, ev : Event \cup {NoEvent}]]
    BY <2>4, <2>5 DEF AnalyticsInv, TypeOK
  <2>10. TypeOK' BY <1>1, <2>1, <2>2, <2>9 DEF AnalyticsInv, TypeOK
  <2>11. \A s \in Recorders : (s # r => rec'[s] = rec[s]) /\ rec'[r] = x
    BY <2>5 DEF AnalyticsInv, TypeOK
  <2>12. Sound' BY <1>1, <2>4, <2>11 DEF AnalyticsInv, Sound, Busy
  <2>13. OnePlace'
    <3>1. /\ \A k \in 1 .. Len(queue) : queue[k].id # i
          /\ \A k \in 1 .. Len(batch) : batch[k].id # i
          /\ \A s \in Recorders : Busy(s) => rec[s].ev.id # i
          /\ i \notin settled
      BY <2>1 DEF AnalyticsInv, OnePlace
    <3>2. \A s \in Recorders : Busy(s)' <=> s = r \/ Busy(s) BY <2>4, <2>11 DEF Busy
    <3> QED BY <1>1, <2>1, <2>2, <2>4, <2>11, <3>1, <3>2, SMTT(60) DEF AnalyticsInv, OnePlace
  <2> QED BY <1>1, <2>2, <2>3, <2>8, <2>10, <2>12, <2>13
      DEF AnalyticsInv, Stands, Numbers, ShutdownDrains
<1>5. ASSUME Numbers' PROVE ShutdownDrains'
  <2>1. wpc = "finish" /\ connected => batch = <<>> BY DEF AnalyticsInv, ShutdownDrains
  <2> QED BY <1>1, <1>5, <2>1 DEF Numbers, ShutdownDrains, Checked, Counted
<1>6. CASE Count(r)
  <2> DEFINE x == [rec[r] EXCEPT !.st = "counted"]
  <2>1. rec' = [rec EXCEPT ![r] = x] /\ rec[r].st = "checked" /\ pending' = pending + 1
        /\ UNCHANGED <<queue, dropped, taken>>
    BY <1>6 DEF Count
  <2>2. x.st = "counted" /\ x.ev = rec[r].ev
        /\ x \in [st : {"idle", "checked", "counted"}, ev : Event \cup {NoEvent}]
    BY <1>3
  <2> HIDE DEF x
  <2>3. Checked' = Checked - 1 /\ Counted' = Counted + 1
    <3>1. /\ Checked' = Checked + (IF x.st = "checked" THEN 1 ELSE 0)
                                - (IF rec[r].st = "checked" THEN 1 ELSE 0)
          /\ Counted' = Counted + (IF x.st = "counted" THEN 1 ELSE 0)
                                - (IF rec[r].st = "counted" THEN 1 ELSE 0)
      BY <1>2, <2>1, OneCaller
    <3> QED BY <1>2, <2>1, <2>2, <3>1
  <2>4. Numbers' BY <1>1, <1>2, <2>1, <2>3 DEF Numbers, Tally, Waiting, Unsettled
  <2>5. rec' \in [Recorders -> [st : {"idle", "checked", "counted"}, ev : Event \cup {NoEvent}]]
    BY <2>1, <2>2 DEF AnalyticsInv, TypeOK
  <2>6. TypeOK' BY <1>1, <1>2, <2>1, <2>5 DEF AnalyticsInv, TypeOK
  <2>7. \A s \in Recorders : (Busy(s)' <=> Busy(s)) /\ rec'[s].ev = rec[s].ev
    BY <2>1, <2>2 DEF AnalyticsInv, TypeOK, Busy
  <2>8. Sound' BY <1>1, <2>1, <2>7 DEF AnalyticsInv, Sound
  <2>9. OnePlace' BY <1>1, <2>1, <2>7 DEF AnalyticsInv, OnePlace
  <2> QED BY <1>1, <1>5, <2>4, <2>6, <2>8, <2>9 DEF AnalyticsInv, Stands, Numbers
<1>7. CASE Send(r) \/ Overflow(r)
  <2> DEFINE x == [st |-> "idle", ev |-> NoEvent]
  <2>1. rec' = [rec EXCEPT ![r] = x] /\ rec[r].st = "counted" /\ taken' = taken
    BY <1>7 DEF Send, Overflow, Idle
  <2>2. x.st = "idle" /\ x \in [st : {"idle", "checked", "counted"}, ev : Event \cup {NoEvent}]
    OBVIOUS
  <2> HIDE DEF x
  <2>3. Checked' = Checked /\ Counted' = Counted - 1
    <3>1. /\ Checked' = Checked + (IF x.st = "checked" THEN 1 ELSE 0)
                                - (IF rec[r].st = "checked" THEN 1 ELSE 0)
          /\ Counted' = Counted + (IF x.st = "counted" THEN 1 ELSE 0)
                                - (IF rec[r].st = "counted" THEN 1 ELSE 0)
      BY <1>2, <2>1, OneCaller
    <3> QED BY <1>2, <2>1, <2>2, <3>1
  <2>4. Counted >= 1
    <3>1. IsFiniteSet(Callers("counted")) /\ r \in Callers("counted") BY <1>2, <2>1, Sizes DEF Callers
    <3> QED BY <3>1, Member DEF Counted
  <2>5. rec' \in [Recorders -> [st : {"idle", "checked", "counted"}, ev : Event \cup {NoEvent}]]
    BY <2>1, <2>2 DEF AnalyticsInv, TypeOK
  <2>6. \A s \in Recorders : (Busy(s)' <=> Busy(s) /\ s # r) /\ (s # r => rec'[s] = rec[s])
    BY <2>1, <2>2 DEF AnalyticsInv, TypeOK, Busy
  <2>7. Sound' BY <1>1, <2>6 DEF AnalyticsInv, Sound
  <2>8. CASE Overflow(r)
    <3>1. pending' = pending - 1 /\ dropped' = dropped + 1 /\ queue' = queue
      BY <2>8 DEF Overflow
    <3>2. Numbers'
      <4>1. Unsettled' = Unsettled - 1 BY <1>1, <1>2, <2>1, <3>1 DEF Unsettled
      <4>2. Unsettled \in Int BY <1>2 DEF Unsettled
      <4> QED BY <1>1, <1>2, <2>3, <2>4, <3>1, <4>1, <4>2 DEF Numbers, Tally, Waiting
    <3>3. pending' \in Nat BY <1>2, <2>4, <3>1 DEF Numbers, Tally, Waiting
    <3>4. TypeOK' BY <1>1, <1>2, <2>1, <2>5, <3>1, <3>3 DEF AnalyticsInv, TypeOK
    <3>5. OnePlace' BY <1>1, <2>1, <2>6, <3>1 DEF AnalyticsInv, OnePlace
    <3> QED BY <1>1, <1>5, <2>7, <3>1, <3>2, <3>4, <3>5 DEF AnalyticsInv, Stands, Numbers
  <2>9. CASE Send(r)
    <3> DEFINE e == rec[r].ev
    <3>1. queue' = Append(queue, e) /\ Len(queue) < QueueSize /\ UNCHANGED <<pending, dropped>>
      BY <2>9 DEF Send
    <3>2. e \in Event /\ Busy(r) BY <2>1 DEF AnalyticsInv, Sound, Busy
    <3> HIDE DEF e
    <3>3. /\ queue' \in Seq(Event) /\ Len(queue') = Len(queue) + 1
          /\ \A k \in 1 .. Len(queue') : queue'[k] = IF k = Len(queue) + 1 THEN e ELSE queue[k]
      BY <1>2, <3>1, <3>2
    <3>4. Numbers' BY <1>1, <1>2, <2>1, <2>3, <3>1, <3>3, SMTT(60) DEF Numbers, Tally, Waiting, Unsettled
    <3>5. TypeOK' BY <1>1, <1>2, <2>1, <2>5, <3>1, <3>3 DEF AnalyticsInv, TypeOK
    <3>6. OnePlace'
      <4>1. \A k \in 1 .. Len(queue') : k = Len(queue) + 1 \/ k \in 1 .. Len(queue)
        BY <1>2, <3>3
      <4>2. /\ \A k \in 1 .. Len(queue) : queue[k].id # e.id
            /\ \A k \in 1 .. Len(batch) : batch[k].id # e.id
            /\ \A s \in Recorders : Busy(s) /\ s # r => rec[s].ev.id # e.id
            /\ e.id \in taken \ settled
        BY <3>2 DEF AnalyticsInv, OnePlace, e
      <4> QED BY <1>1, <2>1, <2>6, <3>3, <4>1, <4>2, SMTT(60) DEF AnalyticsInv, OnePlace
    <3> QED BY <1>1, <1>5, <2>7, <3>1, <3>4, <3>5, <3>6 DEF AnalyticsInv, Stands, Numbers
  <2> QED BY <1>7, <2>8, <2>9
<1> QED BY <1>4, <1>6, <1>7 DEF Record

-----------------------------------------------------------------------------
\* The worker moves one event from the channel to the batch.
MoveOne ==
  /\ HasRoom /\ queue # <<>> /\ batch' = Append(batch, Head(queue)) /\ queue' = Tail(queue)
  /\ UNCHANGED <<rec, pending, dropped, taken, settled>>

LEMMA MoveOneInv ==
  ASSUME AnalyticsInv, MoveOne, wpc # "done", wpc' # "done"
  PROVE  /\ OnePlace' /\ Tally'
         /\ queue' \in Seq(Event) /\ Len(queue') <= QueueSize
         /\ batch' \in Seq(Event) /\ Len(batch') <= BatchSize
<1>1. queue \in Seq(Event) /\ Len(queue) <= QueueSize /\ queue # <<>>
      /\ batch \in Seq(Event) /\ Len(batch) < BatchSize
  BY DEF AnalyticsInv, TypeOK, MoveOne, HasRoom
<1> DEFINE e == queue[1]
<1>2. e \in Event /\ Head(queue) = e /\ 1 \in 1 .. Len(queue) /\ Len(queue) \in Nat /\ Len(batch) \in Nat
  BY <1>1
<1>3. /\ queue' \in Seq(Event) /\ Len(queue') = Len(queue) - 1
      /\ \A k \in 1 .. Len(queue') : k + 1 \in 1 .. Len(queue) /\ queue'[k] = queue[k + 1]
  BY <1>1 DEF MoveOne
<1>4. batch' = Append(batch, e) BY <1>2 DEF MoveOne
<1> HIDE DEF e
<1>5. /\ batch' \in Seq(Event) /\ Len(batch') = Len(batch) + 1
      /\ \A k \in 1 .. Len(batch') : batch'[k] = IF k = Len(batch) + 1 THEN e ELSE batch[k]
  BY <1>1, <1>2, <1>4
<1>6. Len(queue') <= QueueSize /\ Len(batch') <= BatchSize
  BY <1>1, <1>2, <1>3, <1>5
<1>7. OnePlace'
  <2>1. \A k \in 1 .. Len(batch') : k = Len(batch) + 1 \/ k \in 1 .. Len(batch) BY <1>2, <1>5
  <2>2. /\ \A k \in 1 .. Len(batch) : batch[k].id # e.id
        /\ \A r \in Recorders : Busy(r) => rec[r].ev.id # e.id
        /\ e.id \in taken \ settled
    BY <1>2 DEF AnalyticsInv, OnePlace, e
  <2>3. \A k \in 1 .. Len(queue') : queue'[k].id # e.id
    <3>1. \A k \in 2 .. Len(queue) : queue[k].id # e.id BY <1>2 DEF AnalyticsInv, OnePlace, e
    <3>2. \A k \in 1 .. Len(queue') : k + 1 \in 2 .. Len(queue) BY <1>2, <1>3
    <3> QED BY <1>3, <3>1, <3>2
  <2>4. UNCHANGED <<rec, taken, settled>> /\ \A r \in Recorders : Busy(r)' <=> Busy(r)
    BY DEF MoveOne, Busy
  <2>5. \A i, j \in 1 .. Len(queue') : queue'[i].id = queue'[j].id => i = j
    <3>1. ASSUME NEW i \in 1 .. Len(queue'), NEW j \in 1 .. Len(queue'), queue'[i].id = queue'[j].id
          PROVE  i = j
      <4>1. i + 1 = j + 1 BY <1>3, <3>1 DEF AnalyticsInv, OnePlace
      <4> QED BY <4>1
    <3> QED BY <3>1
  <2>6. \A i, j \in 1 .. Len(batch') : batch'[i].id = batch'[j].id => i = j
    BY <1>5, <2>1, <2>2 DEF AnalyticsInv, OnePlace
  <2>7. \A i \in 1 .. Len(queue'), j \in 1 .. Len(batch') : queue'[i].id # batch'[j].id
    <3>1. ASSUME NEW i \in 1 .. Len(queue'), NEW j \in 1 .. Len(batch) PROVE queue'[i].id # batch[j].id
      BY <1>3, <3>1 DEF AnalyticsInv, OnePlace
    <3> QED BY <1>5, <2>1, <2>3, <3>1
  <2>8. \A i \in 1 .. Len(queue') : queue'[i].id \in taken \ settled
    BY <1>3 DEF AnalyticsInv, OnePlace
  <2>9. \A i \in 1 .. Len(batch') : batch'[i].id \in taken \ settled
    BY <1>5, <2>1, <2>2 DEF AnalyticsInv, OnePlace
  <2>10. \A r \in Recorders : Busy(r) =>
           /\ \A k \in 1 .. Len(queue') : rec[r].ev.id # queue'[k].id
           /\ \A k \in 1 .. Len(batch') : rec[r].ev.id # batch'[k].id
           /\ rec[r].ev.id \in taken \ settled
    BY <1>3, <1>5, <2>1, <2>2 DEF AnalyticsInv, OnePlace
  <2> QED BY <2>4, <2>5, <2>6, <2>7, <2>8, <2>9, <2>10 DEF AnalyticsInv, OnePlace
<1>8. Tally'
  <2>1. Waiting' = Waiting BY <1>2, <1>3, <1>5 DEF Waiting
  <2> QED BY <2>1, CallersRest DEF MoveOne, AnalyticsInv, Tally, Unsettled
<1> QED BY <1>3, <1>5, <1>6, <1>7, <1>8

\* The rows of a written batch are finitely many.
LEMMA RowsFinite ==
  ASSUME AnalyticsInv, NEW new, new \subseteq rows \cup Elements(batch)
  PROVE  IsFiniteSet(new) /\ new \subseteq Event
<1>1. batch \in Seq(Event) /\ rows \subseteq Event /\ IsFiniteSet(rows)
  BY DEF AnalyticsInv, TypeOK, Sound
<1>2. batch \in [1 .. Len(batch) -> Event] /\ Len(batch) \in Nat BY <1>1
<1>3. Elements(batch) = {batch[k] : k \in 1 .. Len(batch)} BY <1>1 DEF Elements
<1>4. IsFiniteSet(Elements(batch)) BY ONLY <1>2, <1>3, Values
<1>5. IsFiniteSet(rows \cup Elements(batch)) BY <1>1, <1>4, FS_Union
<1>6. new \in SUBSET (rows \cup Elements(batch)) OBVIOUS
<1>7. IsFiniteSet(new) BY <1>5, <1>6, FS_Subset
<1>8. Elements(batch) \subseteq Event BY <1>2, <1>3
<1> QED BY <1>1, <1>7, <1>8

\* What leaves the events where they are: ticks, opening, pruning, evicting,
\* and every move of Close.
Quiet ==
  \/ Flush \/ Retry \/ CleanupTick \/ StopSeen \/ WriteNothing \/ Open \/ OpenFails \/ Prune
  \/ PruneFails \/ Evict \/ MaintainDone \/ MaintainFails \/ Drain
  \/ Close \/ CloseStop \/ CloseReturn \/ Tick

LEMMA QuietInv ==
  ASSUME AnalyticsInv, Quiet
  PROVE  AnalyticsInv'
<1> USE DEF Quiet, caller, worker
<1>1. UNCHANGED <<rec, queue, batch, pending, dropped, taken, settled, attempts>>
  BY DEF Flush, Retry, CleanupTick, StopSeen, WriteNothing, Open, OpenFails, Prune, PruneFails,
     Evict, MaintainDone, MaintainFails, Drain, Close, CloseStop, CloseReturn, Tick
<1>2. rows' \subseteq rows
  BY DEF Flush, Retry, CleanupTick, StopSeen, WriteNothing, Open, OpenFails, Prune, PruneFails,
     Evict, MaintainDone, MaintainFails, Drain, Close, CloseStop, CloseReturn, Tick
<1>3. rounds' \in 0 .. MaxRounds /\ now' \in 0 .. MaxTime
      /\ closer' \in {"open", "closed", "stopped", "returned"}
  BY SMTT(60) DEF AnalyticsInv, TypeOK, Flush, Retry, CleanupTick, StopSeen, WriteNothing, Open, OpenFails,
     Prune, PruneFails, Evict, MaintainDone, MaintainFails, Drain, Close, CloseStop, CloseReturn, Tick
<1>4. connected' \in BOOLEAN
  BY Zenon DEF AnalyticsInv, TypeOK, Flush, Retry, CleanupTick, StopSeen, WriteNothing, Open,
     OpenFails, Prune, PruneFails, Evict, MaintainDone, MaintainFails, Drain, Close, CloseStop,
     CloseReturn, Tick
<1>5. Stands' /\ (wpc' = "done" <=> wpc = "done") /\ ret' \in {"select", "retried", "drain"}
      /\ wpc' \in {"select", "write", "open", "retried", "prune", "maintain", "drain", "fill",
                   "finish", "done"}
  <2> USE <1>1 DEF AnalyticsInv, TypeOK, Stands
  <2>1. CASE Flush \/ Retry \/ CleanupTick \/ StopSeen
    BY <2>1 DEF Flush, Retry, CleanupTick, StopSeen, Goto
  <2>2. CASE WriteNothing BY <2>2 DEF WriteNothing
  <2>3. CASE Open \/ OpenFails BY <2>3 DEF Open, OpenFails
  <2>4. CASE Prune \/ PruneFails BY <2>4 DEF Prune, PruneFails
  <2>5. CASE Evict \/ MaintainDone \/ MaintainFails BY <2>5 DEF Evict, MaintainDone, MaintainFails
  <2>6. CASE Drain BY <2>6 DEF Drain
  <2>7. CASE Close \/ CloseStop \/ CloseReturn \/ Tick
    BY <2>7 DEF Close, CloseStop, CloseReturn, Tick
  <2> QED BY <2>1, <2>2, <2>3, <2>4, <2>5, <2>6, <2>7
<1>6. ShutdownDrains'
  <2>1. CASE wpc' = "finish" /\ connected'
    <3>1. CASE Drain
      <4>1. queue = <<>> /\ batch = <<>>
        BY <2>1, <3>1 DEF Drain, AnalyticsInv, Stands
      <4>2. Checked + Counted <= Cardinality(Recorders) /\ Checked \in Nat /\ Counted \in Nat
        BY Sizes DEF AnalyticsInv
      <4>3. Len(queue') = 0 BY <1>1, <4>1
      <4> QED BY <1>1, <4>1, <4>2, <4>3, CallersRest DEF ShutdownDrains, Checked, Counted
    <3>2. CASE ~Drain
      <4>1. wpc = "finish" /\ connected
        <5>1. CASE Flush \/ Retry \/ CleanupTick \/ StopSeen
          BY <2>1, <5>1 DEF Flush, Retry, CleanupTick, StopSeen, Goto
        <5>2. CASE WriteNothing \/ Open \/ OpenFails \/ Prune \/ PruneFails \/ Evict
                   \/ MaintainDone \/ MaintainFails
          BY <2>1, <5>2 DEF WriteNothing, Open, OpenFails, Prune, PruneFails, Evict,
             MaintainDone, MaintainFails, AnalyticsInv, TypeOK
        <5>3. CASE Close \/ CloseStop \/ CloseReturn \/ Tick
          BY <2>1, <5>3 DEF Close, CloseStop, CloseReturn, Tick
        <5> QED BY <3>2, <5>1, <5>2, <5>3
      <4> QED BY <1>1, <4>1 DEF AnalyticsInv, ShutdownDrains, Callers
    <3> QED BY <3>1, <3>2
  <2> QED BY <2>1 DEF ShutdownDrains
<1>7. OnePlace' /\ Tally' BY <1>1, <1>5, EventsRest
<1>8. IsFiniteSet(rows') /\ rows' \subseteq Event BY <1>2, RowsFinite
<1>9. TypeOK' BY <1>1, <1>3, <1>4, <1>5, <1>8 DEF AnalyticsInv, TypeOK
<1>10. Sound' BY <1>1, <1>8 DEF AnalyticsInv, Sound, Busy
<1> QED BY <1>5, <1>6, <1>7, <1>9, <1>10 DEF AnalyticsInv

\* The worker takes events while the batch has room.
LEMMA TakeInv ==
  ASSUME AnalyticsInv, Take \/ Fill
  PROVE  AnalyticsInv'
<1>1. UNCHANGED <<rec, pending, dropped, taken, settled, attempts, connected, rows, rounds, closer, now>>
  BY DEF Take, Fill, caller
<1>2. wpc \in {"select", "fill"} /\ wpc' \in {"select", "write", "fill"} /\ ret' \in {"select", "drain"}
  BY DEF Take, Fill, Goto, AnalyticsInv, Stands, TypeOK
<1>3. Stands' BY <1>1 DEF Take, Fill, Goto, AnalyticsInv, Stands, TypeOK
<1>4. Sound' BY <1>1 DEF AnalyticsInv, Sound, Busy
<1>5. ShutdownDrains' BY <1>2 DEF ShutdownDrains
<1>6. CASE MoveOne
  <2>1. /\ OnePlace' /\ Tally'
        /\ queue' \in Seq(Event) /\ Len(queue') <= QueueSize
        /\ batch' \in Seq(Event) /\ Len(batch') <= BatchSize
    BY <1>2, <1>6, MoveOneInv
  <2>2. TypeOK' BY <1>1, <1>2, <2>1 DEF AnalyticsInv, TypeOK
  <2> QED BY <1>3, <1>4, <1>5, <2>1, <2>2 DEF AnalyticsInv
<1>7. CASE ~MoveOne
  <2>1. UNCHANGED <<queue, batch>> BY <1>1, <1>7 DEF Take, Fill, MoveOne
  <2>2. OnePlace' /\ Tally' BY <1>1, <1>2, <2>1, EventsRest
  <2>3. TypeOK' BY <1>1, <1>2, <2>1 DEF AnalyticsInv, TypeOK
  <2> QED BY <1>3, <1>4, <1>5, <2>2, <2>3 DEF AnalyticsInv
<1> QED BY <1>6, <1>7

\* A failed attempt keeps the batch for another one, or drops it.
LEMMA FailInv ==
  ASSUME AnalyticsInv, Retried \/ WriteFails
  PROVE  AnalyticsInv'
<1>1. UNCHANGED <<rec, queue, taken, rows, rounds, settled, closer, now>>
  BY DEF Retried, WriteFails, caller
<1>2. wpc \notin {"done", "finish"} /\ wpc' \in {"select", "write", "retried", "drain"}
      /\ ret' \in {"select", "retried", "drain"}
  BY DEF Retried, WriteFails, Goto, AnalyticsInv, TypeOK
<1>3. connected' \in BOOLEAN BY Zenon DEF Retried, WriteFails, AnalyticsInv, TypeOK
<1>4. Sound' BY <1>1 DEF AnalyticsInv, Sound, Busy
<1>5. ShutdownDrains' BY <1>2 DEF ShutdownDrains
<1>6. Stands'
  <2>1. CASE Retried BY <1>1, <2>1 DEF Retried, Goto, AnalyticsInv, Stands, TypeOK
  <2>2. CASE WriteFails BY <1>1, <2>2 DEF WriteFails, AnalyticsInv, Stands, TypeOK
  <2> QED BY <2>1, <2>2
<1>7. CASE UNCHANGED <<batch, pending, dropped>>
  <2>1. attempts' \in 0 .. (MaxAttempts - 1)
    BY <1>7 DEF Retried, WriteFails, FailedAttempt, AnalyticsInv, TypeOK
  <2>2. OnePlace' /\ Tally' BY <1>1, <1>2, <1>7, EventsRest
  <2>3. TypeOK' BY <1>1, <1>2, <1>3, <1>7, <2>1 DEF AnalyticsInv, TypeOK
  <2> QED BY <1>4, <1>5, <1>6, <2>2, <2>3 DEF AnalyticsInv
<1>8. CASE ~UNCHANGED <<batch, pending, dropped>>
  <2>1. dropped' = dropped + Len(batch) /\ pending' = pending - Len(batch) /\ batch' = <<>> /\ attempts' = 0
    BY <1>8 DEF Retried, WriteFails, FailedAttempt
  <2>2. OnePlace' /\ Tally' /\ pending' \in Nat /\ dropped' \in Nat
    BY <1>1, <1>2, <2>1, BatchGone
  <2>3. batch' \in Seq(Event) /\ Len(batch') = 0 BY <2>1
  <2>4. TypeOK' BY <1>1, <1>2, <1>3, <2>1, <2>2, <2>3 DEF AnalyticsInv, TypeOK
  <2> QED BY <1>4, <1>5, <1>6, <2>2, <2>4 DEF AnalyticsInv
<1> QED BY <1>7, <1>8

\* A written batch settles its events.
LEMMA WriteInv ==
  ASSUME AnalyticsInv, WriteBatch
  PROVE  AnalyticsInv'
<1>1. /\ UNCHANGED <<rec, queue, taken, dropped, connected, ret, closer, now>>
      /\ wpc = "write" /\ wpc' = "maintain" /\ rounds' = 0 /\ attempts' = 0 /\ batch' = <<>>
      /\ pending' = pending - Len(batch) /\ settled' = settled \cup {e.id : e \in Elements(batch)}
      /\ rows' = rows \cup {e \in Elements(batch) : ~Expired(e)}
  BY DEF WriteBatch, caller
<1>2. OnePlace' /\ Tally' /\ pending' \in Nat /\ dropped' \in Nat /\ settled' \subseteq EventIds
  BY <1>1, BatchGone
<1>3. IsFiniteSet(rows') /\ rows' \subseteq Event BY <1>1, RowsFinite
<1>4. batch' \in Seq(Event) /\ Len(batch') = 0 BY <1>1
<1>5. TypeOK' BY <1>1, <1>2, <1>3, <1>4 DEF AnalyticsInv, TypeOK
<1>6. Sound' BY <1>1, <1>3 DEF AnalyticsInv, Sound, Busy
<1>7. Stands' BY <1>1 DEF AnalyticsInv, Stands, TypeOK
<1>8. ShutdownDrains' BY <1>1 DEF ShutdownDrains
<1> QED BY <1>2, <1>5, <1>6, <1>7, <1>8 DEF AnalyticsInv

\* What is left in the end is counted as dropped; only busy calls are not.
LEMMA FinishInv ==
  ASSUME AnalyticsInv, Finish
  PROVE  AnalyticsInv'
<1>1. /\ UNCHANGED <<rec, queue, batch, taken, attempts, rows, ret, rounds, settled, closer, now>>
      /\ wpc = "finish" /\ wpc' = "done" /\ connected' = FALSE
      /\ dropped' = dropped + Len(batch) + Len(queue)
      /\ pending' = pending - (Len(batch) + Len(queue))
  BY DEF Finish, caller
<1>2. /\ Checked \in Nat /\ Counted \in Nat /\ Cardinality(Recorders) \in Nat
      /\ Checked + Counted <= Cardinality(Recorders)
      /\ Len(queue) \in Nat /\ Len(batch) \in Nat /\ dropped \in Nat /\ pending \in Nat
      /\ Cardinality(taken) \in Nat /\ Cardinality(settled) \in Nat
  BY Sizes DEF AnalyticsInv, TypeOK
<1>3. pending = Len(queue) + Len(batch) + Counted
      /\ Unsettled = Len(queue) + Len(batch) + Checked + Counted
  BY <1>1 DEF AnalyticsInv, Tally, Waiting
<1>4. pending' = Counted /\ pending' \in Nat /\ dropped' \in Nat BY <1>1, <1>2, <1>3
<1>5. Unsettled' = Checked + Counted
  <2>1. Unsettled' = Unsettled - (Len(batch) + Len(queue)) BY <1>1, <1>2 DEF Unsettled
  <2> QED BY <1>2, <1>3, <2>1
<1>6. Tally' BY <1>1, <1>2, <1>4, <1>5, CallersRest DEF Tally
<1>7. OnePlace' BY <1>1, CallersRest DEF AnalyticsInv, OnePlace
<1>8. TypeOK' BY <1>1, <1>4 DEF AnalyticsInv, TypeOK
<1>9. Sound' /\ Stands' /\ ShutdownDrains'
  BY <1>1 DEF AnalyticsInv, Sound, Busy, Stands, ShutdownDrains
<1> QED BY <1>6, <1>7, <1>8, <1>9 DEF AnalyticsInv

-----------------------------------------------------------------------------
\* The recorder keeps the inductive invariant, through every interleaving of
\* Record, the worker, a failing database and Close.
THEOREM AnalyticsInvariance == Spec => []AnalyticsInv
<1>1. Init => AnalyticsInv
  <2> SUFFICES ASSUME Init PROVE AnalyticsInv OBVIOUS
  <2>1. Callers("checked") = {} /\ Callers("counted") = {} BY DEF Init, Callers
  <2>2. Checked = 0 /\ Counted = 0 /\ Cardinality(taken) = 0 /\ Cardinality(settled) = 0
    BY <2>1, FS_EmptySet DEF Checked, Counted, Init
  <2>3. connected \in BOOLEAN BY Zenon DEF Init
  <2>4. queue = <<>> /\ batch = <<>> /\ Len(queue) = 0 /\ Len(batch) = 0 BY DEF Init
  <2>5. TypeOK BY <2>3, <2>4 DEF Init, TypeOK
  <2>6. Sound BY FS_EmptySet DEF Init, Sound, Busy
  <2>7. OnePlace BY <2>4 DEF Init, OnePlace, Busy
  <2>8. Tally BY <2>2, <2>4 DEF Init, Tally, Waiting, Unsettled
  <2>9. Stands /\ ShutdownDrains BY DEF Init, Stands, ShutdownDrains
  <2> QED BY <2>5, <2>6, <2>7, <2>8, <2>9 DEF AnalyticsInv
<1>2. AnalyticsInv /\ [Next]_vars => AnalyticsInv'
  <2> SUFFICES ASSUME AnalyticsInv, [Next]_vars PROVE AnalyticsInv' OBVIOUS
  <2>1. CASE \E r \in Recorders : Record(r) BY <2>1, RecordInv
  <2>2. CASE Quiet BY <2>2, QuietInv
  <2>3. CASE Take \/ Fill BY <2>3, TakeInv
  <2>4. CASE Retried \/ WriteFails BY <2>4, FailInv
  <2>5. CASE WriteBatch BY <2>5, WriteInv
  <2>6. CASE Finish BY <2>6, FinishInv
  <2>7. CASE UNCHANGED vars
    <3>1. UNCHANGED <<rec, queue, batch, pending, dropped, attempts, connected, rows, wpc, ret,
                      rounds, closer, now, taken, settled>>
      BY <2>7 DEF vars
    <3>2. OnePlace' /\ Tally' BY <3>1, EventsRest
    <3>3. TypeOK' BY <3>1 DEF AnalyticsInv, TypeOK
    <3>4. Sound' /\ Stands' BY <3>1 DEF AnalyticsInv, Sound, Busy, Stands
    <3>5. ShutdownDrains' BY <3>1 DEF AnalyticsInv, ShutdownDrains, Callers
    <3> QED BY <3>2, <3>3, <3>4, <3>5 DEF AnalyticsInv
  <2> QED BY <2>1, <2>2, <2>3, <2>4, <2>5, <2>6, <2>7 DEF Next, Select, Step, Quiet
<1> QED BY <1>1, <1>2, PTL DEF Spec

\* Channel, batch and attempts stay within their limits, for every caller and
\* every behaviour of the database.
THEOREM AnalyticsTyping == Spec => []TypeOK
BY AnalyticsInvariance, PTL DEF AnalyticsInv

\* The counter behind the ingestion lag is exact until the worker is done, and
\* off by no more than the overtaken calls afterwards.
THEOREM LagExact == Spec => []PendingExact
<1>1. AnalyticsInv => PendingExact
  <2> SUFFICES ASSUME AnalyticsInv PROVE PendingExact OBVIOUS
  <2>1. Checked \in Nat /\ Counted \in Nat /\ Cardinality(Recorders) \in Nat /\ pending \in Nat
    BY Sizes DEF AnalyticsInv, TypeOK
  <2>2. CASE wpc # "done" BY <2>2 DEF AnalyticsInv, Tally, PendingExact, Counted
  <2>3. CASE wpc = "done"
    <3>1. pending <= Cardinality(Recorders) BY <2>1, <2>3 DEF AnalyticsInv, Tally
    <3> QED BY <2>1, <2>3, <3>1 DEF PendingExact
  <2> QED BY <2>2, <2>3
<1> QED BY <1>1, AnalyticsInvariance, PTL

\* No event Record took is lost or counted twice: it is written, dropped and
\* counted, or on its way.
THEOREM EventsAccounted == Spec => []Accounted
<1>1. AnalyticsInv => Accounted
  <2> SUFFICES ASSUME AnalyticsInv PROVE Accounted OBVIOUS
  <2>1. /\ Checked \in Nat /\ Counted \in Nat /\ Cardinality(Recorders) \in Nat
        /\ Cardinality(taken) \in Nat /\ Cardinality(settled) \in Nat /\ dropped \in Nat
    BY Sizes DEF AnalyticsInv, TypeOK
  <2>2. CASE wpc # "done" BY <2>2 DEF AnalyticsInv, Tally, Accounted, Checked, Counted, Unsettled
  <2>3. CASE wpc = "done"
    <3>1. Unsettled \in Int BY <2>1 DEF Unsettled
    <3>2. Unsettled \in 0 .. Cardinality(Recorders) BY <2>1, <2>3, <3>1 DEF AnalyticsInv, Tally
    <3> QED BY <2>3, <3>2 DEF Accounted, Unsettled
  <2> QED BY <2>2, <2>3
<1> QED BY <1>1, AnalyticsInvariance, PTL

\* The worker leaves a healthy database only with nothing left to write but
\* what calls that Close overtook have sent since.
THEOREM DrainsOnShutdown == Spec => []ShutdownDrains
BY AnalyticsInvariance, PTL DEF AnalyticsInv

\* Storage pressure evicts by age, across the three tables and in batches of
\* any size.
THEOREM OldestGoFirst == Spec => EvictionOldestFirst
<1>1. AnalyticsInv /\ [Next]_vars =>
        [\A e \in rows \ rows' : Expired(e) \/ \A f \in rows' \cap rows : Older(e, f)]_vars
  <2> SUFFICES ASSUME AnalyticsInv, Next, NEW e \in rows \ rows', ~Expired(e), NEW f \in rows' \cap rows
               PROVE  Older(e, f)
    OBVIOUS
  <2>1. Evict
    BY DEF Next, Record, Select, Step, Check, Count, Send, Overflow, Take, Flush, Retry, CleanupTick,
       StopSeen, Retried, WriteNothing, WriteBatch, WriteFails, Open, OpenFails, Prune, PruneFails,
       MaintainDone, MaintainFails, Drain, Fill, Finish, Close, CloseStop, CloseReturn, Tick, worker
  <2>2. rows' = rows \ OldestRows BY <2>1 DEF Evict
  <2> DEFINE before(x) == {g \in rows : Older(g, x)}
  <2>3. Cardinality(before(e)) < EvictBatch /\ ~(Cardinality(before(f)) < EvictBatch)
    BY <2>2 DEF OldestRows
  <2>4. IsFiniteSet(rows) /\ rows \subseteq Event BY DEF AnalyticsInv, Sound, TypeOK
  <2>5. \A g \in rows : g.id \in Nat /\ g.ts \in Nat
    <3>1. \A g \in Event : g.id \in EventIds /\ g.ts \in 0 .. MaxTime BY DEF Event
    <3>2. \A t \in 0 .. MaxTime : t \in Nat OBVIOUS
    <3>3. EventIds \subseteq Nat OBVIOUS
    <3> QED BY ONLY <2>4, <3>1, <3>2, <3>3
  <2>6. Older(e, f) \/ Older(f, e)
    <3>1. e # f OBVIOUS
    <3>2. e.id # f.id \/ e.ts # f.ts BY <2>4, <3>1 DEF Event
    <3> QED BY <2>5, <3>2 DEF Older
  <2>7. ASSUME Older(f, e) PROVE FALSE
    <3>1. before(f) \subseteq before(e) BY <2>5, <2>7 DEF Older
    <3>2. before(e) \in SUBSET rows OBVIOUS
    <3>3. IsFiniteSet(before(e)) BY <2>4, <3>2, FS_Subset
    <3>4. before(f) \in SUBSET before(e) BY <3>1
    <3> HIDE DEF before
    <3>5. Cardinality(before(f)) <= Cardinality(before(e)) /\ IsFiniteSet(before(f))
      BY <3>3, <3>4, FS_Subset
    <3>6. Cardinality(before(f)) \in Nat /\ Cardinality(before(e)) \in Nat
      BY <3>3, <3>5, FS_CardinalityType
    <3> QED BY <2>3, <3>5, <3>6
  <2> QED BY <2>6, <2>7
<1> QED BY <1>1, AnalyticsInvariance, PTL DEF Spec, EvictionOldestFirst
=============================================================================
