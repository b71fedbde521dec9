------------------------------ MODULE Analytics ------------------------------
(***************************************************************************)
(* The analytics recorder (internal/app/analytics.go): SMTP and HTTP       *)
(* handlers call Record, which never waits; one worker goroutine moves     *)
(* events from a bounded channel into batches and writes them to its own   *)
(* database, which may fail at any call; Close lets the worker drain the   *)
(* channel.  Counters that are only displayed (WriteErrors, LagSeconds,    *)
(* StorageBytes and the like) are left out, and an event is its id and its *)
(* timestamp: callers pass only the three known kinds.                     *)
(***************************************************************************)
EXTENDS Integers, FiniteSets, Sequences

CONSTANTS
  EventIds,     \* ids of events, in the order of "ORDER BY timestamp, id"
  Recorders,    \* goroutines that call Record
  QueueSize,    \* analyticsQueueSize
  BatchSize,    \* analyticsBatchSize
  MaxAttempts,  \* analyticsMaxAttempts
  EventTTL,     \* cfg.AnalyticsEventTTL
  MaxStorage,   \* cfg.AnalyticsMaxStorageBytes, in rows
  WalSizes,     \* what the write-ahead log may add to the usage, in rows
  EvictBatch,   \* rows deleted per round of maintain (256)
  MaxRounds,    \* rounds per call of maintain (32)
  MaxTime       \* bound on the clock

ASSUME AnalyticsAssumption ==
  /\ EventIds \subseteq Nat /\ IsFiniteSet(EventIds) /\ IsFiniteSet(Recorders)
  /\ QueueSize \in Nat \ {0} /\ BatchSize \in Nat \ {0} /\ MaxAttempts \in Nat \ {0}
  /\ EventTTL \in Nat /\ MaxStorage \in Nat /\ WalSizes \subseteq Nat
  /\ EvictBatch \in Nat \ {0} /\ MaxRounds \in Nat \ {0} /\ MaxTime \in Nat

Event == [id : EventIds, ts : 0 .. MaxTime]
NoEvent == [id |-> 0, ts |-> 0]

VARIABLES
  rec,        \* a call of Record: "idle", "checked" (not closed) or "counted"
  queue,      \* the channel
  batch,      \* the worker's batch
  pending,    \* the atomic counter behind the ingestion lag
  dropped,    \* status.DroppedEvents
  attempts,   \* failed attempts on the batch
  connected,  \* a.db # nil
  rows,       \* the three tables of analytics.db
  wpc, ret,   \* what the worker does next, and where write or open returns to
  rounds,     \* rounds of the current maintain
  closer,     \* Close: "open", "closed", "stopped" or "returned"
  now,
  taken,      \* history: ids of events Record did not turn away
  settled     \* history: ids of events of successfully written batches

caller == <<rec, taken>>
worker == <<batch, attempts, connected, rows, wpc, ret, rounds, settled>>
vars == <<rec, queue, batch, pending, dropped, attempts, connected, rows, wpc, ret,
          rounds, closer, now, taken, settled>>

-----------------------------------------------------------------------------
(* Record.  Close may run between the check of a.closed and the send.       *)

Check(r) ==
  /\ closer = "open" /\ rec[r].st = "idle"
  /\ \E i \in EventIds \ taken, t \in 0 .. now :
       /\ rec' = [rec EXCEPT ![r] = [st |-> "checked", ev |-> [id |-> i, ts |-> t]]]
       /\ taken' = taken \cup {i}
  /\ UNCHANGED <<queue, pending, dropped, worker, closer, now>>

Count(r) ==
  /\ rec[r].st = "checked" /\ rec' = [rec EXCEPT ![r].st = "counted"]
  /\ pending' = pending + 1
  /\ UNCHANGED <<queue, dropped, taken, worker, closer, now>>

Idle(r) == rec' = [rec EXCEPT ![r] = [st |-> "idle", ev |-> NoEvent]]

Send(r) ==
  /\ rec[r].st = "counted" /\ Len(queue) < QueueSize
  /\ queue' = Append(queue, rec[r].ev) /\ Idle(r)
  /\ UNCHANGED <<pending, dropped, taken, worker, closer, now>>

\* Mutant: a full channel is counted as dropped, but stays pending.
OverflowStaysPending(r) ==
  /\ rec[r].st = "counted" /\ Len(queue) = QueueSize
  /\ dropped' = dropped + 1 /\ Idle(r)
  /\ UNCHANGED <<queue, pending, taken, worker, closer, now>>

Overflow(r) ==
  /\ rec[r].st = "counted" /\ Len(queue) = QueueSize
  /\ pending' = pending - 1 /\ dropped' = dropped + 1 /\ Idle(r)
  /\ UNCHANGED <<queue, taken, worker, closer, now>>

-----------------------------------------------------------------------------
(* Close.                                                                   *)

Close ==
  /\ closer = "open" /\ closer' = "closed"
  /\ UNCHANGED <<caller, queue, pending, dropped, worker, now>>

CloseStop ==
  /\ closer = "closed" /\ closer' = "stopped"
  /\ UNCHANGED <<caller, queue, pending, dropped, worker, now>>

CloseReturn ==
  /\ closer = "stopped" /\ wpc = "done" /\ closer' = "returned"
  /\ UNCHANGED <<caller, queue, pending, dropped, worker, now>>

-----------------------------------------------------------------------------
(* run: the select loop.                                                    *)

Goto(to, back) == wpc' = to /\ ret' = back

\* Mutant: a full batch does not close the input.
HasRoomAlways == TRUE

HasRoom == Len(batch) < BatchSize

Take ==
  /\ wpc = "select" /\ HasRoom /\ queue # <<>>
  /\ batch' = Append(batch, Head(queue)) /\ queue' = Tail(queue)
  /\ Goto(IF Len(batch') = BatchSize THEN "write" ELSE "select", "select")
  /\ UNCHANGED <<caller, pending, dropped, attempts, connected, rows, rounds, settled, closer, now>>

Flush ==
  /\ wpc = "select" /\ Goto("write", "select")
  /\ UNCHANGED <<caller, queue, batch, pending, dropped, attempts, connected, rows, rounds,
                 settled, closer, now>>

Retry ==
  /\ wpc = "select"
  /\ IF connected THEN Goto("write", "select") ELSE Goto("open", "retried")
  /\ UNCHANGED <<caller, queue, batch, pending, dropped, attempts, connected, rows, rounds,
                 settled, closer, now>>

CleanupTick ==
  /\ wpc = "select" /\ connected /\ Goto("prune", "select")
  /\ UNCHANGED <<caller, queue, batch, pending, dropped, attempts, connected, rows, rounds,
                 settled, closer, now>>

StopSeen ==
  /\ wpc = "select" /\ closer \in {"stopped", "returned"} /\ Goto("write", "drain")
  /\ UNCHANGED <<caller, queue, batch, pending, dropped, attempts, connected, rows, rounds,
                 settled, closer, now>>

\* One more failed attempt; the last one drops the batch.
FailedAttempt ==
  IF attempts + 1 >= MaxAttempts
  THEN /\ dropped' = dropped + Len(batch) /\ pending' = pending - Len(batch)
       /\ batch' = <<>> /\ attempts' = 0
  ELSE attempts' = attempts + 1 /\ UNCHANGED <<dropped, pending, batch>>

\* Mutant: a database that stays away does not use up attempts.
RetriedForever ==
  /\ wpc = "retried" /\ Goto("write", "select")
  /\ UNCHANGED <<caller, queue, batch, pending, dropped, attempts, connected, rows, rounds,
                 settled, closer, now>>

Retried ==
  /\ wpc = "retried"
  /\ IF ~connected /\ batch # <<>>
     THEN FailedAttempt /\ Goto("select", "select")
     ELSE Goto("write", "select") /\ UNCHANGED <<batch, pending, dropped, attempts>>
  /\ UNCHANGED <<caller, queue, connected, rows, rounds, settled, closer, now>>

-----------------------------------------------------------------------------
(* write and writeBatch: one transaction; an error rolls it back.           *)

Expired(e) == e.ts + EventTTL < now
Elements(s) == {s[k] : k \in DOMAIN s}

WriteNothing ==
  /\ wpc = "write" /\ (batch = <<>> \/ ~connected) /\ wpc' = ret
  /\ UNCHANGED <<caller, queue, batch, pending, dropped, attempts, connected, rows, ret,
                 rounds, settled, closer, now>>

WriteBatch ==
  /\ wpc = "write" /\ batch # <<>> /\ connected
  /\ rows' = rows \cup {e \in Elements(batch) : ~Expired(e)}
  /\ settled' = settled \cup {e.id : e \in Elements(batch)}
  /\ pending' = pending - Len(batch) /\ batch' = <<>> /\ attempts' = 0
  /\ wpc' = "maintain" /\ rounds' = 0
  /\ UNCHANGED <<caller, queue, dropped, connected, ret, closer, now>>

\* Mutant: the batch is dropped and kept for another try.
WriteFailsKeepingBatch ==
  /\ wpc = "write" /\ batch # <<>> /\ connected
  /\ dropped' = dropped + Len(batch) /\ attempts' = 0
  /\ connected' = FALSE /\ wpc' = ret
  /\ UNCHANGED <<caller, queue, batch, pending, rows, ret, rounds, settled, closer, now>>

WriteFails ==
  /\ wpc = "write" /\ batch # <<>> /\ connected
  /\ FailedAttempt /\ connected' = FALSE /\ wpc' = ret
  /\ UNCHANGED <<caller, queue, rows, ret, rounds, settled, closer, now>>

-----------------------------------------------------------------------------
(* open, prune and maintain.                                                *)

Open ==
  /\ wpc = "open" /\ connected' = TRUE /\ wpc' = "prune"
  /\ UNCHANGED <<caller, queue, batch, pending, dropped, attempts, rows, ret, rounds,
                 settled, closer, now>>

OpenFails ==
  /\ wpc = "open" /\ wpc' = ret
  /\ UNCHANGED <<caller, queue, batch, pending, dropped, attempts, connected, rows, ret,
                 rounds, settled, closer, now>>

Prune ==
  /\ wpc = "prune"
  /\ rows' = {e \in rows : ~Expired(e)}
  /\ wpc' = "maintain" /\ rounds' = 0
  /\ UNCHANGED <<caller, queue, batch, pending, dropped, attempts, connected, ret, settled,
                 closer, now>>

\* Some of the three tables may have been pruned by then.
PruneFails ==
  /\ wpc = "prune"
  /\ \E gone \in SUBSET {e \in rows : Expired(e)} : rows' = rows \ gone
  /\ connected' = FALSE /\ wpc' = ret
  /\ UNCHANGED <<caller, queue, batch, pending, dropped, attempts, ret, rounds, settled,
                 closer, now>>

\* usage: live pages plus the write-ahead log, which readers may pin.
OverBudget(wal) == Cardinality(rows) + wal > MaxStorage

Older(e, f) == e.ts < f.ts \/ (e.ts = f.ts /\ e.id < f.id)

\* Mutant: table by table instead of by time.
OldestRowsById == {e \in rows : Cardinality({f \in rows : f.id < e.id}) < EvictBatch}

OldestRows == {e \in rows : Cardinality({f \in rows : Older(f, e)}) < EvictBatch}

Evict ==
  /\ wpc = "maintain" /\ rounds < MaxRounds /\ \E wal \in WalSizes : OverBudget(wal)
  /\ rows' = rows \ OldestRows /\ rounds' = rounds + 1
  /\ wpc' = IF rows = {} THEN ret ELSE "maintain"
  /\ UNCHANGED <<caller, queue, batch, pending, dropped, attempts, connected, ret, settled,
                 closer, now>>

MaintainDone ==
  /\ wpc = "maintain" /\ (rounds = MaxRounds \/ \E wal \in WalSizes : ~OverBudget(wal))
  /\ wpc' = ret
  /\ UNCHANGED <<caller, queue, batch, pending, dropped, attempts, connected, rows, ret,
                 rounds, settled, closer, now>>

MaintainFails ==
  /\ wpc = "maintain" /\ connected' = FALSE /\ wpc' = ret
  /\ UNCHANGED <<caller, queue, batch, pending, dropped, attempts, rows, ret, rounds,
                 settled, closer, now>>

-----------------------------------------------------------------------------
(* run: the drain after stop, while the database answers.                   *)

\* Mutant: one batch is enough.
DrainOnce ==
  /\ wpc = "drain" /\ wpc' = "finish"
  /\ UNCHANGED <<caller, queue, batch, pending, dropped, attempts, connected, rows, ret,
                 rounds, settled, closer, now>>

\* Mutant: drains on although the database is gone.
DrainWhileQueued ==
  /\ wpc = "drain"
  /\ wpc' = IF queue # <<>> THEN "fill" ELSE "finish"
  /\ UNCHANGED <<caller, queue, batch, pending, dropped, attempts, connected, rows, ret,
                 rounds, settled, closer, now>>

Drain ==
  /\ wpc = "drain"
  /\ wpc' = IF queue # <<>> /\ connected THEN "fill" ELSE "finish"
  /\ UNCHANGED <<caller, queue, batch, pending, dropped, attempts, connected, rows, ret,
                 rounds, settled, closer, now>>

Fill ==
  /\ wpc = "fill"
  /\ IF HasRoom /\ queue # <<>>
     THEN /\ batch' = Append(batch, Head(queue)) /\ queue' = Tail(queue)
          /\ UNCHANGED <<wpc, ret>>
     ELSE Goto("write", "drain") /\ UNCHANGED <<batch, queue>>
  /\ UNCHANGED <<caller, pending, dropped, attempts, connected, rows, rounds, settled,
                 closer, now>>

\* What is left is dropped, though it stays in the channel.  The deferred
\* disconnect runs before done is closed.
Finish ==
  /\ wpc = "finish" /\ wpc' = "done"
  /\ dropped' = dropped + Len(batch) + Len(queue)
  /\ pending' = pending - (Len(batch) + Len(queue))
  /\ connected' = FALSE
  /\ UNCHANGED <<caller, queue, batch, attempts, rows, ret, rounds, settled, closer, now>>

Tick == now < MaxTime /\ now' = now + 1
        /\ UNCHANGED <<caller, queue, pending, dropped, worker, closer>>

-----------------------------------------------------------------------------
\* OpenAnalytics has called open, with either outcome, before run starts.
Init ==
  /\ rec = [r \in Recorders |-> [st |-> "idle", ev |-> NoEvent]]
  /\ queue = <<>> /\ batch = <<>> /\ pending = 0 /\ dropped = 0 /\ attempts = 0
  /\ connected \in BOOLEAN /\ rows = {}
  /\ wpc = "select" /\ ret = "select" /\ rounds = 0
  /\ closer = "open" /\ now = 0 /\ taken = {} /\ settled = {}

Record(r) == Check(r) \/ Count(r) \/ Send(r) \/ Overflow(r)
Select == Take \/ Flush \/ Retry \/ CleanupTick \/ StopSeen
Step == \/ Retried \/ WriteNothing \/ WriteBatch \/ WriteFails \/ Open \/ OpenFails
        \/ Prune \/ PruneFails \/ Evict \/ MaintainDone \/ MaintainFails
        \/ Drain \/ Fill \/ Finish

Next == \/ \E r \in Recorders : Record(r)
        \/ Select \/ Step
        \/ Close \/ CloseStop \/ CloseReturn \/ Tick

Spec == Init /\ [][Next]_vars

\* Goroutines run on; select picks uniformly among ready cases, so a case
\* that is ready again and again is taken (SF).
FairSpec ==
  /\ Spec
  /\ \A r \in Recorders : WF_vars(Count(r) \/ Send(r) \/ Overflow(r))
  /\ WF_vars(Step) /\ WF_vars(CloseStop) /\ WF_vars(CloseReturn)
  /\ SF_vars(Take) /\ SF_vars(Flush) /\ SF_vars(Retry) /\ SF_vars(StopSeen)

-----------------------------------------------------------------------------
(* Properties.                                                              *)

Callers(st) == {r \in Recorders : rec[r].st = st}
Waiting == Len(queue) + Len(batch)

\* Every variable stays in its type; the batch and the channel stay within
\* their limits whatever the database does ("The queue then overflows
\* predictably instead of growing a second unbounded buffer", analytics.go).
TypeOK ==
  /\ rec \in [Recorders -> [st : {"idle", "checked", "counted"}, ev : Event \cup {NoEvent}]]
  /\ queue \in Seq(Event) /\ Len(queue) <= QueueSize
  /\ batch \in Seq(Event) /\ Len(batch) <= BatchSize
  /\ pending \in Nat /\ dropped \in Nat /\ attempts \in 0 .. (MaxAttempts - 1)
  /\ connected \in BOOLEAN /\ rows \subseteq Event
  /\ wpc \in {"select", "write", "open", "retried", "prune", "maintain", "drain", "fill",
              "finish", "done"}
  /\ ret \in {"select", "retried", "drain"} /\ rounds \in 0 .. MaxRounds
  /\ closer \in {"open", "closed", "stopped", "returned"} /\ now \in 0 .. MaxTime
  /\ taken \subseteq EventIds /\ settled \subseteq EventIds

\* The counter behind the ingestion lag is the number of events not yet
\* written or dropped, so it returns to 0 and the lag with it; after Close it
\* is off by no more than the calls of Record that Close overtook.
PendingExact ==
  IF wpc # "done" THEN pending = Waiting + Cardinality(Callers("counted"))
                  ELSE pending \in 0 .. Cardinality(Recorders)

\* Every event Record takes is written, counted as dropped, or still on its
\* way: a failed batch is neither lost nor counted twice.  Only the calls
\* that Close overtook may go uncounted, one for each caller.
Accounted ==
  LET unsettled == Cardinality(taken) - Cardinality(settled) - dropped
  IN  IF wpc # "done"
      THEN unsettled = Waiting + Cardinality(Callers("checked")) + Cardinality(Callers("counted"))
      ELSE unsettled \in 0 .. Cardinality(Recorders)

\* "Drain the bounded queue on shutdown while the database is healthy": the
\* worker gives up on a healthy database with an empty batch, and with no
\* more in the channel than what calls that Close overtook have sent, one for
\* each caller.
ShutdownDrains ==
  wpc = "finish" /\ connected =>
    /\ batch = <<>>
    /\ Len(queue) + Cardinality(Callers("checked")) + Cardinality(Callers("counted"))
         <= Cardinality(Recorders)

\* "Cleanup removes expired events and evicts the oldest retained events
\* under storage pressure": an event that has not expired goes only when no
\* older one stays.
EvictionOldestFirst ==
  [][\A e \in rows \ rows' : Expired(e) \/ \A f \in rows' \cap rows : Older(e, f)]_vars

\* Close returns whatever the database does.
CloseReturns == (closer = "stopped") ~> (closer = "returned")

\* No event waits forever, though the database may never come back: it is
\* written, or dropped after a bounded number of attempts.  Events are
\* finitely many here, so every one settles if and only if in the end none
\* waits.
EventsSettle == <>[](Waiting = 0 \/ wpc = "done")
=============================================================================
