------------------------------ MODULE MailStore ------------------------------
(***************************************************************************)
(* The message store of tmpmail (internal/app/store.go): a directory of    *)
(* raw message files and an SQLite database with three tables,             *)
(*   messages            one row per recipient of an accepted delivery,    *)
(*   blobs               one row per raw file, with its reference count,   *)
(*   pending_deletions   the durable queue of files still to be unlinked.  *)
(* Save, Cleanup and start-up run under the writer mutex and are modelled  *)
(* one I/O call at a time, so that every call may fail, the process may    *)
(* stop between any two of them, the machine may lose power, and a reader  *)
(* (GetContext, which takes no lock) may run in between.                   *)
(*                                                                         *)
(* A blob id and its path name each other (path = msgDir/id.eml), so one   *)
(* number stands for both; numbers give the order of "ORDER BY path", and  *)
(* 0 is the empty cursor "".  A path that newID or CreateTemp generates is *)
(* one that nothing in the state mentions: the names are 128 random bits.  *)
(***************************************************************************)
EXTENDS Integers, FiniteSets, Sequences

CONSTANTS
  BlobPaths,         \* names of raw message files (<id>.eml)
  TmpPaths,          \* names of staging files (.incoming-*)
  Locals,            \* local parts of recipient addresses
  Deliveries,        \* what SMTP sessions pass to Save: [rcpts, size]
  Readers,           \* concurrent HTTP requests that read mail
  LegacyMail,        \* messages of a pre-dedup database, [] if there is none
  MaxMessageBytes,   \* cfg.MaxMessageBytes
  MaxStorageBytes,   \* cfg.MaxStorageBytes
  MessageTTL,        \* cfg.MessageTTL
  CleanupBatchSize,  \* cleanupBatchSize
  PageSize,          \* defaultPageSize, or the limit a client asks for
  MaxTime,           \* bound on the clock
  MaxRowid,          \* bound on SQLite row numbers: deliveries in a row
  PowerMayFail,      \* whether power losses are considered
  StatMayFail,       \* whether the os.Stat of a staging file may fail
  ClockMayStepBack   \* whether the wall clock may move back

Paths == BlobPaths \cup TmpPaths
Domains == {"MAIL.TEST", "mail.test"}
Address == [local : Locals, domain : Domains]
\* A message id, unique like a path: newID draws one per recipient of a blob.
MessageIds == BlobPaths \X Address

\* A row of the messages table; blob stands for the path column of a legacy
\* database.
Row == [rcpt : Address, blob : BlobPaths, size : Nat, received : Nat,
        expires : Nat, rowid : Nat]

ASSUME ConstantsAssumption ==
  /\ BlobPaths \subseteq Nat \ {0}
  /\ TmpPaths \subseteq Nat \ {0}
  /\ BlobPaths \cap TmpPaths = {}
  /\ Deliveries \subseteq [rcpts : Seq(Address), size : Nat]
  /\ MaxMessageBytes \in Nat
  /\ MaxStorageBytes \in Nat
  /\ MessageTTL \in Nat
  /\ CleanupBatchSize \in Nat \ {0}
  /\ PageSize \in Nat \ {0}
  /\ MaxTime \in Nat
  /\ MaxRowid \in Nat
  /\ PowerMayFail \in BOOLEAN
  /\ StatMayFail \in BOOLEAN
  /\ ClockMayStepBack \in BOOLEAN

\* A legacy database keeps one file per message.
ASSUME LegacyAssumption ==
  /\ IsFiniteSet(DOMAIN LegacyMail) /\ LegacyMail \in [DOMAIN LegacyMail -> Row]
  /\ \A i \in DOMAIN LegacyMail :
       /\ i = <<LegacyMail[i].blob, LegacyMail[i].rcpt>>
       /\ \A j \in DOMAIN LegacyMail :
            LegacyMail[i].blob = LegacyMail[j].blob => i = j

VARIABLES
  db,              \* the committed database
  tx,              \* the open transaction's view of it
  files,           \* message directory as the kernel shows it: path -> size
  durable,         \* message directory as of the last directory sync
  storedBytes, storedMessages, storageFault, pendingCursor,  \* Store fields
  mode,            \* the process: "down", "starting" or "serving"
  exit,            \* why the last start-up gave up
  pc,              \* what the holder of writeMu does next; "free": no holder
  sv,              \* locals of Save
  dr,              \* locals of drainPendingLocked
  cl,              \* locals of Cleanup
  reader,          \* locals of the HTTP handlers and GetContext
  now              \* time.Now().Unix()

mem  == <<storedBytes, storedMessages, storageFault, pendingCursor>>
disk == <<files, durable>>
proc == <<mode, exit>>
env  == <<reader, now>>
vars == <<db, tx, files, durable, storedBytes, storedMessages, storageFault,
          pendingCursor, mode, exit, pc, sv, dr, cl, reader, now>>

-----------------------------------------------------------------------------
(* Tables and directories are functions; their bytes are counted as pairs.  *)

Put(f, x, v) == [y \in DOMAIN f \cup {x} |-> IF y = x THEN v ELSE f[y]]
Without(f, S) == [y \in DOMAIN f \ S |-> f[y]]
Only(f, S) == [y \in DOMAIN f \cap S |-> f[y]]
Bytes(f) == Cardinality(UNION {{x} \X (1 .. f[x]) : x \in DOMAIN f})

Empty == [x \in {} |-> 0]
EmptyDB == [legacy |-> FALSE, messages |-> Empty, blobs |-> Empty,
            refs |-> Empty, pending |-> Empty]

NoSave == [rank |-> Empty, size |-> 0, blob |-> 0, tmp |-> 0, received |-> 0,
           before |-> 0, projected |-> 0, deleted |-> 0, drop |-> 0,
           err |-> FALSE]
NoDrain == [ret |-> "none", cursor |-> 0, batch |-> {}, removed |-> {},
            err |-> "none"]
NoCleanup == [active |-> FALSE, before |-> 0, todo |-> {}, count |-> 0]
NoReader == [st |-> "idle", id |-> <<0, 0>>, path |-> 0, size |-> 0]

\* The files of messages that share none.
FileSizes(m) == [p \in {m[i].blob : i \in DOMAIN m} |->
                   (CHOOSE r \in {m[i] : i \in DOMAIN m} : r.blob = p).size]

\* smtp.go, normalizeRecipient: only the domain is folded to lower case.
normalizeRecipient(a) == [a EXCEPT !.domain = "mail.test"]

\* Save lists every normalized recipient once, where it first occurs.
Recipients(list) == {normalizeRecipient(list[k]) : k \in DOMAIN list}
FirstAt(list, r, k) == /\ normalizeRecipient(list[k]) = r
                       /\ \A j \in 1 .. (k - 1) : normalizeRecipient(list[j]) # r
Rank(list) ==
  [r \in Recipients(list) |->
     Cardinality({q \in Recipients(list) :
       \E j, k \in DOMAIN list : FirstAt(list, q, j) /\ FirstAt(list, r, k) /\ j <= k})]

Charged(d) == Bytes(d.blobs) + Bytes(d.pending)

\* One message fewer; with the last reference the file moves to the unlink
\* queue.  The INSERT would fail on a path already queued.
CanDelete(d, i) == LET b == d.messages[i].blob
                   IN  b \in DOMAIN d.blobs /\ (d.refs[b] <= 1 => b \notin DOMAIN d.pending)
\* Mutant: the blob goes with its first message, whatever ref_count says.
DropBlobWithFirstMessage(d, i) ==
  LET b == d.messages[i].blob
  IN  [d EXCEPT !.messages = Without(@, {i}), !.blobs = Without(@, {b}),
                !.refs = Without(@, {b}), !.pending = Put(@, b, d.blobs[b])]

DeleteMessageTx(d, i) ==
  LET b == d.messages[i].blob
  IN  IF d.refs[b] <= 1
      THEN [d EXCEPT !.messages = Without(@, {i}), !.blobs = Without(@, {b}),
                     !.refs = Without(@, {b}), !.pending = Put(@, b, d.blobs[b])]
      ELSE [d EXCEPT !.messages = Without(@, {i}), !.refs[b] = @ - 1]
Released(d, i) == LET b == d.messages[i].blob
                  IN  IF d.refs[b] <= 1 THEN d.blobs[b] ELSE 0

\* INSERT OR IGNORE INTO pending_deletions.
EnqueueDeletion(d, p, size) ==
  IF p \in DOMAIN d.pending THEN d ELSE [d EXCEPT !.pending = Put(@, p, size)]

\* Mutant: the directory is not synced.
SyncNothing == UNCHANGED durable

SyncDirectory == durable' = files

\* Mutant: the statements were committed one by one.
KeepPartialTx == db' = IF tx = EmptyDB THEN db ELSE tx

\* inTx: an error rolls the transaction back.
RollBack == UNCHANGED db

Fresh(p) == /\ p \notin DOMAIN files /\ p \notin DOMAIN durable
            /\ p \notin DOMAIN db.blobs /\ p \notin DOMAIN db.pending
            /\ \A r \in Readers : p # reader[r].id[1]

-----------------------------------------------------------------------------
(* The process.  Everything but db and the directory is lost when it ends.  *)

Halt(reason) ==
  /\ mode' = "down" /\ exit' = reason /\ pc' = "free"
  /\ sv' = NoSave /\ dr' = NoDrain /\ cl' = NoCleanup /\ tx' = EmptyDB
  /\ storedBytes' = 0 /\ storedMessages' = 0 /\ storageFault' = FALSE
  /\ pendingCursor' = 0 /\ reader' = [r \in Readers |-> NoReader]

\* log.Fatalf during start-up.
Fatal(reason) == Halt(reason) /\ UNCHANGED <<db, disk, now>>

\* SIGTERM, a kill or a panic.  An open transaction is rolled back.
Stop == mode # "down" /\ Halt("none") /\ UNCHANGED <<db, disk, now>>

\* Power loss: each directory change since the last sync is kept or lost.
PowerLoss ==
  /\ PowerMayFail
  /\ \E S \in SUBSET {p \in DOMAIN files \cup DOMAIN durable :
                        \/ p \notin DOMAIN files \/ p \notin DOMAIN durable
                        \/ files[p] # durable[p]} :
       files' = [p \in (DOMAIN files \ S) \cup (DOMAIN durable \cap S) |->
                   IF p \in S THEN durable[p] ELSE files[p]]
  /\ durable' = files'
  /\ Halt("none") /\ UNCHANGED <<db, now>>

Tick == now < MaxTime /\ now' = now + 1
        /\ UNCHANGED <<db, tx, disk, mem, proc, pc, sv, dr, cl, reader>>

ClockBack == ClockMayStepBack /\ now > 0 /\ now' = now - 1
             /\ UNCHANGED <<db, tx, disk, mem, proc, pc, sv, dr, cl, reader>>

-----------------------------------------------------------------------------
(* drainPendingLocked and drainAllPendingLocked, called with ret naming the *)
(* caller.  A failed query, sync or transaction returns no rows: batch = {}.*)

\* Mutant: every call starts from the head of the queue.
CallDrainFromHead(ret, cursor) ==
  pc' = "drainSelect" /\ dr' = [NoDrain EXCEPT !.ret = ret]

CallDrain(ret, cursor) ==
  pc' = "drainSelect" /\ dr' = [NoDrain EXCEPT !.ret = ret, !.cursor = cursor]

\* The first CleanupBatchSize entries above the cursor.
FirstPaths(S) == {p \in S : Cardinality({q \in S : q < p}) < CleanupBatchSize}

DrainSelect ==
  /\ pc = "drainSelect"
  /\ LET S == {p \in DOMAIN db.pending : p > dr.cursor}
     IN  dr' = [dr EXCEPT !.batch = FirstPaths(S)]
  /\ pc' = IF dr'.batch = {} THEN "drained" ELSE "drainUnlink"
  /\ UNCHANGED <<db, tx, disk, mem, proc, sv, cl, env>>

\* Any of the files may resist; one that is already gone counts as removed.
DrainUnlink ==
  /\ pc = "drainUnlink"
  /\ \E stuck \in SUBSET (dr.batch \cap DOMAIN files) :
       /\ files' = Without(files, dr.batch \ stuck)
       /\ dr' = [dr EXCEPT !.removed = dr.batch \ stuck,
                           !.err = IF stuck = {} THEN "none" ELSE "unlink"]
  /\ pc' = IF dr'.removed = {} THEN "drained" ELSE "drainSync"
  /\ UNCHANGED <<db, tx, durable, mem, proc, sv, cl, env>>

DrainSync ==
  /\ pc = "drainSync" /\ pc' = "drainCommit" /\ SyncDirectory
  /\ UNCHANGED <<db, tx, files, mem, proc, sv, dr, cl, env>>

\* Mutant: files that could not be unlinked are credited too.
CreditBatch == Bytes(Only(db.pending, dr.batch))

Reclaimed == Bytes(Only(db.pending, dr.removed))

DrainCommit ==
  /\ pc = "drainCommit"
  /\ db' = [db EXCEPT !.pending = Without(@, dr.removed)]
  /\ storedBytes' = storedBytes - Reclaimed
  /\ pc' = "drained"
  /\ UNCHANGED <<tx, disk, storedMessages, storageFault, pendingCursor, proc,
                 sv, dr, cl, env>>

DrainFails ==
  /\ pc \in {"drainSelect", "drainSync", "drainCommit"}
  /\ dr' = [dr EXCEPT !.batch = {}, !.removed = {}, !.err = "io"]
  /\ pc' = "drained"
  /\ UNCHANGED <<db, tx, disk, mem, proc, sv, cl, env>>

\* The cursor after the batch: past a full batch, back to "" at the end.
NextCursor(c) == IF Cardinality(dr.batch) < CleanupBatchSize
                 THEN c = 0
                 ELSE c \in dr.batch /\ \A q \in dr.batch : q <= c

Return(to) == pc' = to /\ dr' = NoDrain

-----------------------------------------------------------------------------
(* Save.  A delivery that Save refuses before it takes the lock, or because *)
(* of a recorded storage fault, changes nothing.                            *)

SaveBegin ==
  /\ mode = "serving" /\ pc = "free" /\ ~storageFault
  /\ \A i \in DOMAIN db.messages : db.messages[i].rowid < MaxRowid
  /\ \E d \in Deliveries :
       /\ Recipients(d.rcpts) # {}
       /\ d.size <= MaxMessageBytes /\ d.size <= MaxStorageBytes
       /\ sv' = [NoSave EXCEPT !.rank = Rank(d.rcpts), !.size = d.size]
  /\ CallDrain("savePre", pendingCursor)
  /\ UNCHANGED <<db, tx, disk, mem, proc, cl, env>>

SaveDrained ==
  /\ pc = "drained" /\ dr.ret = "savePre"
  /\ \E c \in {0} \cup dr.batch : NextCursor(c) /\ pendingCursor' = c
  /\ Return("saveAdmit")
  /\ UNCHANGED <<db, tx, disk, storedBytes, storedMessages, storageFault, proc,
                 sv, cl, env>>

\* Mutant: saves go on while failed unlinks keep usage above the cap.
AdmitAboveCap == sv.size <= MaxStorageBytes

\* Mutant: files awaiting deletion are expected to make room.
AdmitIgnoringPending == storedBytes <= MaxStorageBytes

Admissible == /\ storedBytes <= MaxStorageBytes
              /\ Bytes(db.pending) + sv.size <= MaxStorageBytes

SaveAdmit ==
  /\ pc = "saveAdmit" /\ Admissible
  /\ \E b \in BlobPaths, t \in TmpPaths :
       /\ Fresh(b) /\ Fresh(t)
       /\ files' = Put(files, t, 0)
       /\ sv' = [sv EXCEPT !.blob = b, !.tmp = t, !.received = now]
  /\ pc' = "saveWrite"
  /\ UNCHANGED <<db, tx, durable, mem, proc, dr, cl, env>>

\* Over the limit, a failed query or a failed CreateTemp: nothing is staged.
SaveRefused ==
  /\ pc = "saveAdmit"
  /\ sv' = [sv EXCEPT !.err = TRUE] /\ pc' = "saveReturn"
  /\ UNCHANGED <<db, tx, disk, mem, proc, dr, cl, env>>

SaveWrite ==
  /\ pc = "saveWrite"
  /\ files' = [files EXCEPT ![sv.tmp] = sv.size] /\ pc' = "saveRename"
  /\ UNCHANGED <<db, tx, durable, mem, proc, sv, dr, cl, env>>

\* A write, chmod, sync or close error leaves any prefix of the message.
SaveWriteFails ==
  /\ pc = "saveWrite"
  /\ \E n \in 0 .. sv.size : files' = [files EXCEPT ![sv.tmp] = n]
  /\ sv' = [sv EXCEPT !.err = TRUE] /\ pc' = "saveRemoveTmp"
  /\ UNCHANGED <<db, tx, durable, mem, proc, dr, cl, env>>

SaveRename ==
  /\ pc = "saveRename"
  /\ files' = Put(Without(files, {sv.tmp}), sv.blob, files[sv.tmp])
  /\ pc' = "saveSync"
  /\ UNCHANGED <<db, tx, durable, mem, proc, sv, dr, cl, env>>

SaveRenameFails ==
  /\ pc = "saveRename"
  /\ sv' = [sv EXCEPT !.err = TRUE] /\ pc' = "saveRemoveTmp"
  /\ UNCHANGED <<db, tx, disk, mem, proc, dr, cl, env>>

SaveSync ==
  /\ pc = "saveSync" /\ pc' = "saveInsert" /\ SyncDirectory
  /\ UNCHANGED <<db, tx, files, mem, proc, sv, dr, cl, env>>

\* One row per recipient; SQLite numbers them after the largest rowid.
NewRows(base) ==
  [i \in {<<sv.blob, r>> : r \in DOMAIN sv.rank} |->
     [rcpt |-> i[2], blob |-> sv.blob, size |-> sv.size, received |-> sv.received,
      expires |-> sv.received + MessageTTL, rowid |-> base + sv.rank[i[2]]]]
Merge(f, g) == [x \in DOMAIN f \cup DOMAIN g |-> IF x \in DOMAIN f THEN f[x] ELSE g[x]]

Projected == storedBytes + sv.size

SaveInsert ==
  /\ pc = "saveInsert"
  /\ \E base \in {0} \cup {db.messages[i].rowid : i \in DOMAIN db.messages} :
       /\ \A i \in DOMAIN db.messages : db.messages[i].rowid <= base
       /\ tx' = [db EXCEPT !.messages = Merge(@, NewRows(base)),
                          !.blobs = Put(@, sv.blob, sv.size),
                          !.refs = Put(@, sv.blob, Cardinality(DOMAIN sv.rank))]
  /\ sv' = [sv EXCEPT !.projected = Projected, !.before = now]
  /\ pc' = "saveEvict"
  /\ UNCHANGED <<db, disk, mem, proc, dr, cl, env>>

\* evictTx: expired rows first, in order of expiry, then the oldest rows;
\* never the delivery itself.
Evictable == {i \in DOMAIN tx.messages : tx.messages[i].blob # sv.blob}
\* Mutant: compares the wrong column with the clock.
ReceivedBy(S, m, t) == {i \in S : m[i].received <= t}

ExpiredOf(S, m, t) == {i \in S : m[i].expires <= t}
ExpiresFirst(m, i, j) == \/ m[i].expires < m[j].expires
                         \/ m[i].expires = m[j].expires /\ m[i].rowid <= m[j].rowid
ReceivedFirst(m, i, j) == \/ m[i].received < m[j].received
                          \/ m[i].received = m[j].received /\ m[i].rowid <= m[j].rowid
\* Mutant: the oldest row, expired or not.
VictimOldest(i) ==
  i \in Evictable /\ \A j \in Evictable : ReceivedFirst(tx.messages, i, j)

Victim(i) ==
  LET E == ExpiredOf(Evictable, tx.messages, sv.before)
  IN  IF E # {}
      THEN i \in E /\ \A j \in E : ExpiresFirst(tx.messages, i, j)
      ELSE i \in Evictable /\ \A j \in Evictable : ReceivedFirst(tx.messages, i, j)

SaveEvict ==
  /\ pc = "saveEvict" /\ sv.projected > MaxStorageBytes
  /\ \E i \in Evictable :
       /\ Victim(i) /\ CanDelete(tx, i)
       /\ tx' = DeleteMessageTx(tx, i)
       /\ sv' = [sv EXCEPT !.projected = @ - Released(tx, i), !.deleted = @ + 1]
  /\ UNCHANGED <<db, disk, mem, proc, pc, dr, cl, env>>

SaveCommit ==
  /\ pc = "saveEvict" /\ sv.projected <= MaxStorageBytes
  /\ db' = tx /\ tx' = EmptyDB
  /\ storedBytes' = storedBytes + sv.size
  /\ storedMessages' = storedMessages + Cardinality(DOMAIN sv.rank) - sv.deleted
  /\ CallDrain("savePost", pendingCursor)
  /\ UNCHANGED <<disk, storageFault, pendingCursor, proc, sv, cl, env>>

\* The directory sync, a statement, the eviction or the commit fails: the
\* transaction is rolled back and the renamed file discarded.
SaveTxFails ==
  /\ pc \in {"saveSync", "saveInsert", "saveEvict"}
  /\ RollBack /\ tx' = EmptyDB
  /\ sv' = [sv EXCEPT !.drop = sv.blob, !.err = TRUE] /\ pc' = "discard"
  /\ UNCHANGED <<disk, mem, proc, dr, cl, env>>

SavePostDrained ==
  /\ pc = "drained" /\ dr.ret \in {"savePost", "discard"}
  /\ \E c \in {0} \cup dr.batch : NextCursor(c) /\ pendingCursor' = c
  /\ Return("saveReturn")
  /\ UNCHANGED <<db, tx, disk, storedBytes, storedMessages, storageFault, proc,
                 sv, cl, env>>

\* The deferred removal of the staging file.
SaveRemoveTmp ==
  /\ pc = "saveRemoveTmp"
  /\ files' = Without(files, {sv.tmp}) /\ pc' = "saveReturn"
  /\ UNCHANGED <<db, tx, durable, mem, proc, sv, dr, cl, env>>

\* Mutant: a staging file that cannot be removed is forgotten.
ForgetTmp ==
  /\ pc = "saveRemoveTmp" /\ pc' = "saveReturn"
  /\ UNCHANGED <<db, tx, disk, mem, proc, sv, dr, cl, env>>

SaveRemoveTmpFails ==
  /\ pc = "saveRemoveTmp"
  /\ \/ sv' = [sv EXCEPT !.drop = sv.tmp] /\ pc' = "discard"
     \/ StatMayFail /\ pc' = "saveReturn" /\ UNCHANGED sv
  /\ UNCHANGED <<db, tx, disk, mem, proc, dr, cl, env>>

SaveReturn ==
  /\ pc = "saveReturn"
  /\ pc' = "free" /\ sv' = NoSave
  /\ UNCHANGED <<db, tx, disk, mem, proc, dr, cl, env>>

-----------------------------------------------------------------------------
(* discardFileLocked(sv.drop).                                              *)

Discard ==
  /\ pc = "discard"
  /\ db' = EnqueueDeletion(db, sv.drop, files[sv.drop]) /\ pc' = "discardLoad"
  /\ UNCHANGED <<tx, disk, mem, proc, sv, dr, cl, env>>

\* The queue is unavailable: unlink directly, or charge the file and refuse
\* further saves.  The outcome of the directory sync is ignored.
DiscardFails ==
  /\ pc = "discard"
  /\ \/ files' = Without(files, {sv.drop}) /\ UNCHANGED <<storedBytes, storageFault>>
     \/ /\ storedBytes' = storedBytes + files[sv.drop] /\ storageFault' = TRUE
        /\ UNCHANGED files
  /\ durable' \in {durable, files'}
  /\ pc' = "saveReturn"
  /\ UNCHANGED <<db, tx, storedMessages, pendingCursor, proc, sv, dr, cl, env>>

LoadStorageUsage ==
  storedBytes' = Charged(db) /\ storedMessages' = Cardinality(DOMAIN db.messages)

DiscardLoad ==
  /\ pc = "discardLoad"
  /\ LoadStorageUsage
  /\ CallDrain("discard", pendingCursor)
  /\ UNCHANGED <<db, tx, disk, storageFault, pendingCursor, proc, sv, cl, env>>

\* Either of the two queries fails.
DiscardLoadFails ==
  /\ pc = "discardLoad"
  /\ storedBytes' \in {storedBytes, Charged(db)}
  /\ storageFault' = TRUE /\ pc' = "saveReturn"
  /\ UNCHANGED <<db, tx, disk, storedMessages, pendingCursor, proc, sv, dr, cl, env>>

-----------------------------------------------------------------------------
(* Cleanup: bounded batches, the lock released between them, one reading of *)
(* the clock for all of them.  RunCleanup is the only caller once main has  *)
(* run it at start-up.                                                      *)

\* Mutant: a storage fault stops the cleanup worker too.
CleanupUnlessFault ==
  /\ mode = "serving" /\ ~cl.active /\ ~storageFault
  /\ cl' = [NoCleanup EXCEPT !.active = TRUE, !.before = now]
  /\ UNCHANGED <<db, tx, disk, mem, proc, pc, sv, dr, env>>

CleanupBegin ==
  /\ mode = "serving" /\ ~cl.active
  /\ cl' = [NoCleanup EXCEPT !.active = TRUE, !.before = now]
  /\ UNCHANGED <<db, tx, disk, mem, proc, pc, sv, dr, env>>

\* SELECT ... WHERE expires_at <= ? LIMIT ?, in no particular order.
CleanupSelect ==
  /\ cl.active /\ pc = "free"
  /\ \E E \in SUBSET ExpiredOf(DOMAIN db.messages, db.messages, cl.before) :
       /\ \/ Cardinality(E) = CleanupBatchSize
          \/ /\ E = ExpiredOf(DOMAIN db.messages, db.messages, cl.before)
             /\ Cardinality(E) < CleanupBatchSize
       /\ cl' = [cl EXCEPT !.todo = E, !.count = 0]
  /\ tx' = db /\ pc' = "cleanDelete"
  /\ UNCHANGED <<db, disk, mem, proc, sv, dr, env>>

CleanupDelete ==
  /\ pc = "cleanDelete"
  /\ \E i \in cl.todo :
       /\ CanDelete(tx, i)
       /\ tx' = DeleteMessageTx(tx, i)
       /\ cl' = [cl EXCEPT !.todo = @ \ {i}, !.count = @ + 1]
  /\ UNCHANGED <<db, disk, mem, proc, pc, sv, dr, env>>

CleanupCommit ==
  /\ pc = "cleanDelete" /\ cl.todo = {}
  /\ db' = tx /\ tx' = EmptyDB
  /\ storedMessages' = storedMessages - cl.count
  /\ CallDrain("cleanup", pendingCursor)
  /\ UNCHANGED <<disk, storedBytes, storageFault, pendingCursor, proc, sv, cl, env>>

\* Cleanup returns an error: RunCleanup logs it, main gives up.
CleanupError(reason, cursor) ==
  IF mode = "starting"
  THEN Fatal(reason)
  ELSE /\ cl' = NoCleanup /\ tx' = EmptyDB /\ pendingCursor' = cursor
       /\ Return("free")
       /\ UNCHANGED <<db, disk, storedBytes, storedMessages, storageFault, proc, sv, env>>

CleanupTxFails == pc = "cleanDelete" /\ CleanupError("io", pendingCursor)

CleanupDrained ==
  /\ pc = "drained" /\ dr.ret = "cleanup" /\ dr.err = "none"
  /\ \E c \in {0} \cup dr.batch : NextCursor(c) /\ pendingCursor' = c
  /\ IF cl.count < CleanupBatchSize
     THEN cl' = NoCleanup /\ mode' = "serving"
     ELSE cl' = [cl EXCEPT !.count = 0] /\ UNCHANGED mode
  /\ Return("free")
  /\ UNCHANGED <<db, tx, disk, storedBytes, storedMessages, storageFault, exit, sv, env>>

CleanupDrainFailed ==
  /\ pc = "drained" /\ dr.ret = "cleanup" /\ dr.err # "none"
  /\ \E c \in {0} \cup dr.batch : NextCursor(c) /\ CleanupError(dr.err, c)

-----------------------------------------------------------------------------
(* Start-up: OpenStore, then the initial Cleanup of main.                   *)

Boot ==
  /\ mode = "down"
  /\ mode' = "starting" /\ exit' = "none" /\ pc' = "migrate"
  /\ UNCHANGED <<db, tx, disk, mem, sv, dr, cl, env>>

\* migrateLegacySchema: one blob per message.
Migrated(d) ==
  [legacy |-> FALSE, messages |-> d.messages, blobs |-> FileSizes(d.messages),
   refs |-> [p \in DOMAIN FileSizes(d.messages) |-> 1], pending |-> d.pending]

Migrate ==
  /\ pc = "migrate"
  /\ db' = IF db.legacy THEN Migrated(db) ELSE db
  /\ pc' = "normalize"
  /\ UNCHANGED <<tx, disk, mem, proc, sv, dr, cl, env>>

\* Mutant: rows of older versions keep the address as received.
AsReceived(m) == m

Canonical(m) == [m EXCEPT !.rcpt = normalizeRecipient(@)]

NormalizeStoredRecipients ==
  /\ pc = "normalize"
  /\ db' = [db EXCEPT !.messages = [i \in DOMAIN @ |-> Canonical(@[i])]]
  /\ pc' = "reconcile"
  /\ UNCHANGED <<tx, disk, mem, proc, sv, dr, cl, env>>

\* A referenced file that is missing ends the start-up.
ReconcileCheck ==
  /\ pc = "reconcile"
  /\ IF DOMAIN db.blobs \subseteq DOMAIN files
     THEN /\ pc' = "scan"
          /\ UNCHANGED <<db, tx, disk, mem, proc, sv, dr, cl, env>>
     ELSE Fatal("missing")

Orphans == DOMAIN files \ (DOMAIN db.blobs \cup DOMAIN db.pending)

\* Each orphan is queued by a statement of its own.
ReconcileOrphan ==
  /\ pc = "scan"
  /\ \E p \in Orphans : db' = EnqueueDeletion(db, p, files[p])
  /\ UNCHANGED <<tx, disk, mem, proc, pc, sv, dr, cl, env>>

ReconcileLoad ==
  /\ pc = "scan" /\ Orphans = {}
  /\ LoadStorageUsage
  /\ CallDrain("open", 0)
  /\ UNCHANGED <<db, tx, disk, storageFault, pendingCursor, proc, sv, cl, env>>

\* drainAllPendingLocked: the next batch, or the end of the queue.
OpenDrained ==
  /\ pc = "drained" /\ dr.ret = "open"
  /\ \E c \in {0} \cup dr.batch :
       /\ NextCursor(c)
       /\ IF c = 0 THEN Return("openLoad") ELSE CallDrain("open", c)
  /\ UNCHANGED <<db, tx, disk, mem, proc, sv, cl, env>>

\* loadStorageUsage at the end of OpenStore; main then calls Cleanup.
OpenLoad ==
  /\ pc = "openLoad"
  /\ LoadStorageUsage
  /\ cl' = [NoCleanup EXCEPT !.active = TRUE, !.before = now]
  /\ pc' = "free"
  /\ UNCHANGED <<db, tx, disk, storageFault, pendingCursor, proc, sv, dr, env>>

StartupFails ==
  /\ pc \in {"migrate", "normalize", "reconcile", "scan", "openLoad"}
  /\ Fatal("io")

-----------------------------------------------------------------------------
(* The HTTP handlers that read mail: a page of a mailbox, then the row and   *)
(* the file of one message, without the lock.                               *)

\* ListPageContext, however the caller spells the domain.
Listed(a) == {i \in DOMAIN db.messages :
                db.messages[i].rcpt = normalizeRecipient(a) /\ db.messages[i].expires > now}

Newer(i, j) ==
  LET m == db.messages[i]  n == db.messages[j]
  IN  m.received > n.received \/ (m.received = n.received /\ m.rowid > n.rowid)

Page(a, offset) ==
  {i \in Listed(a) :
     Cardinality({j \in Listed(a) : Newer(j, i)}) \in offset .. offset + PageSize - 1}
HasMore(a, offset) == Cardinality(Listed(a)) > offset + PageSize

\* renderInbox lists a page and takes the first message, or the one the URL
\* names if it is on the page, to show its body.
RenderInbox(r) ==
  /\ mode = "serving" /\ reader[r].st = "idle"
  /\ \E a \in Address, offset \in 0 .. Cardinality(DOMAIN db.messages) :
       \E i \in Page(a, offset) :
         reader' = [reader EXCEPT ![r] = [NoReader EXCEPT !.st = "listed", !.id = i]]
  /\ UNCHANGED <<db, tx, disk, mem, proc, pc, sv, dr, cl, now>>

\* GetContext
Found(i) ==
  /\ i \in DOMAIN db.messages /\ db.messages[i].expires > now
  /\ db.messages[i].blob \in DOMAIN db.blobs
RowOf(i) == [st |-> "row", id |-> i, path |-> db.messages[i].blob, size |-> db.messages[i].size]

\* A listed message that is gone is shown without its body.
SelectBody(r) ==
  /\ reader[r].st = "listed"
  /\ reader' = [reader EXCEPT ![r] = IF Found(@.id) THEN RowOf(@.id) ELSE NoReader]
  /\ UNCHANGED <<db, tx, disk, mem, proc, pc, sv, dr, cl, now>>

\* The API, its attachments and the fragments of the UI ask for an id; one
\* that is not found is 404.
ReadRow(r) ==
  /\ mode = "serving" /\ reader[r].st = "idle"
  /\ \E i \in DOMAIN db.messages :
       Found(i) /\ reader' = [reader EXCEPT ![r] = RowOf(i)]
  /\ UNCHANGED <<db, tx, disk, mem, proc, pc, sv, dr, cl, now>>

\* A body that is found ends the read; a file that is not is an
\* error, answered as a storage error that may be retried, never as 404.
ReadFile(r) ==
  /\ reader[r].st = "row"
  /\ reader' = [reader EXCEPT ![r] = IF @.path \in DOMAIN files
                                     THEN NoReader ELSE [@ EXCEPT !.st = "error"]]
  /\ UNCHANGED <<db, tx, disk, mem, proc, pc, sv, dr, cl, now>>

ReadError(r) ==
  /\ reader[r].st = "error"
  /\ reader' = [reader EXCEPT ![r] = NoReader]
  /\ UNCHANGED <<db, tx, disk, mem, proc, pc, sv, dr, cl, now>>

-----------------------------------------------------------------------------
LegacyFiles == FileSizes(LegacyMail)
LegacyDB == [legacy |-> TRUE, messages |-> LegacyMail, blobs |-> Empty, refs |-> Empty,
             pending |-> Empty]

\* A fresh data directory, or one left by the pre-dedup version.
Init ==
  /\ \/ db = EmptyDB /\ files = Empty
     \/ db = LegacyDB /\ files = LegacyFiles
  /\ durable = files
  /\ tx = EmptyDB
  /\ storedBytes = 0 /\ storedMessages = 0 /\ storageFault = FALSE /\ pendingCursor = 0
  /\ mode = "down" /\ exit = "none" /\ pc = "free"
  /\ sv = NoSave /\ dr = NoDrain /\ cl = NoCleanup
  /\ reader = [r \in Readers |-> NoReader]
  /\ now = 0

Drain == DrainSelect \/ DrainUnlink \/ DrainSync \/ DrainCommit \/ DrainFails
Save == \/ SaveBegin \/ SaveDrained \/ SaveAdmit \/ SaveRefused
        \/ SaveWrite \/ SaveWriteFails \/ SaveRename \/ SaveRenameFails
        \/ SaveSync \/ SaveInsert \/ SaveEvict \/ SaveCommit \/ SaveTxFails
        \/ SavePostDrained \/ SaveRemoveTmp \/ SaveRemoveTmpFails \/ SaveReturn
        \/ Discard \/ DiscardFails \/ DiscardLoad \/ DiscardLoadFails
Cleanup == \/ CleanupBegin \/ CleanupSelect \/ CleanupDelete \/ CleanupCommit
           \/ CleanupTxFails \/ CleanupDrained \/ CleanupDrainFailed
OpenStore == \/ Boot \/ Migrate \/ NormalizeStoredRecipients
             \/ ReconcileCheck \/ ReconcileOrphan
             \/ ReconcileLoad \/ OpenDrained \/ OpenLoad \/ StartupFails
Get == \E r \in Readers :
         RenderInbox(r) \/ SelectBody(r) \/ ReadRow(r) \/ ReadFile(r) \/ ReadError(r)

Next == \/ Drain \/ Save \/ Cleanup \/ OpenStore \/ Get
        \/ Stop \/ PowerLoss \/ Tick \/ ClockBack

Spec == Init /\ [][Next]_vars

-----------------------------------------------------------------------------
(* Properties.                                                              *)

IsTable(f, D, R) == /\ DOMAIN f \subseteq D /\ IsFiniteSet(DOMAIN f)
                    /\ f \in [DOMAIN f -> R]
IsDatabase(d) ==
  /\ d = [legacy |-> d.legacy, messages |-> d.messages, blobs |-> d.blobs,
          refs |-> d.refs, pending |-> d.pending]
  /\ d.legacy \in BOOLEAN
  /\ IsTable(d.messages, MessageIds, Row)
  /\ IsTable(d.blobs, BlobPaths, Nat)
  /\ IsTable(d.refs, BlobPaths, Nat)
  /\ IsTable(d.pending, Paths, Nat)
IsSave(s) ==
  /\ IsTable(s.rank, Address, Nat)
  /\ s \in [rank : {s.rank}, size : Nat, blob : BlobPaths \cup {0}, tmp : TmpPaths \cup {0},
            received : Nat, before : Nat, projected : Int, deleted : Nat,
            drop : Paths \cup {0}, err : BOOLEAN]

DrainLabels == {"drainSelect", "drainUnlink", "drainSync", "drainCommit", "drained"}
Labels == DrainLabels \cup
  {"free", "migrate", "normalize", "reconcile", "scan", "openLoad",
   "saveAdmit", "saveWrite", "saveRename", "saveSync", "saveInsert", "saveEvict",
   "saveRemoveTmp", "saveReturn", "discard", "discardLoad", "cleanDelete"}

TypeTables == IsDatabase(db) /\ IsDatabase(tx)
TypeDirectory == IsTable(files, Paths, Nat) /\ IsTable(durable, Paths, Nat)
TypeMemory ==
  /\ storedBytes \in Int /\ storedMessages \in Int
  /\ storageFault \in BOOLEAN /\ pendingCursor \in Nat /\ now \in 0 .. MaxTime
TypeControl ==
  /\ mode \in {"down", "starting", "serving"}
  /\ exit \in {"none", "io", "unlink", "missing"}
  /\ pc \in Labels
  /\ dr \in [ret : {"none", "savePre", "savePost", "discard", "cleanup", "open"},
             cursor : Nat, batch : SUBSET Paths, removed : SUBSET Paths,
             err : {"none", "io", "unlink"}]
  /\ cl \in [active : BOOLEAN, before : Nat, todo : SUBSET MessageIds, count : Nat]
  /\ reader \in [Readers -> [st : {"idle", "listed", "row", "error"}, id : MessageIds \cup {NoReader.id},
                             path : Nat, size : Nat]]

\* Every variable stays in its type: tables hold rows of the declared shape,
\* the directory maps paths to sizes, the control state is a known label.
TypeOK == TypeTables /\ TypeDirectory /\ TypeMemory /\ TypeControl /\ IsSave(sv)

Referrers(d, b) == {i \in DOMAIN d.messages : d.messages[i].blob = b}

\* The committed tables agree: every message's blob row exists with its size,
\* ref_count is the number of messages that share the blob and never 0, and
\* no file is both referenced and queued for deletion (deleteMessageTx,
\* migrateLegacySchema, Save).
IntactDB(d) ==
  /\ DOMAIN d.refs = DOMAIN d.blobs
  /\ DOMAIN d.blobs \cap DOMAIN d.pending = {}
  /\ \A b \in DOMAIN d.blobs :
       d.refs[b] = Cardinality(Referrers(d, b)) /\ d.refs[b] >= 1
  /\ \A i \in DOMAIN d.messages :
       /\ d.messages[i].blob = i[1] /\ i[1] \in DOMAIN d.blobs
       /\ d.messages[i].size = d.blobs[d.messages[i].blob]
ReferencesIntact == ~db.legacy => IntactDB(db)

\* Accepted mail is never lost: the raw file of every committed message is in
\* the directory with its full content, and would be after a power loss, so a
\* restart never meets "referenced blob missing" (Save syncs before it
\* commits; only queued or uncommitted files are unlinked).
AcceptedMailOnDisk ==
  \A i \in DOMAIN db.messages :
    LET m == db.messages[i]
    IN  /\ m.blob \in DOMAIN files /\ files[m.blob] = m.size
        /\ m.blob \in DOMAIN durable /\ durable[m.blob] = m.size

\* Between operations of a store without a recorded fault, every file in the
\* directory is charged to the cap: it is a blob or queued for deletion, at no
\* less than its size.  "If an orphan cannot be recorded or removed, the
\* service blocks further saves until restart and reconciliation" (README.md).
NoUnchargedFile ==
  mode = "serving" /\ pc = "free" /\ ~storageFault =>
    \A p \in DOMAIN files :
      \/ p \in DOMAIN db.blobs /\ files[p] <= db.blobs[p]
      \/ p \in DOMAIN db.pending /\ files[p] <= db.pending[p]

\* The running totals that Save admits against stay exact through failed
\* unlinks, rollbacks, evictions and partial cleanups.
TotalsExact ==
  mode = "serving" /\ pc = "free" /\ ~storageFault =>
    /\ storedBytes = Charged(db)
    /\ storedMessages = Cardinality(DOMAIN db.messages)

\* What a cap is for: no commit takes the blobs of live mail above it, and
\* "disk usage can temporarily exceed the cap by that incoming file's size"
\* (README.md) and by no more, however often unlinking, the database or the
\* process fails.  A power loss may bring back files already unlinked, and mail
\* of an older version may have been above the cap from the start.
DiskBounded ==
  DOMAIN LegacyMail = {} =>
    /\ Bytes(db.blobs) <= MaxStorageBytes
    /\ ~PowerMayFail => Bytes(files) <= MaxStorageBytes + MaxMessageBytes

\* A delivery that passed the pending-bytes check can always be made to fit:
\* evictTx never runs out of victims, "storage limit exhausted" is unreachable.
EvictionSuffices ==
  pc = "saveEvict" /\ sv.projected > MaxStorageBytes => Evictable # {}

\* Save's answer is the truth: after an error nothing of the delivery is
\* readable, after success every recipient has its message, not evicted by its
\* own delivery ("SMTP retries must never follow a failed Save that
\* nevertheless inserted a readable message", store.go).
SaveAnswerTrue ==
  pc = "saveReturn" =>
    IF sv.err THEN Referrers(db, sv.blob) = {}
              ELSE /\ DOMAIN sv.rank # {}
                   /\ {db.messages[i].rcpt : i \in Referrers(db, sv.blob)} = DOMAIN sv.rank

\* A reader that meets no file has met a message deleted since it read the
\* row; one that meets a file meets the whole message (GetContext takes no
\* lock, unlinking runs beside it).
ReadErrorMeansDeleted ==
  \A r \in Readers :
    /\ reader[r].st = "error" => reader[r].id \notin DOMAIN db.messages
    /\ reader[r].st = "row" /\ reader[r].path \in DOMAIN files =>
         files[reader[r].path] = reader[r].size

\* Every unexpired message is found by paging through its mailbox, whichever
\* way the domain is spelled, now or when an older version stored it: it is on
\* exactly one page, and hasMore leads there from the first (ListPageContext,
\* store.go:355-386; Save and normalizeStoredRecipients store what it looks for).
MailIsListed ==
  mode = "serving" =>
    \A i \in DOMAIN db.messages, d \in Domains :
      LET a == [db.messages[i].rcpt EXCEPT !.domain = d]
          pages == {k \in 0 .. Cardinality(DOMAIN db.messages) : i \in Page(a, k * PageSize)}
      IN  db.messages[i].expires > now =>
            /\ Cardinality(pages) = 1
            /\ \A k \in pages : \A p \in 0 .. k - 1 : HasMore(a, p * PageSize)

\* Start-up logs a file it cannot unlink and goes on; "deletion failures
\* remain charged and are retried on later saves, cleanup, and startup".
StartupToleratesUnlinkFailure == exit # "unlink"

\* A queue entry outlives its file, on disk as well as in memory: "removing a
\* queue entry before directory sync could resurrect an unaccounted file".
QueueOutlivesFile ==
  [][\A p \in DOMAIN db.pending \ DOMAIN db'.pending :
       p \notin DOMAIN files /\ p \notin DOMAIN durable]_vars

\* "Expired messages are evicted before the oldest live messages": mail that
\* has not expired disappears only to make room for a delivery, when no
\* expired message is left, and every message that stays is no older.
LiveEvictionOldestFirst ==
  [][\A i \in DOMAIN db.messages \ DOMAIN db'.messages :
       LET Kept == DOMAIN db.messages \cap DOMAIN db'.messages
       IN  \/ pc = "cleanDelete" /\ db.messages[i].expires <= cl.before
           \/ pc = "saveEvict" /\ db.messages[i].expires <= sv.before
           \/ /\ pc = "saveEvict"
              /\ \A j \in Kept : db.messages[j].expires > sv.before
              /\ \A j \in Kept : ReceivedFirst(db.messages, i, j)]_vars

-----------------------------------------------------------------------------
(* MailStore implements Mailbox, as long as the clock does not move back.   *)

MailView == [i \in DOMAIN db.messages |->
               [rcpt |-> db.messages[i].rcpt, blob |-> db.messages[i].blob,
                size |-> db.messages[i].size, received |-> db.messages[i].received,
                expires |-> db.messages[i].expires]]
AnswerView == IF DOMAIN sv.rank = {} THEN "none"
              ELSE IF sv.err THEN "refused"
              ELSE IF dr.ret = "savePost" \/ pc = "saveReturn" THEN "accepted" ELSE "working"

Promise == INSTANCE Mailbox WITH
  mail <- MailView, answer <- AnswerView, clock <- now,
  Capacity <- MaxStorageBytes, Lifetime <- MessageTTL, Fold <- normalizeRecipient

\* The store keeps the promise of Mailbox: every step of Save, Cleanup,
\* start-up, a crash or a failed call is one atomic step of it or none.
ImplementsMailbox == Promise!MailSpec

-----------------------------------------------------------------------------
(* Progress.  The holder of the mutex runs on, Compose restarts the         *)
(* process, the ticker fires, and sync.Mutex does not starve a waiter (SF). *)

LockStep == pc # "free" /\ (Drain \/ Save \/ Cleanup \/ OpenStore)

FairSpec == /\ Spec
            /\ WF_vars(LockStep) /\ WF_vars(Boot)
            /\ WF_vars(CleanupBegin) /\ SF_vars(CleanupSelect)

\* What can go wrong, except that a file resists being unlinked.
Fault == \/ Stop \/ PowerLoss \/ DrainFails \/ SaveTxFails \/ DiscardFails
         \/ DiscardLoadFails \/ CleanupTxFails \/ StartupFails
FaultsCease == <>[][~Fault]_vars
Resists(p) == pc = "drainUnlink" /\ p \in dr.batch /\ p \in DOMAIN files'

\* "Retain messages for one hour by default, then delete them automatically":
\* once other faults cease, expired mail goes even if no file can be unlinked.
ExpiredEventuallyDeleted ==
  FaultsCease =>
    \A i \in MessageIds :
      (i \in DOMAIN db.messages /\ db.messages[i].expires <= now)
        ~> (i \notin DOMAIN db.messages)

\* The cursor of drainPendingLocked passes over files that resist, and comes
\* back: a file that can be unlinked is, whatever the others do.
DeletionNotStarved ==
  FaultsCease =>
    \A p \in Paths :
      <>[][~Resists(p)]_vars => ((p \in DOMAIN db.pending) ~> (p \notin DOMAIN db.pending))

-----------------------------------------------------------------------------
(* The inductive invariant behind the theorems of MailStoreProofs.          *)

\* The file of the delivery under way, and the delivery's recipients.
Staged ==
  /\ pc \in {"saveWrite", "saveRename", "saveRemoveTmp"} =>
       sv.tmp \in DOMAIN files /\ sv.tmp \in TmpPaths
  /\ pc \in {"saveWrite", "saveRename", "saveSync", "saveInsert", "saveEvict"} =>
       /\ sv.blob \in BlobPaths /\ DOMAIN sv.rank # {}
       /\ sv.blob \notin DOMAIN db.blobs /\ sv.blob \notin DOMAIN db.pending
  /\ pc = "saveRename" => files[sv.tmp] = sv.size
  /\ pc \in {"saveSync", "saveInsert", "saveEvict"} =>
       sv.blob \in DOMAIN files /\ files[sv.blob] = sv.size
  /\ pc \in {"saveInsert", "saveEvict"} =>
       sv.blob \in DOMAIN durable /\ durable[sv.blob] = sv.size
  /\ pc = "discard" =>
       /\ sv.drop \in DOMAIN files /\ sv.drop \in Paths
       /\ sv.drop \notin DOMAIN db.blobs
  /\ pc = "saveAdmit" \/ (dr.ret = "savePre" /\ pc \in DrainLabels) => DOMAIN sv.rank # {}

\* What a drain in progress may unlink, has unlinked, and has synced.
Draining ==
  /\ pc \in {"drainUnlink", "drainSync", "drainCommit"} => dr.batch \subseteq DOMAIN db.pending
  /\ pc \in {"drainSync", "drainCommit"} =>
       dr.removed \subseteq dr.batch /\ dr.removed \cap DOMAIN files = {}
  /\ pc = "drainCommit" => dr.removed \cap DOMAIN durable = {}

SubBlobs(d, b) == \A p \in DOMAIN d.blobs \ {b} :
                    p \in DOMAIN db.blobs /\ d.blobs[p] = db.blobs[p]
\* The open transaction.
InTx ==
  /\ pc \in {"saveEvict", "cleanDelete"} =>
       ~tx.legacy /\ IntactDB(tx) /\ DOMAIN db.pending \subseteq DOMAIN tx.pending
  /\ pc = "saveEvict" =>
       /\ SubBlobs(tx, sv.blob)
       /\ sv.blob \in DOMAIN tx.blobs => tx.blobs[sv.blob] = sv.size
  /\ pc = "cleanDelete" => SubBlobs(tx, 0) /\ cl.todo \subseteq DOMAIN tx.messages

BlobsOnDisk ==
  \A b \in DOMAIN db.blobs :
    /\ b \in DOMAIN files /\ files[b] = db.blobs[b]
    /\ b \in DOMAIN durable /\ durable[b] = db.blobs[b]

\* A legacy database is as its program left it until it is migrated.
Unmigrated ==
  /\ db.legacy => /\ db = LegacyDB /\ files = LegacyFiles /\ durable = files
                  /\ mode # "serving" /\ ~cl.active /\ pc \in {"free", "migrate"}
  /\ mode = "down" => pc = "free" /\ ~cl.active

StoreInv == /\ TypeOK /\ ReferencesIntact /\ Staged /\ Draining /\ InTx
            /\ BlobsOnDisk /\ Unmigrated
=============================================================================
