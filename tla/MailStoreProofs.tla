--------------------------- MODULE MailStoreProofs ---------------------------
(***************************************************************************)
(* Theorems about MailStore, for every value of its constants: any number  *)
(* of messages, readers, sizes and batch bounds.  In this order: tables and *)
(* StoreInv, the open transaction, the answer of Save, readers, the         *)
(* directory, the totals, deliveries between steps, paging, and the         *)
(* refinement of Mailbox.                                                   *)
(***************************************************************************)
EXTENDS MailStore, FiniteSetTheorems, TLAPS

(* Tables under the updates that the store makes. *)

\* Storing a row of the right type in a table leaves a table.
LEMMA PutTable ==
  ASSUME NEW D, NEW R, NEW f, IsTable(f, D, R), NEW x \in D, NEW v \in R
  PROVE  IsTable(Put(f, x, v), D, R)
<1>1. IsFiniteSet(DOMAIN f \cup {x})
  BY FS_AddElement DEF IsTable
<1> QED BY <1>1 DEF IsTable, Put

\* Deleting rows from a table leaves a table.
LEMMA WithoutTable ==
  ASSUME NEW D, NEW R, NEW f, IsTable(f, D, R), NEW S
  PROVE  IsTable(Without(f, S), D, R)
<1>1. IsFiniteSet(DOMAIN f \ S)
  BY FS_Subset DEF IsTable
<1> QED BY <1>1 DEF IsTable, Without

\* Adding a table's rows to another leaves a table.
LEMMA MergeTable ==
  ASSUME NEW D, NEW R, NEW f, NEW g, IsTable(f, D, R), IsTable(g, D, R)
  PROVE  IsTable(Merge(f, g), D, R)
<1>1. IsFiniteSet(DOMAIN f \cup DOMAIN g)
  BY FS_Union DEF IsTable
<1> QED BY <1>1 DEF IsTable, Merge

\* The empty table is a table of any type.
LEMMA EmptyTable == ASSUME NEW D, NEW R PROVE IsTable(Empty, D, R) /\ DOMAIN Empty = {}
BY FS_EmptySet DEF IsTable, Empty

\* The empty database is well typed and intact.
LEMMA EmptyDatabase == IsDatabase(EmptyDB) /\ IntactDB(EmptyDB) /\ ~EmptyDB.legacy
BY EmptyTable DEF IsDatabase, IntactDB, EmptyDB, Referrers

-----------------------------------------------------------------------------
(* deleteMessageTx. *)

\* Deleting a message keeps an intact database intact, and only ever drops
\* blob rows.
LEMMA DeleteIntact ==
  ASSUME NEW d, IsDatabase(d), IntactDB(d), NEW i \in DOMAIN d.messages
  PROVE  LET e == DeleteMessageTx(d, i)
         IN  /\ IsDatabase(e) /\ IntactDB(e) /\ e.legacy = d.legacy
             /\ DOMAIN e.messages = DOMAIN d.messages \ {i}
             /\ DOMAIN e.blobs \subseteq DOMAIN d.blobs
             /\ \A b \in DOMAIN e.blobs : e.blobs[b] = d.blobs[b]
             /\ DOMAIN d.pending \subseteq DOMAIN e.pending
<1> DEFINE b == d.messages[i].blob
           e == DeleteMessageTx(d, i)
           M == Without(d.messages, {i})
<1>0. /\ IsTable(d.messages, MessageIds, Row) /\ IsTable(d.blobs, BlobPaths, Nat)
      /\ IsTable(d.refs, BlobPaths, Nat) /\ IsTable(d.pending, Paths, Nat)
      /\ d.legacy \in BOOLEAN
  BY DEF IsDatabase
<1>1. /\ b \in DOMAIN d.blobs /\ b \in BlobPaths /\ b \in Paths
      /\ d.refs[b] \in Nat /\ d.blobs[b] \in Nat
  BY <1>0 DEF IntactDB, IsTable, Row, Paths
<1>2. /\ IsTable(M, MessageIds, Row) /\ DOMAIN M = DOMAIN d.messages \ {i}
      /\ \A j \in DOMAIN M : M[j] = d.messages[j]
  <2>1. IsTable(M, MessageIds, Row) BY <1>0, WithoutTable
  <2> QED BY <2>1 DEF Without
<1>3. \A c : IsFiniteSet(Referrers(d, c))
  BY <1>0, FS_Subset DEF Referrers, IsTable
<1>4. \A c : {j \in DOMAIN M : M[j].blob = c} = Referrers(d, c) \ {i}
  BY <1>2 DEF Referrers
<1>5. i \in Referrers(d, b) /\ \A c : c # b => i \notin Referrers(d, c)
  BY DEF Referrers
<1> HIDE DEF M, e
<1>6. CASE d.refs[b] <= 1
  <2> DEFINE B == Without(d.blobs, {b})
             N == Without(d.refs, {b})
             P == Put(d.pending, b, d.blobs[b])
  <2>1. e = [d EXCEPT !.messages = M, !.blobs = B, !.refs = N, !.pending = P]
    BY <1>6 DEF DeleteMessageTx, e, M
  <2>2. /\ IsTable(B, BlobPaths, Nat) /\ DOMAIN B = DOMAIN d.blobs \ {b}
        /\ \A c \in DOMAIN B : B[c] = d.blobs[c]
    <3>1. IsTable(B, BlobPaths, Nat) BY <1>0, WithoutTable
    <3> QED BY <3>1 DEF Without
  <2>3. /\ IsTable(N, BlobPaths, Nat) /\ DOMAIN N = DOMAIN d.refs \ {b}
        /\ \A c \in DOMAIN N : N[c] = d.refs[c]
    <3>1. IsTable(N, BlobPaths, Nat) BY <1>0, WithoutTable
    <3> QED BY <3>1 DEF Without
  <2>4. IsTable(P, Paths, Nat) /\ DOMAIN P = DOMAIN d.pending \cup {b}
    <3>1. IsTable(P, Paths, Nat) BY <1>0, <1>1, PutTable
    <3> QED BY <3>1 DEF Put
  <2> HIDE DEF B, N, P
  <2>5. /\ e.messages = M /\ e.blobs = B /\ e.refs = N /\ e.pending = P
        /\ e.legacy = d.legacy
        /\ e = [legacy |-> e.legacy, messages |-> e.messages, blobs |-> e.blobs,
                refs |-> e.refs, pending |-> e.pending]
    BY <2>1 DEF IsDatabase
  <2>6. IsDatabase(e)
    BY <1>0, <1>2, <2>2, <2>3, <2>4, <2>5 DEF IsDatabase
  <2>7. Referrers(d, b) = {i}
    <3>1. Cardinality(Referrers(d, b)) = 1
      BY <1>1, <1>6 DEF IntactDB
    <3> QED BY <3>1, <1>3, <1>5, FS_Singleton
  <2>8. \A c \in DOMAIN B : Referrers(e, c) = Referrers(d, c)
    <3> TAKE c \in DOMAIN B
    <3>1. Referrers(e, c) = Referrers(d, c) \ {i}
      BY <1>4, <2>5 DEF Referrers
    <3>2. i \notin Referrers(d, c)
      BY <1>5, <2>2
    <3> QED BY <3>1, <3>2
  <2>9. \A j \in DOMAIN M : M[j].blob # b
    BY <1>2, <2>7 DEF Referrers
  <2>10. IntactDB(e)
    <3>1. DOMAIN e.refs = DOMAIN e.blobs /\ DOMAIN e.blobs \cap DOMAIN e.pending = {}
      BY <2>2, <2>3, <2>4, <2>5 DEF IntactDB
    <3>2. \A c \in DOMAIN e.blobs :
            e.refs[c] = Cardinality(Referrers(e, c)) /\ e.refs[c] >= 1
      BY <2>2, <2>3, <2>5, <2>8 DEF IntactDB
    <3>3. \A j \in DOMAIN e.messages :
            /\ e.messages[j].blob = j[1] /\ j[1] \in DOMAIN e.blobs
            /\ e.messages[j].size = e.blobs[e.messages[j].blob]
      BY <1>2, <2>2, <2>5, <2>9 DEF IntactDB
    <3> QED BY <3>1, <3>2, <3>3 DEF IntactDB
  <2> QED BY <1>2, <2>2, <2>4, <2>5, <2>6, <2>10 DEF e
<1>7. CASE ~(d.refs[b] <= 1)
  <2> DEFINE N == [d.refs EXCEPT ![b] = d.refs[b] - 1]
  <2>1. e = [d EXCEPT !.messages = M, !.refs = N]
    BY <1>7 DEF DeleteMessageTx, e, M
  <2>2. /\ IsTable(N, BlobPaths, Nat) /\ DOMAIN N = DOMAIN d.refs
        /\ N[b] = d.refs[b] - 1
        /\ \A c \in DOMAIN N : c # b => N[c] = d.refs[c]
    BY <1>0, <1>1, <1>7 DEF IsTable, IntactDB
  <2> HIDE DEF N
  <2>3. /\ e.messages = M /\ e.blobs = d.blobs /\ e.refs = N /\ e.pending = d.pending
        /\ e.legacy = d.legacy
        /\ e = [legacy |-> e.legacy, messages |-> e.messages, blobs |-> e.blobs,
                refs |-> e.refs, pending |-> e.pending]
    BY <2>1 DEF IsDatabase
  <2>4. IsDatabase(e)
    BY <1>0, <1>2, <2>2, <2>3 DEF IsDatabase
  <2>5. \A c \in DOMAIN d.blobs :
          N[c] = Cardinality(Referrers(e, c)) /\ N[c] >= 1
    <3> TAKE c \in DOMAIN d.blobs
    <3>1. Referrers(e, c) = Referrers(d, c) \ {i}
      BY <1>4, <2>3 DEF Referrers
    <3>2. CASE c = b
      <4>1. Cardinality(Referrers(d, b) \ {i}) = Cardinality(Referrers(d, b)) - 1
        <5>1. IsFiniteSet(Referrers(d, b)) BY <1>3
        <5> QED BY <1>5, <5>1, FS_RemoveElement
      <4>2. d.refs[b] = Cardinality(Referrers(d, b))
        BY <1>1 DEF IntactDB
      <4> QED BY <1>1, <1>7, <2>2, <3>1, <3>2, <4>1, <4>2
    <3>3. CASE c # b
      <4>1. Referrers(d, c) \ {i} = Referrers(d, c)
        BY <1>5, <3>3
      <4>2. c \in DOMAIN d.refs /\ d.refs[c] = Cardinality(Referrers(d, c)) /\ d.refs[c] >= 1
        BY DEF IntactDB
      <4> QED BY <2>2, <3>1, <3>3, <4>1, <4>2
    <3> QED BY <3>2, <3>3
  <2>6. IntactDB(e)
    BY <1>2, <2>2, <2>3, <2>5 DEF IntactDB
  <2> QED BY <1>2, <2>3, <2>4, <2>6 DEF e
<1> QED BY <1>6, <1>7

-----------------------------------------------------------------------------
(* Sums and counts are numbers. *)

\* The bytes of a table of sizes are a natural number.
LEMMA BytesType ==
  ASSUME NEW D, NEW f, IsTable(f, D, Nat)
  PROVE  Bytes(f) \in Nat
<1> DEFINE U == {{x} \X (1 .. f[x]) : x \in DOMAIN f}
           g == [x \in DOMAIN f |-> {x} \X (1 .. f[x])]
<1>1. IsFiniteSet(DOMAIN f) /\ \A x \in DOMAIN f : f[x] \in Nat
  BY DEF IsTable
<1>2. IsFiniteSet(U)
  <2>1. g \in Surjection(DOMAIN f, U)
    BY DEF Surjection
  <2> QED BY <1>1, <2>1, FS_Surjection
<1>3. \A x \in DOMAIN f : IsFiniteSet({x} \X (1 .. f[x]))
  <2> TAKE x \in DOMAIN f
  <2>1. IsFiniteSet({x}) BY FS_Singleton
  <2>2. IsFiniteSet(1 .. f[x]) BY <1>1, FS_Interval
  <2> QED BY <2>1, <2>2, FS_Product
<1>4. IsFiniteSet(UNION U)
  BY <1>2, <1>3, FS_UNION
<1> QED BY <1>4, FS_CardinalityType DEF Bytes

\* loadStorageUsage computes numbers.
LEMMA UsageType ==
  ASSUME NEW d, IsDatabase(d)
  PROVE  Charged(d) \in Int /\ Cardinality(DOMAIN d.messages) \in Int
<1>1. Bytes(d.blobs) \in Nat /\ Bytes(d.pending) \in Nat
  BY BytesType DEF IsDatabase
<1>2. Cardinality(DOMAIN d.messages) \in Nat
  BY FS_CardinalityType DEF IsDatabase, IsTable
<1> QED BY <1>1, <1>2 DEF Charged

\* The locals of Save when no delivery is under way.
LEMMA NoSaveType == IsSave(NoSave)
BY EmptyTable DEF IsSave, NoSave

\* normalizeRecipient yields an address.
LEMMA NormalizedAddress == ASSUME NEW a \in Address PROVE normalizeRecipient(a) \in Address
BY DEF normalizeRecipient, Address, Domains

\* Save lists its normalized recipients, finitely many.
LEMMA RankType ==
  ASSUME NEW list \in Seq(Address)
  PROVE  IsTable(Rank(list), Address, Nat) /\ DOMAIN Rank(list) = Recipients(list)
<1>1. \A k \in DOMAIN list : normalizeRecipient(list[k]) \in Address
  BY NormalizedAddress
<1>2. IsFiniteSet(Recipients(list))
  <2>1. [k \in DOMAIN list |-> normalizeRecipient(list[k])]
          \in Surjection(DOMAIN list, Recipients(list))
    BY DEF Surjection, Recipients
  <2>2. IsFiniteSet(DOMAIN list)
    BY FS_Interval
  <2> QED BY <2>1, <2>2, FS_Surjection
<1>3. \A r \in Recipients(list) :
        Cardinality({q \in Recipients(list) :
          \E j, k \in DOMAIN list : FirstAt(list, q, j) /\ FirstAt(list, r, k) /\ j <= k}) \in Nat
  BY <1>2, FS_Subset, FS_CardinalityType
<1> QED BY <1>1, <1>2, <1>3 DEF Rank, IsTable, Recipients

-----------------------------------------------------------------------------
(* The other changes to the tables. *)

\* Replacing the deletion queue by one that names no blob keeps a database
\* intact.
LEMMA QueueIntact ==
  ASSUME NEW d, IsDatabase(d), NEW P, IsTable(P, Paths, Nat),
         DOMAIN P \cap DOMAIN d.blobs = {}
  PROVE  LET e == [d EXCEPT !.pending = P]
         IN  /\ IsDatabase(e) /\ e.pending = P /\ e.messages = d.messages
             /\ e.blobs = d.blobs /\ e.refs = d.refs /\ e.legacy = d.legacy
             /\ IntactDB(d) => IntactDB(e)
<1> DEFINE e == [d EXCEPT !.pending = P]
<1>1. /\ e.pending = P /\ e.messages = d.messages
      /\ e.blobs = d.blobs /\ e.refs = d.refs /\ e.legacy = d.legacy
      /\ e = [legacy |-> e.legacy, messages |-> e.messages, blobs |-> e.blobs,
              refs |-> e.refs, pending |-> e.pending]
  BY DEF IsDatabase
<1> HIDE DEF e
<1>2. IsDatabase(e)
  BY <1>1 DEF IsDatabase
<1>3. IntactDB(d) => IntactDB(e)
  BY <1>1 DEF IntactDB, Referrers
<1> QED BY <1>1, <1>2, <1>3 DEF e

\* A path that is not a blob can be queued for deletion.
LEMMA EnqueueIntact ==
  ASSUME NEW d, IsDatabase(d), NEW p \in Paths, NEW n \in Nat, p \notin DOMAIN d.blobs,
         IntactDB(d)
  PROVE  LET e == EnqueueDeletion(d, p, n)
         IN  /\ IsDatabase(e) /\ IntactDB(e) /\ e.messages = d.messages
             /\ e.blobs = d.blobs /\ e.refs = d.refs /\ e.legacy = d.legacy
<1>1. IsTable(d.pending, Paths, Nat) BY DEF IsDatabase
<1>2. IsTable(Put(d.pending, p, n), Paths, Nat) BY <1>1, PutTable
<1>3. DOMAIN Put(d.pending, p, n) \cap DOMAIN d.blobs = {}
  BY DEF Put, IntactDB
<1> QED BY <1>2, <1>3, QueueIntact DEF EnqueueDeletion

\* The rows of a delivery are a table.
LEMMA NewRowsType ==
  ASSUME IsSave(sv), sv.blob \in BlobPaths, NEW base \in Nat
  PROVE  LET rows == NewRows(base)
         IN  /\ DOMAIN rows = {<<sv.blob, r>> : r \in DOMAIN sv.rank}
             /\ \A i \in DOMAIN rows : rows[i].blob = sv.blob /\ rows[i].size = sv.size
             /\ IsTable(rows, MessageIds, Row)
<1> DEFINE R == DOMAIN sv.rank
           rows == NewRows(base)
<1>1. /\ IsTable(sv.rank, Address, Nat) /\ sv.size \in Nat
      /\ sv.received + MessageTTL \in Nat /\ sv.received \in Nat
  BY ConstantsAssumption, SMTT(60) DEF IsSave
<1>2. DOMAIN rows = {<<sv.blob, r>> : r \in R}
  BY DEF NewRows
<1>3. \A r \in R : rows[<<sv.blob, r>>] =
         [rcpt |-> r, blob |-> sv.blob, size |-> sv.size, received |-> sv.received,
          expires |-> sv.received + MessageTTL, rowid |-> base + sv.rank[r]]
  BY DEF NewRows
<1>4. \A r \in R : r \in Address /\ base + sv.rank[r] \in Nat
  BY <1>1 DEF IsTable
<1>5. \A r \in R : /\ rows[<<sv.blob, r>>] \in Row
                   /\ rows[<<sv.blob, r>>].blob = sv.blob /\ rows[<<sv.blob, r>>].size = sv.size
  <2> TAKE r \in R
  <2> DEFINE n == base + sv.rank[r]
             x == sv.received + MessageTTL
  <2>1. r \in Address /\ n \in Nat /\ x \in Nat
    BY <1>1, <1>4
  <2>2. rows[<<sv.blob, r>>] =
          [rcpt |-> r, blob |-> sv.blob, size |-> sv.size, received |-> sv.received,
           expires |-> x, rowid |-> n]
    BY <1>3
  <2> HIDE DEF n, x, rows
  <2> QED BY <1>1, <2>1, <2>2 DEF Row
<1>6. IsFiniteSet(DOMAIN rows)
  <2> DEFINE T == {<<sv.blob, r>> : r \in R}
             f == [r \in R |-> <<sv.blob, r>>]
  <2>1. f \in Surjection(R, T)
    BY DEF Surjection
  <2>2. IsFiniteSet(R)
    BY <1>1 DEF IsTable
  <2>3. IsFiniteSet(T)
    BY <2>1, <2>2, FS_Surjection
  <2> QED BY <1>2, <2>3
<1>7. DOMAIN rows \subseteq MessageIds
  BY <1>2, <1>4 DEF MessageIds
<1>8. rows = [i \in DOMAIN rows |-> rows[i]]
  BY DEF NewRows
<1> HIDE DEF rows
<1>9. \A i \in DOMAIN rows : rows[i] \in Row /\ rows[i].blob = sv.blob /\ rows[i].size = sv.size
  BY <1>2, <1>5
<1>10. IsTable(rows, MessageIds, Row)
  BY <1>6, <1>7, <1>8, <1>9 DEF IsTable
<1> QED BY <1>2, <1>9, <1>10 DEF rows

\* The rows of a delivery, whose blob is new, keep a database intact.
LEMMA InsertIntact ==
  ASSUME IsDatabase(db), IntactDB(db), IsSave(sv), sv.blob \in BlobPaths,
         sv.blob \notin DOMAIN db.blobs, sv.blob \notin DOMAIN db.pending,
         DOMAIN sv.rank # {}, NEW base \in Nat
  PROVE  LET e == [db EXCEPT !.messages = Merge(@, NewRows(base)),
                             !.blobs = Put(@, sv.blob, sv.size),
                             !.refs = Put(@, sv.blob, Cardinality(DOMAIN sv.rank))]
         IN  /\ IsDatabase(e) /\ IntactDB(e) /\ e.legacy = db.legacy
             /\ e.blobs = Put(db.blobs, sv.blob, sv.size) /\ e.pending = db.pending
<1> DEFINE d == db
           b == sv.blob
           size == sv.size
           R == DOMAIN sv.rank
           rows == NewRows(base)
           M == Merge(d.messages, rows)
           B == Put(d.blobs, b, size)
           N == Put(d.refs, b, Cardinality(R))
           e == [d EXCEPT !.messages = M, !.blobs = B, !.refs = N]
<1>0. /\ size \in Nat /\ IsFiniteSet(R) /\ R # {}
      /\ IsDatabase(d) /\ IntactDB(d)
      /\ b \in BlobPaths /\ b \notin DOMAIN d.blobs /\ b \notin DOMAIN d.pending
  BY DEF IsSave, IsTable
<1>14. /\ IsTable(rows, MessageIds, Row) /\ DOMAIN rows = {<<b, r>> : r \in R}
       /\ \A i \in DOMAIN rows : rows[i].blob = b /\ rows[i].size = size
  BY NewRowsType
<1> HIDE DEF d, b, size, R, rows
<1>1. /\ IsTable(d.messages, MessageIds, Row) /\ IsTable(d.blobs, BlobPaths, Nat)
      /\ IsTable(d.refs, BlobPaths, Nat) /\ IsTable(d.pending, Paths, Nat)
      /\ d.legacy \in BOOLEAN
  BY <1>0 DEF IsDatabase
<1>2. Cardinality(R) \in Nat /\ Cardinality(R) # 0
  BY <1>0, FS_CardinalityType, FS_EmptySet
<1>3. DOMAIN rows \cap DOMAIN d.messages = {}
  BY <1>0, <1>14 DEF IntactDB
<1>4. /\ IsTable(M, MessageIds, Row) /\ DOMAIN M = DOMAIN d.messages \cup DOMAIN rows
      /\ \A i \in DOMAIN d.messages : M[i] = d.messages[i]
      /\ \A i \in DOMAIN rows : M[i] = rows[i]
  <2>1. IsTable(M, MessageIds, Row) BY <1>1, <1>14, MergeTable
  <2> QED BY <1>3, <2>1 DEF Merge
<1>5. /\ IsTable(B, BlobPaths, Nat) /\ DOMAIN B = DOMAIN d.blobs \cup {b} /\ B[b] = size
      /\ \A c \in DOMAIN d.blobs : B[c] = d.blobs[c]
  <2>1. IsTable(B, BlobPaths, Nat) BY <1>0, <1>1, PutTable
  <2> QED BY <1>0, <2>1 DEF Put
<1>6. /\ IsTable(N, BlobPaths, Nat) /\ DOMAIN N = DOMAIN d.refs \cup {b}
      /\ N[b] = Cardinality(R)
      /\ \A c \in DOMAIN d.blobs : N[c] = d.refs[c]
  <2>1. IsTable(N, BlobPaths, Nat) BY <1>0, <1>1, <1>2, PutTable
  <2> QED BY <1>0, <2>1 DEF Put, IntactDB
<1> HIDE DEF M, B, N, e
<1>13. e = [d EXCEPT !.messages = M, !.blobs = B, !.refs = N]
  BY DEF e
<1>7. /\ e.messages = M /\ e.blobs = B /\ e.refs = N /\ e.pending = d.pending
      /\ e.legacy = d.legacy
      /\ e = [legacy |-> e.legacy, messages |-> e.messages, blobs |-> e.blobs,
              refs |-> e.refs, pending |-> e.pending]
  BY <1>0, <1>13 DEF IsDatabase
<1>8. IsDatabase(e)
  BY <1>0, <1>1, <1>4, <1>5, <1>6, <1>7 DEF IsDatabase
<1>9. Referrers(e, b) = {<<b, r>> : r \in R}
  <2>1. \A i \in DOMAIN d.messages : d.messages[i].blob # b
    BY <1>0 DEF IntactDB
  <2> QED BY <1>4, <1>7, <1>14, <2>1 DEF Referrers
<1>10. Cardinality(Referrers(e, b)) = Cardinality(R)
  <2> DEFINE f == [r \in R |-> <<b, r>>]
             T == {<<b, r>> : r \in R}
  <2>1. f \in Bijection(R, T)
    BY DEF Bijection, Injection, Surjection, IsInjective
  <2>2. Cardinality(T) = Cardinality(R)
    BY <1>0, <2>1, FS_Bijection DEF ExistsBijection
  <2> QED BY <1>9, <2>2
<1>11. \A c \in DOMAIN d.blobs : Referrers(e, c) = Referrers(d, c)
  BY <1>0, <1>4, <1>7, <1>14 DEF Referrers
<1>12. IntactDB(e)
  <2>1. DOMAIN e.refs = DOMAIN e.blobs /\ DOMAIN e.blobs \cap DOMAIN e.pending = {}
    BY <1>0, <1>5, <1>6, <1>7 DEF IntactDB
  <2>2. \A c \in DOMAIN e.blobs :
          e.refs[c] = Cardinality(Referrers(e, c)) /\ e.refs[c] >= 1
    BY <1>0, <1>2, <1>5, <1>6, <1>7, <1>10, <1>11 DEF IntactDB
  <2>3. \A i \in DOMAIN e.messages :
          /\ e.messages[i].blob = i[1] /\ i[1] \in DOMAIN e.blobs
          /\ e.messages[i].size = e.blobs[e.messages[i].blob]
    <3> TAKE i \in DOMAIN e.messages
    <3>1. CASE i \in DOMAIN d.messages
      BY <1>0, <1>4, <1>5, <1>7, <3>1 DEF IntactDB
    <3>2. CASE i \in DOMAIN rows
      BY <1>4, <1>5, <1>7, <1>14, <3>2
    <3> QED BY <1>4, <1>7, <3>1, <3>2
  <2> QED BY <1>0, <2>1, <2>2, <2>3 DEF IntactDB
<1> QED BY <1>7, <1>8, <1>12 DEF e, M, B, N, d, b, size, R, rows

-----------------------------------------------------------------------------
(* The steps.  Each lemma takes the actions of one operation, one step per  *)
(* action and under it one per conjunct of StoreInv that needs an argument.  *)

\* The process ends: what it kept in memory goes, the tables and the
\* directory stay usable.
LEMMA HaltInv ==
  ASSUME StoreInv, NEW reason \in {"none", "io", "unlink", "missing"}, Halt(reason),
         UNCHANGED <<db, now>>, TypeDirectory', BlobsOnDisk',
         db.legacy => UNCHANGED disk
  PROVE  StoreInv'
<1> USE DEF StoreInv, Halt, disk
<1>1. TypeTables' /\ IsSave(sv)'
  BY EmptyDatabase, NoSaveType DEF TypeOK, TypeTables
<1>2. storageFault' \in BOOLEAN
  OBVIOUS
<1>3. TypeMemory'
  BY <1>2 DEF TypeOK, TypeMemory
<1>4. TypeControl'
  BY DEF TypeOK, TypeControl, NoDrain, NoCleanup, NoReader, Labels
<1>5. ReferencesIntact' /\ InTx'
  BY DEF ReferencesIntact, InTx
<1>6. Staged' /\ Draining'
  BY DEF Staged, Draining, DrainLabels
<1>7. Unmigrated'
  BY DEF Unmigrated, NoCleanup
<1> QED BY <1>1, <1>3, <1>4, <1>5, <1>6, <1>7 DEF TypeOK

\* Changing files that are no blobs leaves the blobs where they are.
LEMMA OtherFiles ==
  ASSUME BlobsOnDisk, NEW Q, Q \cap DOMAIN db.blobs = {}, db' = db,
         \A p \in DOMAIN files \ Q : p \in DOMAIN files' /\ files'[p] = files[p],
         durable' \in {durable, files'}
  PROVE  BlobsOnDisk'
BY DEF BlobsOnDisk

\* drainPendingLocked: only queued files are unlinked, and a queue entry is
\* removed only when its file is gone from the synced directory.
LEMMA DrainInv == ASSUME StoreInv, Drain PROVE StoreInv'
<1> USE ConstantsAssumption DEF StoreInv, TypeOK, TypeTables, TypeDirectory, TypeMemory,
      TypeControl, ReferencesIntact, Staged, Draining, InTx, BlobsOnDisk, Unmigrated,
      mem, disk, proc, env, SubBlobs, Labels, DrainLabels
<1>1. CASE DrainSelect
  <2> USE <1>1 DEF DrainSelect
  <2>1. dr'.batch \subseteq DOMAIN db.pending
    BY DEF FirstPaths
  <2>2. DOMAIN db.pending \subseteq Paths
    BY DEF IsDatabase, IsTable
  <2>3. TypeControl'
    BY <2>1, <2>2
  <2> QED BY <2>1, <2>3, SMTT(60)
<1>2. CASE DrainUnlink
  <2> USE <1>2 DEF DrainUnlink
  <2>1. PICK stuck \in SUBSET (dr.batch \cap DOMAIN files) :
          /\ files' = Without(files, dr.batch \ stuck)
          /\ dr' = [dr EXCEPT !.removed = dr.batch \ stuck,
                              !.err = IF stuck = {} THEN "none" ELSE "unlink"]
    OBVIOUS
  <2>2. TypeControl'
    BY <2>1
  <2>3. /\ DOMAIN files' = DOMAIN files \ dr'.removed
        /\ \A p \in DOMAIN files' : files'[p] = files[p]
    BY <2>1 DEF Without
  <2>4. TypeDirectory'
    BY <2>1, WithoutTable
  <2>5. Draining'
    BY <2>1, <2>3
  <2>6. BlobsOnDisk'
    <3>1. DOMAIN db.blobs \cap DOMAIN db.pending = {}
      BY DEF IntactDB
    <3>2. DOMAIN db.blobs \cap dr'.removed = {}
      BY <2>1, <3>1
    <3>3. \A p \in DOMAIN files \ dr'.removed : p \in DOMAIN files' /\ files'[p] = files[p]
      BY <2>3
    <3>4. db' = db /\ durable' = durable /\ BlobsOnDisk
      OBVIOUS
    <3> HIDE DEF StoreInv, BlobsOnDisk
    <3> QED BY <3>2, <3>3, <3>4, OtherFiles
  <2>7. TypeOK'
    BY <2>2, <2>4
  <2>8. ReferencesIntact' /\ Staged' /\ InTx' /\ Unmigrated'
    BY <2>1
  <2> HIDE DEF TypeOK, ReferencesIntact, Staged, Draining, InTx, BlobsOnDisk, Unmigrated
  <2> QED BY <2>5, <2>6, <2>7, <2>8
<1>3. CASE DrainSync
  BY <1>3 DEF DrainSync, SyncDirectory
<1>4. CASE DrainCommit
  <2> USE <1>4 DEF DrainCommit
  <2> DEFINE P == Without(db.pending, dr.removed)
  <2>1. IsTable(db.pending, Paths, Nat)
    BY DEF IsDatabase
  <2>2. IsTable(P, Paths, Nat) /\ DOMAIN P \cap DOMAIN db.blobs = {}
    <3>1. IsTable(P, Paths, Nat) BY <2>1, WithoutTable
    <3> QED BY <3>1 DEF Without, IntactDB
  <2>5. db' = [db EXCEPT !.pending = P]
    OBVIOUS
  <2> HIDE DEF P
  <2>3. /\ IsDatabase(db') /\ db'.messages = db.messages /\ db'.blobs = db.blobs
        /\ db'.refs = db.refs /\ db'.legacy = db.legacy
        /\ IntactDB(db) => IntactDB(db')
    BY <2>2, <2>5, QueueIntact, SMTT(60)
  <2>4. TypeMemory'
    <3>1. Reclaimed \in Nat
      <4>1. IsTable(Only(db.pending, dr.removed), Paths, Nat)
        <5>1. IsFiniteSet(DOMAIN db.pending \cap dr.removed)
          BY <2>1, FS_Subset DEF IsTable
        <5> QED BY <2>1, <5>1 DEF IsTable, Only
      <4> QED BY <4>1, BytesType DEF Reclaimed
    <3>2. storedBytes' \in Int
      BY <3>1
    <3> QED BY <3>2
  <2> QED BY <2>3, <2>4, SMTT(30)
<1>5. CASE DrainFails
  <2>1. TypeOK'
    BY <1>5 DEF DrainFails
  <2>2. ReferencesIntact' /\ Staged' /\ InTx' /\ Unmigrated' /\ BlobsOnDisk'
    BY <1>5 DEF DrainFails
  <2>3. Draining'
    BY <1>5 DEF DrainFails
  <2> HIDE DEF TypeOK, ReferencesIntact, Staged, Draining, InTx, BlobsOnDisk, Unmigrated
  <2> QED BY <2>1, <2>2, <2>3
<1> QED BY <1>1, <1>2, <1>3, <1>4, <1>5 DEF Drain

-----------------------------------------------------------------------------
\* The cursor that a caller of drainPendingLocked stores is a path or "".
LEMMA CursorType ==
  ASSUME StoreInv, NEW c \in {0} \cup dr.batch
  PROVE  c \in Nat
BY ConstantsAssumption DEF StoreInv, TypeOK, TypeControl, Paths

(* The locals of Save after each of its assignments. *)

\* A delivery is taken in.
LEMMA SaveStarts ==
  ASSUME NEW rank, IsTable(rank, Address, Nat), NEW size \in Nat,
         sv' = [NoSave EXCEPT !.rank = rank, !.size = size]
  PROVE  IsSave(sv') /\ sv'.rank = rank
<1>1. IsSave(NoSave) BY NoSaveType
<1> QED BY <1>1 DEF IsSave

\* The names of its files are drawn.
LEMMA SaveNames ==
  ASSUME IsSave(sv), NEW b \in BlobPaths, NEW t \in TmpPaths, NEW n \in Nat,
         sv' = [sv EXCEPT !.blob = b, !.tmp = t, !.received = n]
  PROVE  IsSave(sv') /\ sv'.blob = b /\ sv'.tmp = t /\ sv'.rank = sv.rank
BY DEF IsSave

\* Save is going to return an error.
LEMMA SaveFails ==
  ASSUME IsSave(sv), sv' = [sv EXCEPT !.err = TRUE]
  PROVE  IsSave(sv') /\ sv'.blob = sv.blob /\ sv'.tmp = sv.tmp /\ sv'.rank = sv.rank
BY DEF IsSave

\* A file is to be discarded.
LEMMA SaveDrops ==
  ASSUME IsSave(sv), NEW p \in Paths,
         \/ sv' = [sv EXCEPT !.drop = p]
         \/ sv' = [sv EXCEPT !.drop = p, !.err = TRUE]
  PROVE  IsSave(sv') /\ sv'.drop = p
BY DEF IsSave

\* Usage is projected, or a victim counted.
LEMMA SaveProjects ==
  ASSUME IsSave(sv), NEW p \in Int, NEW n \in Nat,
         \/ sv' = [sv EXCEPT !.projected = p, !.before = n]
         \/ sv' = [sv EXCEPT !.projected = p, !.deleted = n]
  PROVE  IsSave(sv') /\ sv'.blob = sv.blob /\ sv'.size = sv.size /\ sv'.rank = sv.rank
BY DEF IsSave

\* A staging file is no blob.
LEMMA TmpNoBlob ==
  ASSUME StoreInv, NEW t \in TmpPaths
  PROVE  {t} \cap DOMAIN db.blobs = {} /\ t \in Paths
BY ConstantsAssumption DEF StoreInv, TypeOK, TypeTables, IsDatabase, IsTable, Paths

\* Save: the staged file has a name of its own, and is
\* complete and synced before the transaction that refers to it.
LEMMA SaveInv == ASSUME StoreInv, Save PROVE StoreInv'
<1> USE ConstantsAssumption DEF StoreInv, TypeOK, TypeTables, TypeDirectory, TypeMemory,
      TypeControl, ReferencesIntact, Staged, Draining, InTx, BlobsOnDisk, Unmigrated,
      mem, disk, proc, env, SubBlobs, Labels, DrainLabels
<1>1. CASE SaveBegin
  <2>1. PICK d \in Deliveries :
          /\ Recipients(d.rcpts) # {}
          /\ sv' = [NoSave EXCEPT !.rank = Rank(d.rcpts), !.size = d.size]
    BY <1>1 DEF SaveBegin
  <2>2. d.rcpts \in Seq(Address) /\ d.size \in Nat
    OBVIOUS
  <2>3. IsTable(Rank(d.rcpts), Address, Nat) /\ DOMAIN Rank(d.rcpts) # {}
    BY <2>1, <2>2, RankType
  <2>4. IsSave(sv)' /\ DOMAIN sv'.rank # {}
    BY <2>1, <2>2, <2>3, SaveStarts
  <2> QED BY <1>1, <2>4 DEF SaveBegin, CallDrain, NoDrain
<1>2. CASE SaveDrained
  <2>1. PICK c \in {0} \cup dr.batch : pendingCursor' = c
    BY <1>2 DEF SaveDrained
  <2>2. pendingCursor' \in Nat
    BY <2>1, CursorType
  <2> QED BY <1>2, <2>2 DEF SaveDrained, Return, NoDrain
<1>3. CASE SaveAdmit
  <2>1. PICK b \in BlobPaths, t \in TmpPaths :
          /\ Fresh(b) /\ Fresh(t) /\ files' = Put(files, t, 0)
          /\ sv' = [sv EXCEPT !.blob = b, !.tmp = t, !.received = now]
    <3> HIDE DEF StoreInv
    <3> QED BY <1>3 DEF SaveAdmit
  <2>2. /\ DOMAIN files' = DOMAIN files \cup {t}
        /\ \A p \in DOMAIN files : p # t => files'[p] = files[p]
    BY <2>1 DEF Put
  <2>3. IsTable(files', Paths, Nat)
    BY <2>1, PutTable, TmpNoBlob
  <2>4. IsSave(sv)' /\ sv'.blob = b /\ sv'.tmp = t /\ sv'.rank = sv.rank
    <3>1. IsSave(sv) /\ now \in Nat OBVIOUS
    <3> HIDE DEF StoreInv
    <3> QED BY <2>1, <3>1, SaveNames
  <2>5. Staged'
    <3>1. b \notin DOMAIN db.blobs /\ b \notin DOMAIN db.pending
      BY <2>1 DEF Fresh
    <3> QED BY <1>3, <2>2, <2>4, <3>1 DEF SaveAdmit
  <2>6. BlobsOnDisk'
    BY <1>3, <2>2, TmpNoBlob, OtherFiles, SMTT(30) DEF SaveAdmit
  <2> QED BY <1>3, <2>3, <2>4, <2>5, <2>6, SMTT(30) DEF SaveAdmit
<1>4. CASE SaveRefused
  <2>1. IsSave(sv)'
    BY <1>4, SaveFails DEF SaveRefused
  <2> QED BY <1>4, <2>1 DEF SaveRefused
<1>5. CASE SaveWrite
  <2>1. /\ DOMAIN files' = DOMAIN files /\ files'[sv.tmp] = sv.size
        /\ \A p \in DOMAIN files : p # sv.tmp => files'[p] = files[p]
    BY <1>5 DEF SaveWrite
  <2>2. sv.size \in Nat /\ sv.tmp \in TmpPaths
    BY <1>5 DEF SaveWrite, IsSave
  <2>3. IsTable(files', Paths, Nat)
    BY <1>5, <2>2 DEF SaveWrite, IsTable
  <2>4. BlobsOnDisk'
    <3>1. db' = db /\ durable' = durable /\ BlobsOnDisk
      BY <1>5 DEF SaveWrite
    <3> HIDE DEF StoreInv, BlobsOnDisk
    <3> QED BY <2>1, <2>2, <3>1, TmpNoBlob, OtherFiles
  <2> QED BY <1>5, <2>1, <2>3, <2>4 DEF SaveWrite
<1>6. CASE SaveWriteFails
  <2>0. sv.size \in Nat /\ sv.tmp \in TmpPaths
    BY <1>6 DEF SaveWriteFails, IsSave
  <2>1. PICK n \in 0 .. sv.size : files' = [files EXCEPT ![sv.tmp] = n]
    BY <1>6 DEF SaveWriteFails
  <2>2. /\ DOMAIN files' = DOMAIN files
        /\ \A p \in DOMAIN files : p # sv.tmp => files'[p] = files[p]
    <3> HIDE DEF StoreInv
    <3> QED BY <2>1
  <2>3. IsTable(files', Paths, Nat)
    <3>1. n \in Nat /\ IsTable(files, Paths, Nat) BY <2>0
    <3> HIDE DEF StoreInv
    <3> QED BY <2>1, <2>2, <3>1 DEF IsTable
  <2>4. BlobsOnDisk'
    <3>1. db' = db /\ durable' = durable /\ BlobsOnDisk
      BY <1>6 DEF SaveWriteFails
    <3> HIDE DEF StoreInv, BlobsOnDisk
    <3>2. {sv.tmp} \cap DOMAIN db.blobs = {} BY <2>0, TmpNoBlob
    <3>3. \A p \in DOMAIN files \ {sv.tmp} : p \in DOMAIN files' /\ files'[p] = files[p] BY <2>2
    <3> QED BY <3>1, <3>2, <3>3, OtherFiles
  <2>5. IsSave(sv)' /\ sv'.tmp = sv.tmp
    BY <1>6, SaveFails DEF SaveWriteFails
  <2>6. Staged'
    BY <1>6, <2>2, <2>5 DEF SaveWriteFails
  <2>7. TypeOK'
    BY <1>6, <2>3, <2>5, SMTT(30) DEF SaveWriteFails
  <2>8. ReferencesIntact' /\ Draining' /\ InTx' /\ Unmigrated'
    BY <1>6 DEF SaveWriteFails
  <2> HIDE DEF TypeOK, ReferencesIntact, Staged, Draining, InTx, BlobsOnDisk, Unmigrated
  <2> QED BY <2>4, <2>6, <2>7, <2>8
<1>7. CASE SaveRename
  <2> DEFINE F == Without(files, {sv.tmp})
  <2>0. pc = "saveRename" /\ files' = Put(F, sv.blob, files[sv.tmp])
    BY <1>7 DEF SaveRename
  <2>1. /\ DOMAIN files' = (DOMAIN files \ {sv.tmp}) \cup {sv.blob}
        /\ \A p \in DOMAIN files \ {sv.tmp, sv.blob} : files'[p] = files[p]
        /\ files'[sv.blob] = files[sv.tmp]
    BY <2>0 DEF Put, Without
  <2>2. /\ sv.tmp \in TmpPaths /\ sv.tmp \in DOMAIN files /\ files[sv.tmp] = sv.size
        /\ sv.blob \notin DOMAIN db.blobs /\ sv.blob \in Paths
    BY <2>0 DEF Paths
  <2>3. IsTable(files', Paths, Nat)
    <3>1. IsTable(F, Paths, Nat)
      BY WithoutTable
    <3>2. files[sv.tmp] \in Nat
      BY <2>2 DEF IsTable
    <3> QED BY <2>0, <2>2, <3>1, <3>2, PutTable
  <2>4. BlobsOnDisk'
    <3>1. {sv.tmp, sv.blob} \cap DOMAIN db.blobs = {}
      <4> HIDE DEF StoreInv
      <4> QED BY <2>2, TmpNoBlob
    <3>2. db' = db /\ durable' = durable /\ BlobsOnDisk
      BY <1>7 DEF SaveRename
    <3> HIDE DEF StoreInv, BlobsOnDisk
    <3>3. \A p \in DOMAIN files \ {sv.tmp, sv.blob} : p \in DOMAIN files' /\ files'[p] = files[p]
      BY <2>1
    <3> QED BY <3>1, <3>2, <3>3, OtherFiles
  <2>5. Staged'
    <3>1. sv.blob \in DOMAIN files' /\ files'[sv.blob] = sv.size
      BY <2>1, <2>2
    <3>2. /\ pc' = "saveSync" /\ UNCHANGED <<sv, db, dr>>
          /\ sv.blob \in BlobPaths /\ DOMAIN sv.rank # {}
          /\ sv.blob \notin DOMAIN db.blobs /\ sv.blob \notin DOMAIN db.pending
      BY <1>7 DEF SaveRename
    <3> HIDE DEF StoreInv
    <3> QED BY <3>1, <3>2
  <2>6. TypeOK'
    BY <1>7, <2>3 DEF SaveRename
  <2>7. ReferencesIntact' /\ Draining' /\ InTx' /\ Unmigrated'
    BY <1>7 DEF SaveRename
  <2> HIDE DEF TypeOK, ReferencesIntact, Staged, Draining, InTx, BlobsOnDisk, Unmigrated
  <2> QED BY <2>4, <2>5, <2>6, <2>7
<1>8. CASE SaveRenameFails
  <2>1. IsSave(sv)' /\ sv'.tmp = sv.tmp
    BY <1>8, SaveFails DEF SaveRenameFails
  <2> QED BY <1>8, <2>1, SMTT(30) DEF SaveRenameFails
<1>9. CASE SaveSync
  BY <1>9 DEF SaveSync, SyncDirectory
<1>10. CASE SaveInsert
  <2>1. PICK base \in {0} \cup {db.messages[i].rowid : i \in DOMAIN db.messages} :
          tx' = [db EXCEPT !.messages = Merge(@, NewRows(base)),
                           !.blobs = Put(@, sv.blob, sv.size),
                           !.refs = Put(@, sv.blob, Cardinality(DOMAIN sv.rank))]
    BY <1>10 DEF SaveInsert
  <2>2. base \in Nat
    BY SMTT(60) DEF IsDatabase, IsTable, Row
  <2>3. /\ pc = "saveInsert" /\ IsSave(sv) /\ sv.blob \in BlobPaths /\ ~db.legacy
        /\ IsDatabase(db) /\ IntactDB(db) /\ DOMAIN sv.rank # {}
        /\ sv.blob \notin DOMAIN db.blobs /\ sv.blob \notin DOMAIN db.pending
    BY <1>10 DEF SaveInsert
  <2>6. /\ IsDatabase(tx') /\ IntactDB(tx') /\ tx'.legacy = db.legacy
        /\ tx'.blobs = Put(db.blobs, sv.blob, sv.size) /\ tx'.pending = db.pending
    <3> HIDE DEF StoreInv
    <3> QED BY <2>1, <2>2, <2>3, InsertIntact
  <2>7. /\ IsSave(sv)' /\ sv'.blob = sv.blob /\ sv'.size = sv.size /\ sv'.rank = sv.rank
    <3>1. Projected \in Int /\ now \in Nat
      BY SMTT(30) DEF Projected, IsSave
    <3>2. sv' = [sv EXCEPT !.projected = Projected, !.before = now] /\ IsSave(sv)
      BY <1>10 DEF SaveInsert
    <3> HIDE DEF StoreInv
    <3> QED BY <3>1, <3>2, SaveProjects
  <2>8. InTx'
    <3>1. /\ tx'.blobs[sv.blob] = sv.size
          /\ \A p \in DOMAIN tx'.blobs \ {sv.blob} :
               p \in DOMAIN db.blobs /\ tx'.blobs[p] = db.blobs[p]
      BY <2>6 DEF Put
    <3> QED BY <1>10, <2>3, <2>6, <2>7, <3>1 DEF SaveInsert
  <2> QED BY <1>10, <2>6, <2>7, <2>8, SMTT(30) DEF SaveInsert
<1>11. CASE SaveEvict
  <2>1. PICK i \in Evictable :
          /\ tx' = DeleteMessageTx(tx, i)
          /\ sv' = [sv EXCEPT !.projected = @ - Released(tx, i), !.deleted = @ + 1]
    BY <1>11 DEF SaveEvict
  <2>2. IsDatabase(tx) /\ IntactDB(tx) /\ i \in DOMAIN tx.messages /\ IsSave(sv)
    BY <1>11 DEF SaveEvict, Evictable
  <2>3. /\ IsDatabase(tx') /\ IntactDB(tx') /\ tx'.legacy = tx.legacy
        /\ DOMAIN tx'.blobs \subseteq DOMAIN tx.blobs
        /\ \A b \in DOMAIN tx'.blobs : tx'.blobs[b] = tx.blobs[b]
        /\ DOMAIN tx.pending \subseteq DOMAIN tx'.pending
    <3> HIDE DEF StoreInv
    <3> QED BY <2>1, <2>2, DeleteIntact
  <2>4. /\ IsSave(sv)' /\ sv'.blob = sv.blob /\ sv'.size = sv.size /\ sv'.rank = sv.rank
    <3> HIDE DEF StoreInv
    <3>1. Released(tx, i) \in Nat
      BY <2>2 DEF Released, IntactDB, IsDatabase, IsTable
    <3>2. sv.projected - Released(tx, i) \in Int /\ sv.deleted + 1 \in Nat
      BY <2>2, <3>1, SMTT(30) DEF IsSave
    <3> QED BY <2>1, <2>2, <3>2, SaveProjects
  <2>5. InTx'
    BY <1>11, <2>3, <2>4, SMTT(30) DEF SaveEvict
  <2> QED BY <1>11, <2>3, <2>4, <2>5, SMTT(30) DEF SaveEvict
<1>12. CASE SaveCommit
  <2>1. storedBytes' \in Int /\ storedMessages' \in Int
    <3>1. Cardinality(DOMAIN sv.rank) \in Nat
      BY FS_CardinalityType DEF IsSave, IsTable
    <3>2. sv.size \in Nat /\ sv.deleted \in Nat
      BY DEF IsSave
    <3>3. storedBytes \in Int /\ storedMessages \in Int
      OBVIOUS
    <3> HIDE DEF StoreInv
    <3> QED BY <1>12, <3>1, <3>2, <3>3 DEF SaveCommit
  <2>2. TypeTables'
    BY <1>12, EmptyDatabase DEF SaveCommit
  <2>3. TypeControl' /\ TypeMemory'
    BY <1>12, <2>1 DEF SaveCommit, CallDrain, NoDrain
  <2>4. ReferencesIntact' /\ Draining' /\ InTx' /\ Unmigrated' /\ Staged'
    BY <1>12 DEF SaveCommit, CallDrain, NoDrain
  <2>5. BlobsOnDisk'
    BY <1>12 DEF SaveCommit
  <2>6. IsSave(sv)' /\ TypeDirectory'
    BY <1>12 DEF SaveCommit
  <2> HIDE DEF TypeTables, TypeDirectory, TypeMemory, TypeControl, ReferencesIntact, Staged,
               Draining, InTx, BlobsOnDisk, Unmigrated
  <2> QED BY <2>2, <2>3, <2>4, <2>5, <2>6
<1>13. CASE SaveTxFails
  <2>1. sv.blob \in Paths /\ sv.blob \in DOMAIN files /\ sv.blob \notin DOMAIN db.blobs
    BY <1>13 DEF SaveTxFails, Paths
  <2>2. IsSave(sv)' /\ sv'.drop = sv.blob
    BY <1>13, <2>1, SaveDrops DEF SaveTxFails
  <2> QED BY <1>13, <2>1, <2>2, EmptyDatabase, SMTT(30) DEF SaveTxFails, RollBack
<1>14. CASE SavePostDrained
  <2>1. PICK c \in {0} \cup dr.batch : pendingCursor' = c
    BY <1>14 DEF SavePostDrained
  <2>2. pendingCursor' \in Nat
    BY <2>1, CursorType
  <2> QED BY <1>14, <2>2 DEF SavePostDrained, Return, NoDrain
<1>15. CASE SaveRemoveTmp
  <2>1. /\ DOMAIN files' = DOMAIN files \ {sv.tmp} /\ sv.tmp \in TmpPaths
        /\ \A p \in DOMAIN files' : files'[p] = files[p]
    BY <1>15 DEF SaveRemoveTmp, Without
  <2>2. IsTable(files', Paths, Nat)
    BY <1>15, WithoutTable DEF SaveRemoveTmp
  <2>3. BlobsOnDisk'
    <3>1. db' = db /\ durable' = durable /\ BlobsOnDisk
      BY <1>15 DEF SaveRemoveTmp
    <3>2. \A p \in DOMAIN files \ {sv.tmp} : p \in DOMAIN files' /\ files'[p] = files[p]
      BY <2>1
    <3>3. {sv.tmp} \cap DOMAIN db.blobs = {}
      BY <2>1, TmpNoBlob
    <3> HIDE DEF StoreInv, BlobsOnDisk
    <3> QED BY <3>1, <3>2, <3>3, OtherFiles
  <2>4. TypeOK'
    BY <1>15, <2>2 DEF SaveRemoveTmp
  <2>5. ReferencesIntact' /\ Staged' /\ Draining' /\ InTx' /\ Unmigrated'
    BY <1>15 DEF SaveRemoveTmp
  <2> HIDE DEF TypeOK, ReferencesIntact, Staged, Draining, InTx, BlobsOnDisk, Unmigrated
  <2> QED BY <2>3, <2>4, <2>5
<1>16. CASE SaveRemoveTmpFails
  <2>1. /\ sv.tmp \in TmpPaths /\ sv.tmp \in DOMAIN files
        /\ {sv.tmp} \cap DOMAIN db.blobs = {} /\ sv.tmp \in Paths
    BY <1>16, TmpNoBlob DEF SaveRemoveTmpFails
  <2>2. IsSave(sv)' /\ (pc' = "discard" => sv'.drop = sv.tmp)
    <3>1. IsSave(sv) OBVIOUS
    <3>2. \/ sv' = [sv EXCEPT !.drop = sv.tmp] /\ pc' = "discard"
          \/ sv' = sv /\ pc' = "saveReturn"
      BY <1>16 DEF SaveRemoveTmpFails
    <3>3. CASE sv' = [sv EXCEPT !.drop = sv.tmp]
      <4>1. IsSave(sv') /\ sv'.drop = sv.tmp BY ONLY <2>1, <3>1, <3>3, SaveDrops
      <4> QED BY ONLY <4>1
    <3>4. CASE sv' = sv /\ pc' = "saveReturn"
      <4> HIDE DEF IsSave
      <4> QED BY ONLY <3>1, <3>4 DEF IsSave
    <3> QED BY ONLY <3>2, <3>3, <3>4
  <2>3. CASE pc' = "discard"
    <3>1. TypeOK'
      BY <1>16, <2>2, <2>3, SMTT(30) DEF SaveRemoveTmpFails
    <3>3. Staged'
      <4>1. UNCHANGED <<files, db>>
        BY <1>16 DEF SaveRemoveTmpFails
      <4> HIDE DEF StoreInv
      <4> QED BY <2>1, <2>2, <2>3, <4>1
    <3>2. ReferencesIntact' /\ Draining' /\ InTx' /\ BlobsOnDisk' /\ Unmigrated'
      BY <1>16, <2>3 DEF SaveRemoveTmpFails
    <3> HIDE DEF TypeOK, ReferencesIntact, Staged, Draining, InTx, BlobsOnDisk, Unmigrated
    <3> QED BY <3>1, <3>2, <3>3
  <2>4. CASE pc' = "saveReturn"
    BY <1>16, <2>2, <2>4, SMTT(30) DEF SaveRemoveTmpFails
  <2> QED BY <1>16, <2>3, <2>4 DEF SaveRemoveTmpFails
<1>17. CASE SaveReturn
  BY <1>17, NoSaveType DEF SaveReturn
<1>18. CASE Discard
  <2>1. /\ sv.drop \in Paths /\ sv.drop \in DOMAIN files /\ sv.drop \notin DOMAIN db.blobs
        /\ IsDatabase(db) /\ IntactDB(db) /\ ~db.legacy
        /\ db' = EnqueueDeletion(db, sv.drop, files[sv.drop])
    BY <1>18 DEF Discard
  <2>2. files[sv.drop] \in Nat
    BY <2>1 DEF IsTable
  <2>3. /\ IsDatabase(db') /\ IntactDB(db') /\ db'.blobs = db.blobs /\ db'.legacy = db.legacy
    <3> HIDE DEF StoreInv
    <3> QED BY <2>1, <2>2, EnqueueIntact
  <2> QED BY <1>18, <2>1, <2>3 DEF Discard
<1>19. CASE DiscardFails
  <2>1. sv.drop \in DOMAIN files /\ {sv.drop} \cap DOMAIN db.blobs = {}
    BY <1>19 DEF DiscardFails
  <2>2. IsTable(files', Paths, Nat)
    BY <1>19, WithoutTable DEF DiscardFails
  <2>3. TypeDirectory'
    BY <1>19, <2>2 DEF DiscardFails
  <2>4. BlobsOnDisk'
    <3>1. \A p \in DOMAIN files \ {sv.drop} : p \in DOMAIN files' /\ files'[p] = files[p]
      BY <1>19 DEF DiscardFails, Without
    <3>2. db' = db /\ durable' \in {durable, files'} /\ BlobsOnDisk
      BY <1>19 DEF DiscardFails
    <3> HIDE DEF StoreInv, BlobsOnDisk
    <3> QED BY <2>1, <3>1, <3>2, OtherFiles
  <2>5. storedBytes' \in Int
    <3>1. files[sv.drop] \in Nat
      BY <2>1 DEF IsTable
    <3> QED BY <1>19, <3>1 DEF DiscardFails
  <2>6. storageFault' \in BOOLEAN
    BY <1>19 DEF DiscardFails
  <2> QED BY <1>19, <2>3, <2>4, <2>5, <2>6 DEF DiscardFails
<1>20. CASE DiscardLoad
  BY <1>20, UsageType DEF DiscardLoad, LoadStorageUsage, CallDrain, NoDrain
<1>21. CASE DiscardLoadFails
  BY <1>21, UsageType DEF DiscardLoadFails
<1> QED BY <1>1, <1>2, <1>3, <1>4, <1>5, <1>6, <1>7, <1>8, <1>9, <1>10, <1>11, <1>12, <1>13,
           <1>14, <1>15, <1>16, <1>17, <1>18, <1>19, <1>20, <1>21 DEF Save

\* Cleanup returning an error: the transaction is rolled back, or the process
\* ends if main called it.
LEMMA CleanupErrorInv ==
  ASSUME StoreInv, NEW reason \in {"io", "unlink"}, NEW c \in Nat, CleanupError(reason, c)
  PROVE  StoreInv'
<1>1. CASE mode = "starting"
  <2>1. Halt(reason) /\ UNCHANGED <<db, disk, now>>
    BY <1>1 DEF CleanupError, Fatal
  <2>2. TypeDirectory' /\ BlobsOnDisk'
    BY <2>1 DEF disk, StoreInv, TypeOK, TypeDirectory, BlobsOnDisk
  <2> QED BY <2>1, <2>2, HaltInv
<1>2. CASE mode # "starting"
  <2> USE <1>2 DEF CleanupError, StoreInv, TypeOK, disk, proc, env
  <2>1. TypeTables' /\ TypeDirectory' /\ IsSave(sv)'
    BY EmptyDatabase DEF TypeTables, TypeDirectory
  <2>2. TypeMemory'
    BY DEF TypeMemory
  <2>3. TypeControl'
    <3>1. /\ pc' = "free" /\ dr' = NoDrain /\ cl' = NoCleanup
          /\ UNCHANGED <<mode, exit, reader>> /\ TypeControl
      BY DEF Return
    <3> HIDE DEF CleanupError, StoreInv
    <3> QED BY <3>1 DEF TypeControl, NoDrain, NoCleanup, Labels
  <2>4. ReferencesIntact' /\ BlobsOnDisk'
    BY DEF ReferencesIntact, BlobsOnDisk
  <2>5. Staged' /\ Draining' /\ InTx'
    BY DEF Return, Staged, Draining, InTx, DrainLabels
  <2>6. Unmigrated'
    BY DEF Return, Unmigrated, NoCleanup
  <2> QED BY <2>1, <2>2, <2>3, <2>4, <2>5, <2>6
<1> QED BY <1>1, <1>2

\* Cleanup deletes by the same transaction steps as the eviction of Save.
LEMMA CleanupInv == ASSUME StoreInv, Cleanup PROVE StoreInv'
<1> USE ConstantsAssumption DEF StoreInv, TypeOK, TypeTables, TypeDirectory, TypeMemory,
      TypeControl, ReferencesIntact, Staged, Draining, InTx, BlobsOnDisk, Unmigrated,
      mem, disk, proc, env, SubBlobs, Labels, DrainLabels
<1>1. CASE CleanupBegin
  <2>1. cl' \in [active : BOOLEAN, before : Nat, todo : SUBSET MessageIds, count : Nat]
    <3>1. now \in Nat OBVIOUS
    <3> HIDE DEF StoreInv
    <3> QED BY <1>1, <3>1 DEF CleanupBegin, NoCleanup
  <2>2. ~db.legacy /\ mode # "down"
    BY <1>1 DEF CleanupBegin
  <2>3. Unmigrated'
    BY <1>1, <2>2 DEF CleanupBegin
  <2>4. InTx'
    <3>1. cl'.todo = {}
      BY <1>1 DEF CleanupBegin, NoCleanup
    <3> QED BY <1>1, <3>1 DEF CleanupBegin
  <2> QED BY <1>1, <2>1, <2>3, <2>4, SMTT(30) DEF CleanupBegin
<1>2. CASE CleanupSelect
  <2>1. PICK E \in SUBSET ExpiredOf(DOMAIN db.messages, db.messages, cl.before) :
          cl' = [cl EXCEPT !.todo = E, !.count = 0]
    BY <1>2 DEF CleanupSelect
  <2>2. E \subseteq DOMAIN db.messages
    BY DEF ExpiredOf
  <2>3. DOMAIN db.messages \subseteq MessageIds
    BY DEF IsDatabase, IsTable
  <2>4. /\ cl' \in [active : BOOLEAN, before : Nat, todo : SUBSET MessageIds, count : Nat]
        /\ cl'.todo = E /\ cl'.active = cl.active
    BY <2>1, <2>2, <2>3
  <2>5. ~db.legacy /\ IntactDB(db)
    BY <1>2 DEF CleanupSelect
  <2>6. InTx'
    BY <1>2, <2>2, <2>4, <2>5 DEF CleanupSelect
  <2>7. Unmigrated'
    BY <1>2, <2>5 DEF CleanupSelect
  <2> QED BY <1>2, <2>4, <2>6, <2>7, SMTT(30) DEF CleanupSelect
<1>3. CASE CleanupDelete
  <2>1. PICK i \in cl.todo :
          /\ tx' = DeleteMessageTx(tx, i)
          /\ cl' = [cl EXCEPT !.todo = @ \ {i}, !.count = @ + 1]
    BY <1>3 DEF CleanupDelete
  <2>2. IsDatabase(tx) /\ IntactDB(tx) /\ i \in DOMAIN tx.messages
    BY <1>3 DEF CleanupDelete
  <2>3. /\ IsDatabase(tx') /\ IntactDB(tx') /\ tx'.legacy = tx.legacy
        /\ DOMAIN tx'.messages = DOMAIN tx.messages \ {i}
        /\ DOMAIN tx'.blobs \subseteq DOMAIN tx.blobs
        /\ \A b \in DOMAIN tx'.blobs : tx'.blobs[b] = tx.blobs[b]
        /\ DOMAIN tx.pending \subseteq DOMAIN tx'.pending
    <3> HIDE DEF StoreInv
    <3> QED BY <2>1, <2>2, DeleteIntact
  <2>4. /\ cl' \in [active : BOOLEAN, before : Nat, todo : SUBSET MessageIds, count : Nat]
        /\ cl'.todo = cl.todo \ {i} /\ cl'.active = cl.active
    <3>1. /\ cl \in [active : BOOLEAN, before : Nat, todo : SUBSET MessageIds, count : Nat]
          /\ cl.count + 1 \in Nat
      OBVIOUS
    <3> HIDE DEF StoreInv
    <3> QED BY <2>1, <3>1
  <2>5. InTx'
    BY <1>3, <2>3, <2>4, SMTT(60) DEF CleanupDelete
  <2>6. Unmigrated'
    BY <1>3, <2>4 DEF CleanupDelete
  <2> QED BY <1>3, <2>3, <2>4, <2>5, <2>6, SMTT(30) DEF CleanupDelete
<1>4. CASE CleanupCommit
  <2>1. storedMessages' \in Int
    BY <1>4 DEF CleanupCommit
  <2>2. BlobsOnDisk'
    <3>1. 0 \notin DOMAIN tx.blobs
      BY DEF IsDatabase, IsTable
    <3>2. \A b \in DOMAIN tx.blobs : b \in DOMAIN db.blobs /\ tx.blobs[b] = db.blobs[b]
      BY <1>4, <3>1 DEF CleanupCommit
    <3> QED BY <1>4, <3>2 DEF CleanupCommit
  <2>3. TypeTables' /\ TypeDirectory' /\ IsSave(sv)'
    BY <1>4, EmptyDatabase DEF CleanupCommit
  <2>4. TypeControl' /\ TypeMemory'
    BY <1>4, <2>1 DEF CleanupCommit, CallDrain, NoDrain
  <2>5. ReferencesIntact' /\ Draining' /\ InTx' /\ Unmigrated' /\ Staged'
    BY <1>4 DEF CleanupCommit, CallDrain, NoDrain
  <2> HIDE DEF TypeTables, TypeDirectory, TypeMemory, TypeControl, ReferencesIntact, Staged,
               Draining, InTx, BlobsOnDisk, Unmigrated
  <2> QED BY <2>2, <2>3, <2>4, <2>5
<1>5. CASE CleanupTxFails
  <2>1. pendingCursor \in Nat
    OBVIOUS
  <2> HIDE DEF StoreInv
  <2> QED BY <1>5, <2>1, CleanupErrorInv DEF CleanupTxFails
<1>6. CASE CleanupDrained
  <2>1. PICK c \in {0} \cup dr.batch : pendingCursor' = c
    BY <1>6 DEF CleanupDrained
  <2>2. pendingCursor' \in Nat
    BY <2>1, CursorType
  <2>3. cl' \in [active : BOOLEAN, before : Nat, todo : SUBSET MessageIds, count : Nat]
    <3>1. cl \in [active : BOOLEAN, before : Nat, todo : SUBSET MessageIds, count : Nat]
      OBVIOUS
    <3> HIDE DEF StoreInv
    <3>2. CASE cl' = NoCleanup
      BY <3>2 DEF NoCleanup
    <3>3. CASE cl' = [cl EXCEPT !.count = 0]
      BY <3>1, <3>3
    <3> QED BY <1>6, <3>2, <3>3 DEF CleanupDrained
  <2>4. ~db.legacy /\ mode' \in {"down", "starting", "serving"} /\ mode # "down"
    BY <1>6 DEF CleanupDrained
  <2>5. Unmigrated'
    BY <1>6, <2>4 DEF CleanupDrained, Return
  <2> QED BY <1>6, <2>2, <2>3, <2>4, <2>5 DEF CleanupDrained, Return, NoDrain
<1>7. CASE CleanupDrainFailed
  <2>1. PICK c \in {0} \cup dr.batch : CleanupError(dr.err, c)
    BY <1>7 DEF CleanupDrainFailed
  <2>2. c \in Nat
    BY <2>1, CursorType
  <2>3. dr.err \in {"io", "unlink"}
    BY <1>7 DEF CleanupDrainFailed
  <2> HIDE DEF StoreInv
  <2> QED BY <2>1, <2>2, <2>3, CleanupErrorInv
<1> QED BY <1>1, <1>2, <1>3, <1>4, <1>5, <1>6, <1>7 DEF Cleanup

-----------------------------------------------------------------------------
\* The files of a legacy data directory are those of its messages.
LEMMA LegacySizes ==
  /\ IsTable(LegacyFiles, BlobPaths, Nat)
  /\ \A i \in DOMAIN LegacyMail :
       /\ LegacyMail[i].blob \in DOMAIN LegacyFiles
       /\ LegacyFiles[LegacyMail[i].blob] = LegacyMail[i].size
  /\ \A p \in DOMAIN LegacyFiles : \E i \in DOMAIN LegacyMail : LegacyMail[i].blob = p
<1> DEFINE m == LegacyMail
           D == {m[i].blob : i \in DOMAIN m}
           Rows == {m[i] : i \in DOMAIN m}
<1>1. LegacyFiles = [p \in D |-> (CHOOSE r \in Rows : r.blob = p).size]
  BY DEF LegacyFiles, FileSizes
<1>2. \A i \in DOMAIN m : m[i] \in Row /\ m[i].blob \in BlobPaths /\ m[i].size \in Nat
  BY LegacyAssumption DEF Row
<1>3. \A i \in DOMAIN m : (CHOOSE r \in Rows : r.blob = m[i].blob) = m[i]
  BY LegacyAssumption
<1>4. \A i \in DOMAIN m : LegacyFiles[m[i].blob] = m[i].size
  BY <1>1, <1>3
<1>5. DOMAIN LegacyFiles = D
  BY <1>1
<1>6. IsFiniteSet(D)
  <2> DEFINE f == [i \in DOMAIN m |-> m[i].blob]
  <2>1. f \in Surjection(DOMAIN m, D)
    BY DEF Surjection
  <2>2. IsFiniteSet(DOMAIN m)
    BY LegacyAssumption
  <2> QED BY <2>1, <2>2, FS_Surjection
<1>7. LegacyFiles \in [D -> Nat]
  BY <1>1, <1>2, <1>4
<1> QED BY <1>2, <1>4, <1>5, <1>6, <1>7 DEF IsTable

\* The data directory of the pre-dedup version has the right shape.
LEMMA LegacyType == IsDatabase(LegacyDB) /\ LegacyDB.legacy /\ LegacyDB.messages = LegacyMail
<1>1. IsTable(LegacyMail, MessageIds, Row)
  BY LegacyAssumption DEF IsTable, MessageIds, Row
<1> QED BY <1>1, EmptyTable DEF IsDatabase, LegacyDB

\* The migration of a legacy database gives an intact one, with a blob for
\* every file.
LEMMA MigrateIntact ==
  LET e == Migrated(LegacyDB)
  IN  IsDatabase(e) /\ IntactDB(e) /\ ~e.legacy /\ e.blobs = LegacyFiles
<1> DEFINE N == [p \in DOMAIN LegacyFiles |-> 1]
           e == Migrated(LegacyDB)
<1>1. e = [legacy |-> FALSE, messages |-> LegacyMail, blobs |-> LegacyFiles, refs |-> N,
           pending |-> Empty]
  BY DEF Migrated, LegacyDB, LegacyFiles
<1>2. IsTable(N, BlobPaths, Nat)
  BY LegacySizes DEF IsTable
<1>3. IsTable(LegacyMail, MessageIds, Row)
  BY LegacyType DEF IsDatabase
<1>4. \A p \in DOMAIN N : N[p] = 1
  OBVIOUS
<1>5. DOMAIN N = DOMAIN LegacyFiles
  OBVIOUS
<1> HIDE DEF e, N
<1>6. IsDatabase(e)
  BY <1>1, <1>2, <1>3, LegacySizes, EmptyTable DEF IsDatabase
<1>7. \A p \in DOMAIN LegacyFiles : Cardinality(Referrers(e, p)) = 1
  <2> TAKE p \in DOMAIN LegacyFiles
  <2>1. PICK i \in DOMAIN LegacyMail : LegacyMail[i].blob = p
    BY LegacySizes
  <2>2. Referrers(e, p) = {i}
    BY <1>1, <2>1, LegacyAssumption DEF Referrers
  <2> QED BY <2>2, FS_Singleton
<1>8. \A i \in DOMAIN LegacyMail :
        /\ LegacyMail[i].blob = i[1] /\ i[1] \in DOMAIN LegacyFiles
        /\ LegacyMail[i].size = LegacyFiles[LegacyMail[i].blob]
  BY LegacySizes, LegacyAssumption
<1>9. IntactDB(e)
  <2>1. DOMAIN e.refs = DOMAIN e.blobs /\ DOMAIN e.blobs \cap DOMAIN e.pending = {}
    BY <1>1, <1>5, EmptyTable
  <2>2. \A b \in DOMAIN e.blobs : e.refs[b] = Cardinality(Referrers(e, b)) /\ e.refs[b] >= 1
    <3>1. e.blobs = LegacyFiles /\ e.refs = N
      BY <1>1
    <3>2. \A b \in DOMAIN LegacyFiles : N[b] = Cardinality(Referrers(e, b)) /\ N[b] >= 1
      BY <1>4, <1>5, <1>7
    <3> QED BY <3>1, <3>2
  <2> QED BY <1>1, <1>8, <2>1, <2>2 DEF IntactDB
<1> QED BY <1>1, <1>6, <1>9 DEF e

\* Rewriting recipients changes nothing else.
LEMMA NormalizeIntact ==
  ASSUME NEW d, IsDatabase(d), IntactDB(d)
  PROVE  LET e == [d EXCEPT !.messages = [i \in DOMAIN @ |-> Canonical(@[i])]]
         IN  IsDatabase(e) /\ IntactDB(e) /\ e.blobs = d.blobs /\ e.legacy = d.legacy
<1> DEFINE M == [i \in DOMAIN d.messages |-> Canonical(d.messages[i])]
           e == [d EXCEPT !.messages = M]
<1>1. IsTable(d.messages, MessageIds, Row)
  BY DEF IsDatabase
<1>2. \A r \in Row : /\ Canonical(r) \in Row
                   /\ Canonical(r).blob = r.blob /\ Canonical(r).size = r.size
  BY NormalizedAddress DEF Canonical, Row
<1>3. /\ IsTable(M, MessageIds, Row) /\ DOMAIN M = DOMAIN d.messages
      /\ \A i \in DOMAIN M : M[i].blob = d.messages[i].blob /\ M[i].size = d.messages[i].size
  BY <1>1, <1>2 DEF IsTable
<1> HIDE DEF M, e
<1>4. e = [d EXCEPT !.messages = M]
  BY DEF e
<1>5. /\ e.messages = M /\ e.blobs = d.blobs /\ e.refs = d.refs /\ e.pending = d.pending
      /\ e.legacy = d.legacy
      /\ e = [legacy |-> e.legacy, messages |-> e.messages, blobs |-> e.blobs,
              refs |-> e.refs, pending |-> e.pending]
  BY <1>4 DEF IsDatabase
<1>6. IsDatabase(e)
  BY <1>3, <1>5 DEF IsDatabase
<1>7. \A b : Referrers(e, b) = Referrers(d, b)
  BY <1>3, <1>5 DEF Referrers
<1>8. IntactDB(e)
  BY <1>3, <1>5, <1>7 DEF IntactDB
<1> QED BY <1>5, <1>6, <1>8 DEF e, M

-----------------------------------------------------------------------------
\* log.Fatalf during start-up leaves tables and files alone.
LEMMA FatalInv ==
  ASSUME StoreInv, NEW reason \in {"none", "io", "unlink", "missing"}, Fatal(reason)
  PROVE  StoreInv'
<1>1. Halt(reason) /\ UNCHANGED <<db, disk, now>>
  BY DEF Fatal
<1>2. TypeDirectory' /\ BlobsOnDisk'
  BY <1>1 DEF disk, StoreInv, TypeOK, TypeDirectory, BlobsOnDisk
<1> QED BY <1>1, <1>2, HaltInv

\* OpenStore: a legacy database is migrated before anything else touches it,
\* and only files that are no blobs are queued.
LEMMA OpenInv == ASSUME StoreInv, OpenStore PROVE StoreInv'
<1> USE ConstantsAssumption DEF StoreInv, TypeOK, TypeTables, TypeDirectory, TypeMemory,
      TypeControl, ReferencesIntact, Staged, Draining, InTx, BlobsOnDisk, Unmigrated,
      mem, disk, proc, env, SubBlobs, Labels, DrainLabels
<1>1. CASE Boot
  BY <1>1 DEF Boot
<1>2. CASE Migrate
  <2>1. CASE db.legacy
    <3>1. db' = Migrated(LegacyDB) /\ files = LegacyFiles /\ durable = LegacyFiles
      BY <1>2, <2>1 DEF Migrate
    <3>2. IsDatabase(db') /\ IntactDB(db') /\ ~db'.legacy /\ db'.blobs = LegacyFiles
      <4> HIDE DEF StoreInv
      <4> QED BY <3>1, MigrateIntact
    <3>3. BlobsOnDisk'
      BY <1>2, <3>1, <3>2 DEF Migrate
    <3> QED BY <1>2, <3>2, <3>3 DEF Migrate
  <2>2. CASE ~db.legacy
    BY <1>2, <2>2 DEF Migrate
  <2> QED BY <2>1, <2>2
<1>3. CASE NormalizeStoredRecipients
  <2>1. /\ IsDatabase(db) /\ IntactDB(db) /\ ~db.legacy
        /\ db' = [db EXCEPT !.messages = [i \in DOMAIN @ |-> Canonical(@[i])]]
    BY <1>3 DEF NormalizeStoredRecipients
  <2>2. IsDatabase(db') /\ IntactDB(db') /\ db'.blobs = db.blobs /\ db'.legacy = db.legacy
    <3> HIDE DEF StoreInv
    <3> QED BY <2>1, NormalizeIntact
  <2>3. TypeOK'
    BY <1>3, <2>2 DEF NormalizeStoredRecipients
  <2>4. ReferencesIntact' /\ Staged' /\ Draining' /\ InTx' /\ BlobsOnDisk' /\ Unmigrated'
    BY <1>3, <2>1, <2>2 DEF NormalizeStoredRecipients
  <2> HIDE DEF TypeOK, ReferencesIntact, Staged, Draining, InTx, BlobsOnDisk, Unmigrated
  <2> QED BY <2>3, <2>4
<1>4. CASE ReconcileCheck
  <2>1. CASE Fatal("missing")
    <3> HIDE DEF StoreInv
    <3> QED BY <2>1, FatalInv
  <2>2. CASE ~Fatal("missing")
    BY <1>4, <2>2 DEF ReconcileCheck
  <2> QED BY <2>1, <2>2
<1>5. CASE ReconcileOrphan
  <2>1. PICK p \in Orphans : db' = EnqueueDeletion(db, p, files[p])
    BY <1>5 DEF ReconcileOrphan
  <2>2. /\ p \in Paths /\ files[p] \in Nat /\ p \notin DOMAIN db.blobs
        /\ IsDatabase(db) /\ IntactDB(db) /\ ~db.legacy
    BY <1>5 DEF ReconcileOrphan, Orphans, IsTable
  <2>3. IsDatabase(db') /\ IntactDB(db') /\ db'.blobs = db.blobs /\ db'.legacy = db.legacy
    <3> HIDE DEF StoreInv
    <3> QED BY <2>1, <2>2, EnqueueIntact
  <2> QED BY <1>5, <2>2, <2>3 DEF ReconcileOrphan
<1>6. CASE ReconcileLoad
  <2>1. storedBytes' \in Int /\ storedMessages' \in Int
    BY <1>6, UsageType DEF ReconcileLoad, LoadStorageUsage
  <2>2. TypeOK'
    BY <1>6, <2>1 DEF ReconcileLoad, CallDrain, NoDrain
  <2>3. ReferencesIntact' /\ Draining' /\ InTx' /\ BlobsOnDisk' /\ Unmigrated' /\ Staged'
    BY <1>6 DEF ReconcileLoad, CallDrain, NoDrain
  <2> HIDE DEF TypeOK, ReferencesIntact, Staged, Draining, InTx, BlobsOnDisk, Unmigrated
  <2> QED BY <2>2, <2>3
<1>7. CASE OpenDrained
  <2>1. PICK c \in {0} \cup dr.batch :
          IF c = 0 THEN Return("openLoad") ELSE CallDrain("open", c)
    BY <1>7 DEF OpenDrained
  <2>2. c \in Nat
    BY <2>1, CursorType
  <2>3. CASE Return("openLoad")
    BY <1>7, <2>3 DEF OpenDrained, Return, NoDrain
  <2>4. CASE CallDrain("open", c)
    BY <1>7, <2>2, <2>4 DEF OpenDrained, CallDrain, NoDrain
  <2> QED BY <2>1, <2>3, <2>4
<1>8. CASE OpenLoad
  <2>1. cl' \in [active : BOOLEAN, before : Nat, todo : SUBSET MessageIds, count : Nat]
    <3>1. now \in Nat OBVIOUS
    <3> HIDE DEF StoreInv
    <3> QED BY <1>8, <3>1 DEF OpenLoad, NoCleanup
  <2>2. ~db.legacy /\ mode # "down"
    BY <1>8 DEF OpenLoad
  <2>3. Unmigrated'
    BY <1>8, <2>2 DEF OpenLoad
  <2>4. TypeMemory'
    BY <1>8, UsageType DEF OpenLoad, LoadStorageUsage
  <2> QED BY <1>8, <2>1, <2>3, <2>4, SMTT(60) DEF OpenLoad
<1>9. CASE StartupFails
  <2> HIDE DEF StoreInv
  <2> QED BY <1>9, FatalInv DEF StartupFails
<1> QED BY <1>1, <1>2, <1>3, <1>4, <1>5, <1>6, <1>7, <1>8, <1>9 DEF OpenStore

\* GetContext changes nothing but the reader's own state.
LEMMA GetInv == ASSUME StoreInv, Get PROVE StoreInv'
<1> DEFINE Reading == [st : {"idle", "listed", "row", "error"}, id : MessageIds \cup {NoReader.id},
                       path : Nat, size : Nat]
<1>1. PICK r \in Readers :
        RenderInbox(r) \/ SelectBody(r) \/ ReadRow(r) \/ ReadFile(r) \/ ReadError(r)
  BY DEF Get
<1>2. reader \in [Readers -> Reading]
  BY DEF StoreInv, TypeOK, TypeControl
<1>3. NoReader \in Reading
  BY DEF NoReader
<1>4. reader' \in [Readers -> Reading]
  <2>5. \A i \in DOMAIN db.messages : RowOf(i) \in Reading
    <3> SUFFICES ASSUME NEW i \in DOMAIN db.messages PROVE RowOf(i) \in Reading
      OBVIOUS
    <3>1. i \in MessageIds /\ db.messages[i].blob \in Nat /\ db.messages[i].size \in Nat
      BY ConstantsAssumption DEF StoreInv, TypeOK, TypeTables, IsDatabase, IsTable, Row
    <3> QED BY <3>1 DEF RowOf
  <2>1. CASE ReadRow(r)
    <3>1. PICK i \in DOMAIN db.messages : reader' = [reader EXCEPT ![r] = RowOf(i)]
      BY <2>1 DEF ReadRow
    <3> HIDE DEF Reading
    <3> QED BY <1>2, <2>5, <3>1
  <2>4. CASE RenderInbox(r)
    <3>1. PICK i \in DOMAIN db.messages :
            reader' = [reader EXCEPT ![r] = [NoReader EXCEPT !.st = "listed", !.id = i]]
      BY <2>4 DEF RenderInbox, Page, Listed
    <3>2. [NoReader EXCEPT !.st = "listed", !.id = i] \in Reading
      BY DEF NoReader, StoreInv, TypeOK, TypeTables, IsDatabase, IsTable
    <3> HIDE DEF Reading
    <3> QED BY <1>2, <3>1, <3>2
  <2>6. CASE SelectBody(r)
    <3>1. reader' = [reader EXCEPT ![r] = IF Found(reader[r].id) THEN RowOf(reader[r].id)
                                                                  ELSE NoReader]
      BY <2>6 DEF SelectBody
    <3>2. Found(reader[r].id) => reader[r].id \in DOMAIN db.messages
      BY DEF Found
    <3> HIDE DEF Reading
    <3> QED BY <1>2, <1>3, <2>5, <3>1, <3>2
  <2>2. CASE ReadFile(r)
    <3>1. [reader[r] EXCEPT !.st = "error"] \in Reading
      BY <1>2
    <3> HIDE DEF Reading
    <3> QED BY <1>2, <1>3, <2>2, <3>1 DEF ReadFile
  <2>3. CASE ReadError(r)
    <3> HIDE DEF Reading
    <3> QED BY <1>2, <1>3, <2>3 DEF ReadError
  <2> QED BY <1>1, <2>1, <2>2, <2>3, <2>4, <2>6
<1>5. UNCHANGED <<db, tx, disk, mem, proc, pc, sv, dr, cl, now>>
  BY <1>1 DEF RenderInbox, SelectBody, ReadRow, ReadFile, ReadError
<1> QED BY <1>4, <1>5 DEF StoreInv, TypeOK, TypeTables, TypeDirectory, TypeMemory,
      TypeControl, ReferencesIntact, Staged, Draining, InTx, BlobsOnDisk, Unmigrated,
      mem, disk, proc, SubBlobs

\* A blob is in the directory and in its synced state with the same content,
\* so a power loss cannot take it away.
LEMMA PowerLossInv == ASSUME StoreInv, PowerLoss PROVE StoreInv'
<1>1. PICK S \in SUBSET {p \in DOMAIN files \cup DOMAIN durable :
                           \/ p \notin DOMAIN files \/ p \notin DOMAIN durable
                           \/ files[p] # durable[p]} :
        files' = [p \in (DOMAIN files \ S) \cup (DOMAIN durable \cap S) |->
                    IF p \in S THEN durable[p] ELSE files[p]]
  BY DEF PowerLoss
<1>2. durable' = files' /\ Halt("none") /\ UNCHANGED <<db, now>>
  BY DEF PowerLoss
<1>3. IsTable(files, Paths, Nat) /\ IsTable(durable, Paths, Nat)
  BY DEF StoreInv, TypeOK, TypeDirectory
<1>4. IsTable(files', Paths, Nat)
  <2>1. IsFiniteSet((DOMAIN files \ S) \cup (DOMAIN durable \cap S))
    <3>1. IsFiniteSet(DOMAIN files \ S) /\ IsFiniteSet(DOMAIN durable \cap S)
      BY <1>3, FS_Subset DEF IsTable
    <3> QED BY <3>1, FS_Union
  <2>2. DOMAIN files' = (DOMAIN files \ S) \cup (DOMAIN durable \cap S)
    BY <1>1
  <2>3. \A p \in DOMAIN files' : p \in Paths /\ files'[p] \in Nat
    BY <1>1, <1>3 DEF IsTable
  <2>4. files' = [p \in DOMAIN files' |-> files'[p]]
    BY <1>1
  <2> QED BY <2>1, <2>2, <2>3, <2>4 DEF IsTable
<1>5. BlobsOnDisk'
  <2>1. \A b \in DOMAIN db.blobs : b \notin S
    BY DEF StoreInv, BlobsOnDisk
  <2> QED BY <1>1, <1>2, <2>1 DEF StoreInv, BlobsOnDisk
<1>6. db.legacy => UNCHANGED disk
  <2> SUFFICES ASSUME db.legacy PROVE UNCHANGED disk
    OBVIOUS
  <2>1. durable = files
    BY DEF StoreInv, Unmigrated
  <2>2. S = {}
    BY <2>1
  <2>3. files' = [p \in DOMAIN files |-> files[p]]
    BY <1>1, <2>2
  <2>4. files = [p \in DOMAIN files |-> files[p]]
    BY <1>3 DEF IsTable
  <2> QED BY <1>2, <2>1, <2>3, <2>4 DEF disk
<1> QED BY <1>2, <1>4, <1>5, <1>6, HaltInv DEF TypeDirectory

-----------------------------------------------------------------------------
(* The invariant and its consequences. *)

\* StoreInv holds in every initial state.
LEMMA InitInv == ASSUME Init PROVE StoreInv
<1>3. TypeMemory /\ TypeControl
  <2>1. storageFault \in BOOLEAN
    BY DEF Init
  <2> QED BY <2>1, ConstantsAssumption
      DEF Init, TypeMemory, TypeControl, Labels, NoDrain, NoCleanup, NoReader
<1>4. Staged /\ Draining /\ InTx /\ IsSave(sv) /\ IsDatabase(tx)
  BY EmptyDatabase, NoSaveType DEF Init, Staged, Draining, InTx, DrainLabels
<1>1. CASE db = EmptyDB /\ files = Empty
  <2>1. IsDatabase(db) /\ IntactDB(db) /\ ~db.legacy /\ DOMAIN db.blobs = {}
    <3>1. IsDatabase(EmptyDB) /\ IntactDB(EmptyDB) /\ ~EmptyDB.legacy
      BY EmptyDatabase
    <3>2. DOMAIN EmptyDB.blobs = {}
      BY EmptyTable DEF EmptyDB
    <3> QED BY <1>1, <3>1, <3>2
  <2>2. TypeDirectory
    BY <1>1, EmptyTable DEF Init, TypeDirectory
  <2>3. BlobsOnDisk /\ ReferencesIntact
    BY <2>1 DEF BlobsOnDisk, ReferencesIntact
  <2>4. Unmigrated
    BY <2>1 DEF Init, Unmigrated, NoCleanup
  <2> QED BY <1>3, <1>4, <2>1, <2>2, <2>3, <2>4 DEF StoreInv, TypeOK, TypeTables
<1>2. CASE db = LegacyDB /\ files = LegacyFiles
  <2>1. IsDatabase(db) /\ db.legacy /\ DOMAIN db.blobs = {}
    BY <1>2, LegacyType, EmptyTable DEF LegacyDB
  <2>2. TypeDirectory
    BY <1>2, LegacySizes DEF Init, TypeDirectory, IsTable, Paths
  <2>3. BlobsOnDisk /\ ReferencesIntact
    BY <2>1 DEF BlobsOnDisk, ReferencesIntact
  <2>4. Unmigrated
    BY <1>2 DEF Init, Unmigrated, NoCleanup
  <2> QED BY <1>3, <1>4, <2>1, <2>2, <2>3, <2>4 DEF StoreInv, TypeOK, TypeTables
<1> QED BY <1>1, <1>2 DEF Init

\* Every step preserves StoreInv.
LEMMA NextInv == ASSUME StoreInv, [Next]_vars PROVE StoreInv'
<1>1. CASE Stop
  BY <1>1, FatalInv DEF Stop, Fatal
<1>2. CASE Tick \/ ClockBack
  <2>1. now' \in 0 .. MaxTime
    BY <1>2, ConstantsAssumption DEF Tick, ClockBack, StoreInv, TypeOK, TypeMemory
  <2> QED
    BY <1>2, <2>1 DEF Tick, ClockBack, StoreInv, TypeOK, TypeTables, TypeDirectory,
       TypeMemory, TypeControl, ReferencesIntact, Staged, Draining, InTx, BlobsOnDisk,
       Unmigrated, mem, disk, proc, SubBlobs
<1>3. CASE UNCHANGED vars
  BY <1>3 DEF vars, StoreInv, TypeOK, TypeTables, TypeDirectory, TypeMemory, TypeControl,
     ReferencesIntact, Staged, Draining, InTx, BlobsOnDisk, Unmigrated, SubBlobs
<1> QED BY <1>1, <1>2, <1>3, DrainInv, SaveInv, CleanupInv, OpenInv, GetInv, PowerLossInv DEF Next

\* StoreInv is an invariant of the store.
THEOREM Invariance == Spec => []StoreInv
<1>1. Init => StoreInv
  BY InitInv
<1>2. StoreInv /\ [Next]_vars => StoreInv'
  BY NextInv
<1> QED BY <1>1, <1>2, PTL DEF Spec

\* The store's tables, directory, running totals and control state stay in
\* their types (Save, Cleanup, OpenStore, GetContext and every failure).
THEOREM Typing == Spec => []TypeOK
<1>1. StoreInv => TypeOK
  BY DEF StoreInv
<1> QED BY <1>1, Invariance, PTL

\* ref_count counts the messages that share a blob, no message loses its blob
\* row, and no referenced file is queued for deletion (deleteMessageTx, Save,
\* migrateLegacySchema).
THEOREM References == Spec => []ReferencesIntact
<1>1. StoreInv => ReferencesIntact
  BY DEF StoreInv
<1> QED BY <1>1, Invariance, PTL

\* Accepted mail survives: the file of every committed message is complete in
\* the directory and in its synced state, whatever call fails, whenever the
\* process stops or the machine loses power.
THEOREM Durability == Spec => []AcceptedMailOnDisk
<1>1. ASSUME StoreInv PROVE AcceptedMailOnDisk
  <2>1. CASE db.legacy
    <3>1. db.messages = LegacyMail /\ files = LegacyFiles /\ durable = LegacyFiles
      BY <1>1, <2>1, LegacyType DEF StoreInv, Unmigrated
    <3> QED BY <3>1, LegacySizes DEF AcceptedMailOnDisk
  <2>2. CASE ~db.legacy
    BY <1>1, <2>2 DEF StoreInv, ReferencesIntact, IntactDB, BlobsOnDisk, AcceptedMailOnDisk
  <2> QED BY <2>1, <2>2
<1> QED BY <1>1, Invariance, PTL

\* The store can always be started again: no crash, failed call or power loss
\* leaves a state in which reconcileFiles reports "referenced blob missing"
\* (store.go, OpenStore).
THEOREM StartsAgain == Spec => [](exit # "missing")
<1>1. Init => exit # "missing" BY DEF Init
<1>2. ASSUME StoreInv, [Next]_vars, exit # "missing" PROVE exit' # "missing"
  <2>1. CASE ReconcileCheck
    <3>1. DOMAIN db.blobs \subseteq DOMAIN files BY <1>2 DEF StoreInv, BlobsOnDisk
    <3> QED BY <1>2, <2>1, <3>1 DEF ReconcileCheck, proc
  <2>2. CASE Drain
    BY <1>2, <2>2 DEF Drain, DrainSelect, DrainUnlink, DrainSync, DrainCommit, DrainFails, proc
  <2>3. CASE Save
    BY <1>2, <2>3 DEF Save, SaveBegin, SaveDrained, SaveAdmit, SaveRefused, SaveWrite, SaveWriteFails,
       SaveRename, SaveRenameFails, SaveSync, SaveInsert, SaveEvict, SaveCommit, SaveTxFails,
       SavePostDrained, SaveRemoveTmp, SaveRemoveTmpFails, SaveReturn,
       Discard, DiscardFails, DiscardLoad, DiscardLoadFails, proc
  <2>4. CASE Cleanup
    <3>1. dr.err # "missing" BY <1>2 DEF StoreInv, TypeOK, TypeControl
    <3> QED BY <1>2, <2>4, <3>1
      DEF Cleanup, CleanupBegin, CleanupSelect, CleanupDelete, CleanupCommit, CleanupTxFails,
          CleanupDrained, CleanupDrainFailed, CleanupError, Fatal, Halt, proc
  <2>5. CASE OpenStore /\ ~ReconcileCheck
    BY <1>2, <2>5 DEF OpenStore, Boot, Migrate, NormalizeStoredRecipients, ReconcileOrphan,
       ReconcileLoad, OpenDrained, OpenLoad, StartupFails, Fatal, Halt, proc
  <2>6. CASE Get \/ Stop \/ PowerLoss \/ Tick \/ ClockBack \/ UNCHANGED vars
    BY <1>2, <2>6 DEF Get, RenderInbox, SelectBody, ReadRow, ReadFile, ReadError, Stop, PowerLoss,
       Halt, Tick, ClockBack, proc, vars
  <2> QED BY <1>2, <2>1, <2>2, <2>3, <2>4, <2>5, <2>6 DEF Next
<1>3. StoreInv /\ exit # "missing" /\ [Next]_vars => (exit # "missing")' BY <1>2
<1> QED BY <1>1, <1>3, Invariance, PTL DEF Spec

\* drainPendingLocked removes a queue entry only after the file is gone from
\* the directory and from its synced state; no other step removes one.
THEOREM QueueLast == Spec => QueueOutlivesFile
<1> DEFINE Q == \A p \in DOMAIN db.pending \ DOMAIN db'.pending :
                  p \notin DOMAIN files /\ p \notin DOMAIN durable
<1>1. ASSUME StoreInv, Next PROVE Q
  <2>1. CASE DrainCommit
    <3>1. DOMAIN db.pending \ DOMAIN db'.pending \subseteq dr.removed
      <4>1. db'.pending = Without(db.pending, dr.removed)
        BY <1>1, <2>1 DEF DrainCommit, StoreInv, TypeOK, TypeTables, IsDatabase
      <4> QED BY <4>1 DEF Without
    <3>2. dr.removed \cap DOMAIN files = {} /\ dr.removed \cap DOMAIN durable = {}
      BY <1>1, <2>1 DEF DrainCommit, StoreInv, Draining
    <3> QED BY <3>1, <3>2
  <2>2. CASE UNCHANGED db
    BY <2>2
  <2>3. CASE SaveCommit \/ CleanupCommit
    BY <1>1, <2>3 DEF SaveCommit, CleanupCommit, StoreInv, InTx
  <2>4. CASE \E p, n : db' = EnqueueDeletion(db, p, n)
    <3>1. PICK p, n : db' = EnqueueDeletion(db, p, n)
      BY <2>4
    <3>2. CASE db' = [db EXCEPT !.pending = Put(@, p, n)]
      <4>1. db'.pending = Put(db.pending, p, n)
        BY <1>1, <3>2 DEF StoreInv, TypeOK, TypeTables, IsDatabase
      <4> QED BY <4>1 DEF Put
    <3> QED BY <3>1, <3>2 DEF EnqueueDeletion
  <2>5. CASE NormalizeStoredRecipients
    BY <1>1, <2>5 DEF NormalizeStoredRecipients, StoreInv, TypeOK, TypeTables, IsDatabase
  <2>6. CASE Migrate
    BY <2>6 DEF Migrate, Migrated
  <2>7. CASE Drain
    BY <2>1, <2>2, <2>7 DEF Drain, DrainSelect, DrainUnlink, DrainSync, DrainFails
  <2>8. CASE Save
    BY <2>2, <2>3, <2>4, <2>8
    DEF Save, SaveBegin, SaveDrained, SaveAdmit, SaveRefused, SaveWrite, SaveWriteFails,
        SaveRename, SaveRenameFails, SaveSync, SaveInsert, SaveEvict, SaveTxFails, RollBack,
        SavePostDrained, SaveRemoveTmp, SaveRemoveTmpFails, SaveReturn,
        Discard, DiscardFails, DiscardLoad, DiscardLoadFails
  <2>9. CASE Cleanup
    BY <2>2, <2>3, <2>9
    DEF Cleanup, CleanupBegin, CleanupSelect, CleanupDelete, CleanupTxFails, CleanupDrained,
        CleanupDrainFailed, CleanupError, Fatal
  <2>10. CASE OpenStore
    BY <2>2, <2>4, <2>5, <2>6, <2>10
    DEF OpenStore, Boot, ReconcileCheck, ReconcileOrphan, ReconcileLoad, OpenDrained,
        OpenLoad, StartupFails, Fatal
  <2>11. CASE Get \/ Stop \/ PowerLoss \/ Tick \/ ClockBack
    BY <2>2, <2>11
    DEF Get, RenderInbox, SelectBody, ReadRow, ReadFile, ReadError, Stop, PowerLoss, Tick,
        ClockBack
  <2> QED BY <1>1, <2>7, <2>8, <2>9, <2>10, <2>11 DEF Next
<1>2. ASSUME StoreInv, [Next]_vars PROVE [Q]_vars
  BY <1>1, <1>2
<1> QED BY <1>2, Invariance, PTL DEF Spec, QueueOutlivesFile

-----------------------------------------------------------------------------
(* What an open transaction has done to the committed tables. *)

\* A blob row goes only to the deletion queue, with its size.
Moved ==
  /\ \A p \in DOMAIN db.pending : tx.pending[p] = db.pending[p]
  /\ \A p \in DOMAIN db.blobs :
       p \in DOMAIN tx.blobs \/ (p \in DOMAIN tx.pending /\ tx.pending[p] = db.blobs[p])
  /\ \A p \in DOMAIN tx.pending : p \in DOMAIN db.pending \/ p \in DOMAIN db.blobs

\* The rows of the delivery under way, one for each recipient.
Delivered(d) ==
  /\ Referrers(d, sv.blob) = {<<sv.blob, a>> : a \in DOMAIN sv.rank}
  /\ \A i \in Referrers(d, sv.blob) :
       /\ d.messages[i].rcpt = i[2] /\ d.messages[i].received = sv.received
       /\ d.messages[i].expires = sv.received + MessageTTL

\* Evicted because it has expired, or as the oldest when none had.
Evicted(i) ==
  \/ db.messages[i].expires <= sv.before
  \/ \A j \in Evictable : db.messages[j].expires > sv.before /\ ReceivedFirst(db.messages, i, j)

TxEvicts ==
  /\ Moved /\ Delivered(tx)
  /\ sv.blob \in DOMAIN tx.blobs
  /\ \A i \in Evictable : i \in DOMAIN db.messages /\ tx.messages[i] = db.messages[i]
  /\ \A i \in DOMAIN db.messages \ DOMAIN tx.messages : Evicted(i)

TxCleans ==
  /\ Moved /\ cl.active
  /\ \A i \in DOMAIN tx.messages : i \in DOMAIN db.messages /\ tx.messages[i] = db.messages[i]
  /\ \A i \in DOMAIN db.messages \ DOMAIN tx.messages : db.messages[i].expires <= cl.before
  /\ \A i \in cl.todo : tx.messages[i].expires <= cl.before

TxInv == (pc = "saveEvict" => TxEvicts) /\ (pc = "cleanDelete" => TxCleans)

\* Save has drawn its names and not committed.
Staging == pc \in {"saveWrite", "saveRename", "saveSync", "saveInsert", "saveEvict"}
Calls(ret) == pc \in DrainLabels /\ dr.ret = ret

\* What Save will answer.
Answering ==
  /\ pc = "saveAdmit" \/ Calls("savePre") => sv.blob = 0 /\ ~sv.err
  /\ Staging \/ Calls("savePost") => ~sv.err
  /\ pc \in {"saveRemoveTmp", "discard", "discardLoad"} \/ Calls("discard") =>
       sv.err /\ sv.blob \notin DOMAIN db.blobs
  /\ pc = "saveReturn" /\ sv.err => sv.blob \notin DOMAIN db.blobs
  /\ Calls("savePost") \/ (pc = "saveReturn" /\ ~sv.err) => DOMAIN sv.rank # {} /\ Delivered(db)

\* A reader knows a message whose names Save will not draw again.
Reading(r) == reader[r].st \in {"row", "error"}
ReaderInv ==
  \A r \in Readers :
    /\ reader[r].st # "idle" => mode = "serving"
    /\ Reading(r) => reader[r].id \in MessageIds /\ reader[r].path = reader[r].id[1]
    /\ Reading(r) /\ Staging => sv.blob # reader[r].id[1]
    /\ reader[r].st = "error" => reader[r].id \notin DOMAIN db.messages
    /\ reader[r].st = "row" /\ reader[r].path \in DOMAIN files =>
         files[reader[r].path] = reader[r].size

\* A name has one content, in the directory, in its synced state and in the
\* deletion queue.
OneContent ==
  /\ \A p \in DOMAIN files \cap DOMAIN durable : files[p] = durable[p]
  /\ \A p \in DOMAIN db.pending :
       /\ p \in DOMAIN files => files[p] = db.pending[p]
       /\ p \in DOMAIN durable => durable[p] = db.pending[p]

\* The file that only Save knows of.
InHand == IF pc \in {"saveWrite", "saveRename", "saveRemoveTmp"} THEN sv.tmp
          ELSE IF pc \in {"saveSync", "saveInsert", "saveEvict"} THEN sv.blob
          ELSE IF pc = "discard" THEN sv.drop ELSE 0
HandNew ==
  /\ InHand # 0 => InHand \notin DOMAIN db.pending
  /\ pc \in {"saveWrite", "saveRename"} =>
       sv.tmp \notin DOMAIN durable /\ sv.blob \notin DOMAIN durable /\ sv.blob \notin DOMAIN files

Scanned == mode # "down" /\ pc \notin {"migrate", "normalize", "reconcile", "scan"}
Known ==
  Scanned /\ ~storageFault /\ ~StatMayFail =>
    \A p \in DOMAIN files : p \in DOMAIN db.blobs \/ p \in DOMAIN db.pending \/ p = InHand

-----------------------------------------------------------------------------
\* deleteMessageTx alters no other message, and moves the blob row it drops to
\* the queue.
LEMMA DeleteMoves ==
  ASSUME NEW d, IsDatabase(d), IntactDB(d), NEW i \in DOMAIN d.messages,
         NEW e, e = DeleteMessageTx(d, i)
  PROVE  /\ DOMAIN e.messages = DOMAIN d.messages \ {i}
         /\ \A j \in DOMAIN e.messages : e.messages[j] = d.messages[j]
         /\ \A p \in DOMAIN d.blobs \ DOMAIN e.blobs :
              p = d.messages[i].blob /\ p \in DOMAIN e.pending /\ e.pending[p] = d.blobs[p]
         /\ \A p \in DOMAIN d.pending : p \in DOMAIN e.pending /\ e.pending[p] = d.pending[p]
         /\ \A p \in DOMAIN e.pending : p \in DOMAIN d.pending \/ p \in DOMAIN d.blobs
<1> DEFINE b == d.messages[i].blob
           M == Without(d.messages, {i})
<1>1. b \in DOMAIN d.blobs /\ b \notin DOMAIN d.pending BY DEF IntactDB
<1>2. DOMAIN M = DOMAIN d.messages \ {i} /\ \A j \in DOMAIN M : M[j] = d.messages[j]
  BY DEF Without
<1>3. CASE d.refs[b] <= 1
  <2> DEFINE B == Without(d.blobs, {b})
             N == Without(d.refs, {b})
             P == Put(d.pending, b, d.blobs[b])
  <2>1. e = [d EXCEPT !.messages = M, !.blobs = B, !.refs = N, !.pending = P]
    BY <1>3 DEF DeleteMessageTx
  <2>2. DOMAIN B = DOMAIN d.blobs \ {b} BY DEF Without
  <2>3. /\ DOMAIN P = DOMAIN d.pending \cup {b} /\ P[b] = d.blobs[b]
        /\ \A p \in DOMAIN d.pending : P[p] = d.pending[p]
    BY <1>1 DEF Put
  <2> HIDE DEF M, B, N, P, b
  <2>4. e.messages = M /\ e.blobs = B /\ e.pending = P BY <2>1 DEF IsDatabase
  <2> QED BY <1>1, <1>2, <2>2, <2>3, <2>4 DEF b
<1>4. CASE ~(d.refs[b] <= 1)
  <2> DEFINE N == [d.refs EXCEPT ![b] = d.refs[b] - 1]
  <2>1. e = [d EXCEPT !.messages = M, !.refs = N] BY <1>4 DEF DeleteMessageTx
  <2> HIDE DEF M, N
  <2>2. e.messages = M /\ e.blobs = d.blobs /\ e.pending = d.pending BY <2>1 DEF IsDatabase
  <2> QED BY <1>2, <2>2
<1> QED BY <1>3, <1>4

\* Only Save and Cleanup themselves work on their transactions.
LEMMA TxFrame ==
  ASSUME Next
  PROVE  /\ pc' = "saveEvict" => SaveInsert \/ SaveEvict \/ UNCHANGED <<pc, tx, sv, db>>
         /\ pc' = "cleanDelete" =>
              CleanupSelect \/ CleanupDelete \/ CleanupBegin \/ UNCHANGED <<pc, tx, cl, db>>
<1>1. CASE Drain BY <1>1 DEF Drain, DrainSelect, DrainUnlink, DrainSync, DrainCommit, DrainFails
<1>2. CASE Save
  BY <1>2 DEF Save, SaveBegin, SaveDrained, SaveAdmit, SaveRefused, SaveWrite, SaveWriteFails,
     SaveRename, SaveRenameFails, SaveSync, SaveCommit, SaveTxFails, SavePostDrained, SaveRemoveTmp,
     SaveRemoveTmpFails, SaveReturn, Discard, DiscardFails, DiscardLoad, DiscardLoadFails,
     CallDrain, Return, SaveInsert, SaveEvict
<1>3. CASE Cleanup
  BY <1>3 DEF Cleanup, CleanupBegin, CleanupSelect, CleanupDelete, CleanupCommit, CleanupTxFails,
     CleanupDrained, CleanupDrainFailed, CleanupError, Fatal, Halt, CallDrain, Return
<1>4. CASE OpenStore
  BY <1>4 DEF OpenStore, Boot, Migrate, NormalizeStoredRecipients, ReconcileCheck, ReconcileOrphan,
     ReconcileLoad, OpenDrained, OpenLoad, StartupFails, Fatal, Halt, CallDrain, Return
<1>5. CASE Get \/ Tick \/ ClockBack
  BY <1>5 DEF Get, RenderInbox, SelectBody, ReadRow, ReadFile, ReadError, Tick, ClockBack
<1>6. CASE Stop \/ PowerLoss BY <1>6 DEF Stop, PowerLoss, Halt
<1> QED BY <1>1, <1>2, <1>3, <1>4, <1>5, <1>6 DEF Next

\* The rows that Save inserts.
LEMMA InsertRows ==
  ASSUME StoreInv, pc = "saveInsert", NEW base \in Nat,
         tx' = [db EXCEPT !.messages = Merge(@, NewRows(base)),
                          !.blobs = Put(@, sv.blob, sv.size),
                          !.refs = Put(@, sv.blob, Cardinality(DOMAIN sv.rank))]
  PROVE  /\ DOMAIN tx'.messages = DOMAIN db.messages \cup {<<sv.blob, a>> : a \in DOMAIN sv.rank}
         /\ \A i \in DOMAIN db.messages : tx'.messages[i] = db.messages[i] /\ i[1] # sv.blob
                                          /\ db.messages[i].blob = i[1]
         /\ \A a \in DOMAIN sv.rank :
              LET m == tx'.messages[<<sv.blob, a>>]
              IN  m.rcpt = a /\ m.blob = sv.blob /\ m.received = sv.received
                  /\ m.expires = sv.received + MessageTTL
         /\ tx'.blobs = Put(db.blobs, sv.blob, sv.size) /\ tx'.pending = db.pending
<1> DEFINE M == Merge(db.messages, NewRows(base))
<1>1. /\ IsDatabase(db) /\ IntactDB(db) /\ sv.blob \notin DOMAIN db.blobs
  BY DEF StoreInv, TypeOK, TypeTables, ReferencesIntact, Unmigrated, Staged
<1>2. \A i \in DOMAIN db.messages : i[1] # sv.blob /\ db.messages[i].blob = i[1]
  BY <1>1 DEF IntactDB
<1>3. DOMAIN NewRows(base) = {<<sv.blob, a>> : a \in DOMAIN sv.rank} BY DEF NewRows
<1>4. \A a \in DOMAIN sv.rank :
        NewRows(base)[<<sv.blob, a>>] =
          [rcpt |-> a, blob |-> sv.blob, size |-> sv.size, received |-> sv.received,
           expires |-> sv.received + MessageTTL, rowid |-> base + sv.rank[a]]
  BY DEF NewRows
<1>5. \A a \in DOMAIN sv.rank : <<sv.blob, a>> \notin DOMAIN db.messages BY <1>2
<1>6. /\ DOMAIN M = DOMAIN db.messages \cup {<<sv.blob, a>> : a \in DOMAIN sv.rank}
      /\ \A i \in DOMAIN db.messages : M[i] = db.messages[i]
      /\ \A a \in DOMAIN sv.rank : M[<<sv.blob, a>>] = NewRows(base)[<<sv.blob, a>>]
  BY <1>3, <1>5 DEF Merge
<1>7. tx'.messages = M /\ tx'.blobs = Put(db.blobs, sv.blob, sv.size) /\ tx'.pending = db.pending
  BY <1>1 DEF IsDatabase
<1> HIDE DEF M
<1>8. ASSUME NEW a \in DOMAIN sv.rank
      PROVE  /\ tx'.messages[<<sv.blob, a>>].rcpt = a
             /\ tx'.messages[<<sv.blob, a>>].blob = sv.blob
             /\ tx'.messages[<<sv.blob, a>>].received = sv.received
             /\ tx'.messages[<<sv.blob, a>>].expires = sv.received + MessageTTL
  <2>1. tx'.messages[<<sv.blob, a>>] =
          [rcpt |-> a, blob |-> sv.blob, size |-> sv.size, received |-> sv.received,
           expires |-> sv.received + MessageTTL, rowid |-> base + sv.rank[a]]
    BY <1>4, <1>6, <1>7
  <2> QED BY <2>1
<1>9. \A i \in DOMAIN db.messages : tx'.messages[i] = db.messages[i] BY <1>6, <1>7
<1> QED BY <1>2, <1>6, <1>7, <1>8, <1>9

\* Save's transaction inserts the delivery and evicts by age.
LEMMA SaveTx ==
  ASSUME StoreInv, StoreInv', TxInv, SaveInsert \/ SaveEvict
  PROVE  TxEvicts'
<1>1. CASE SaveInsert
  <2>1. PICK base \in {0} \cup {db.messages[i].rowid : i \in DOMAIN db.messages} :
          tx' = [db EXCEPT !.messages = Merge(@, NewRows(base)),
                           !.blobs = Put(@, sv.blob, sv.size),
                           !.refs = Put(@, sv.blob, Cardinality(DOMAIN sv.rank))]
    BY <1>1 DEF SaveInsert
  <2>2. base \in Nat
    BY DEF StoreInv, TypeOK, TypeTables, IsDatabase, IsTable, Row
  <2>3. pc = "saveInsert" /\ UNCHANGED <<db, cl>> BY <1>1 DEF SaveInsert
  <2>4. sv'.blob = sv.blob /\ sv'.rank = sv.rank /\ sv'.received = sv.received
    BY <1>1 DEF SaveInsert, StoreInv, TypeOK, IsSave
  <2>5. /\ DOMAIN tx'.messages = DOMAIN db.messages \cup {<<sv.blob, a>> : a \in DOMAIN sv.rank}
        /\ \A i \in DOMAIN db.messages : tx'.messages[i] = db.messages[i] /\ i[1] # sv.blob
                                         /\ db.messages[i].blob = i[1]
        /\ \A a \in DOMAIN sv.rank :
             LET m == tx'.messages[<<sv.blob, a>>]
             IN  m.rcpt = a /\ m.blob = sv.blob /\ m.received = sv.received
                 /\ m.expires = sv.received + MessageTTL
        /\ tx'.blobs = Put(db.blobs, sv.blob, sv.size) /\ tx'.pending = db.pending
    BY <2>1, <2>2, <2>3, InsertRows
  <2>6. Referrers(tx', sv.blob) = {<<sv.blob, a>> : a \in DOMAIN sv.rank}
    BY <2>5 DEF Referrers
  <2>7. Delivered(tx)' BY <2>4, <2>5, <2>6 DEF Delivered
  <2>8. DOMAIN tx'.blobs = DOMAIN db.blobs \cup {sv.blob} BY <2>5 DEF Put
  <2>9. Moved' BY <2>3, <2>5, <2>8 DEF Moved
  <2>10. \A i \in Evictable' : i \in DOMAIN db.messages
    BY <2>4, <2>5 DEF Evictable
  <2> QED BY <2>3, <2>4, <2>5, <2>7, <2>8, <2>9, <2>10 DEF TxEvicts
<1>2. CASE SaveEvict
  <2>1. PICK i \in Evictable : Victim(i) /\ tx' = DeleteMessageTx(tx, i)
    BY <1>2 DEF SaveEvict
  <2>2. pc = "saveEvict" /\ UNCHANGED <<db, cl>> BY <1>2 DEF SaveEvict
  <2>3. sv'.blob = sv.blob /\ sv'.rank = sv.rank /\ sv'.received = sv.received /\ sv'.before = sv.before
    BY <1>2 DEF SaveEvict, StoreInv, TypeOK, IsSave
  <2>4. IsDatabase(tx) /\ IntactDB(tx) /\ i \in DOMAIN tx.messages /\ tx.messages[i].blob # sv.blob
    BY <2>2 DEF Evictable, StoreInv, TypeOK, TypeTables, InTx
  <2>5. /\ DOMAIN tx'.messages = DOMAIN tx.messages \ {i}
        /\ \A j \in DOMAIN tx'.messages : tx'.messages[j] = tx.messages[j]
        /\ \A p \in DOMAIN tx.blobs \ DOMAIN tx'.blobs :
             p = tx.messages[i].blob /\ p \in DOMAIN tx'.pending /\ tx'.pending[p] = tx.blobs[p]
        /\ \A p \in DOMAIN tx.pending : p \in DOMAIN tx'.pending /\ tx'.pending[p] = tx.pending[p]
        /\ \A p \in DOMAIN tx'.pending : p \in DOMAIN tx.pending \/ p \in DOMAIN tx.blobs
    BY <2>1, <2>4, DeleteMoves
  <2>6. TxEvicts BY <2>2 DEF TxInv
  <2>7. /\ sv.blob \notin DOMAIN db.blobs /\ sv.blob \notin DOMAIN db.pending
        /\ DOMAIN db.pending \subseteq DOMAIN tx.pending
        /\ \A p \in DOMAIN tx.blobs \ {sv.blob} : p \in DOMAIN db.blobs /\ tx.blobs[p] = db.blobs[p]
        /\ DOMAIN tx.blobs \cap DOMAIN tx.pending = {}
    BY <2>2, <2>4 DEF StoreInv, Staged, InTx, SubBlobs, IntactDB
  <2>8. sv.blob \in DOMAIN tx'.blobs BY <2>4, <2>5, <2>6 DEF TxEvicts
  <2>9. Delivered(tx)'
    <3>1. Referrers(tx', sv.blob) = Referrers(tx, sv.blob) BY <2>4, <2>5 DEF Referrers
    <3>2. \A j \in Referrers(tx, sv.blob) : tx'.messages[j] = tx.messages[j]
      BY <2>4, <2>5 DEF Referrers
    <3> QED BY <2>3, <2>6, <3>1, <3>2 DEF TxEvicts, Delivered
  <2>10. Moved'
    <3>1. \A p \in DOMAIN db.pending : tx'.pending[p] = db.pending[p]
      BY <2>5, <2>6, <2>7 DEF TxEvicts, Moved
    <3>2. \A p \in DOMAIN db.blobs :
            p \in DOMAIN tx'.blobs \/ (p \in DOMAIN tx'.pending /\ tx'.pending[p] = db.blobs[p])
      BY <2>5, <2>6, <2>7 DEF TxEvicts, Moved
    <3>3. sv.blob \notin DOMAIN tx'.pending
      <4>1. DOMAIN tx'.blobs \cap DOMAIN tx'.pending = {}
        BY <1>2, <2>2 DEF SaveEvict, StoreInv, InTx, IntactDB
      <4> QED BY <2>8, <4>1
    <3>4. \A p \in DOMAIN tx'.pending : p \in DOMAIN db.pending \/ p \in DOMAIN db.blobs
      BY <2>5, <2>6, <2>7, <3>3 DEF TxEvicts, Moved
    <3> QED BY <2>2, <3>1, <3>2, <3>4 DEF Moved
  <2>11. Evictable' = Evictable \ {i} BY <2>3, <2>5 DEF Evictable
  <2>12. \A j \in Evictable' : j \in DOMAIN db.messages /\ tx'.messages[j] = db.messages[j]
    BY <2>5, <2>6, <2>11 DEF TxEvicts, Evictable
  <2>13. Evicted(i)
    <3> DEFINE E == ExpiredOf(Evictable, tx.messages, sv.before)
    <3>1. \A j \in Evictable : tx.messages[j] = db.messages[j] BY <2>6 DEF TxEvicts
    <3>2. CASE E # {}
      BY <2>1, <3>1, <3>2 DEF Victim, ExpiredOf, Evicted
    <3>3. CASE E = {}
      <4>1. \A j \in Evictable : ReceivedFirst(tx.messages, i, j) BY <2>1, <3>3 DEF Victim
      <4>2. \A j \in Evictable : ~(tx.messages[j].expires <= sv.before) BY <3>3 DEF ExpiredOf
      <4>3. \A j \in Evictable : tx.messages[j].expires \in Nat
        BY <2>4 DEF Evictable, IsDatabase, IsTable, Row
      <4>4. sv.before \in Nat BY DEF StoreInv, TypeOK, IsSave
      <4>5. \A j \in Evictable : db.messages[j].expires > sv.before BY <3>1, <4>2, <4>3, <4>4
      <4>6. \A j \in Evictable : ReceivedFirst(db.messages, i, j)
        BY <2>1, <3>1, <4>1 DEF ReceivedFirst
      <4> QED BY <4>5, <4>6 DEF Evicted
    <3> QED BY <3>2, <3>3
  <2>14. \A j \in DOMAIN db.messages \ DOMAIN tx'.messages : Evicted(j)'
    <3>1. \A j \in DOMAIN db.messages \ DOMAIN tx'.messages : Evicted(j)
      BY <2>5, <2>6, <2>13 DEF TxEvicts
    <3> QED BY <2>2, <2>3, <2>11, <3>1 DEF Evicted, ReceivedFirst
  <2> QED BY <2>2, <2>3, <2>8, <2>9, <2>10, <2>12, <2>14 DEF TxEvicts
<1> QED BY <1>1, <1>2

\* Cleanup's transaction deletes what has expired.
LEMMA CleanTx ==
  ASSUME StoreInv, TxInv, CleanupSelect \/ CleanupDelete \/ (CleanupBegin /\ pc = "cleanDelete")
  PROVE  TxCleans'
<1>1. CASE CleanupSelect
  <2>1. PICK E \in SUBSET ExpiredOf(DOMAIN db.messages, db.messages, cl.before) :
          cl' = [cl EXCEPT !.todo = E, !.count = 0]
    BY <1>1 DEF CleanupSelect
  <2>2. tx' = db /\ db' = db /\ cl.active BY <1>1 DEF CleanupSelect
  <2>3. cl'.active = cl.active /\ cl'.before = cl.before /\ cl'.todo = E
    BY <2>1 DEF StoreInv, TypeOK, TypeControl
  <2>4. Moved' BY <2>2 DEF Moved
  <2> QED BY <2>2, <2>3, <2>4 DEF TxCleans, ExpiredOf
<1>2. CASE CleanupDelete
  <2>1. PICK i \in cl.todo : /\ tx' = DeleteMessageTx(tx, i)
                             /\ cl' = [cl EXCEPT !.todo = @ \ {i}, !.count = @ + 1]
    BY <1>2 DEF CleanupDelete
  <2>2. pc = "cleanDelete" /\ UNCHANGED db BY <1>2 DEF CleanupDelete
  <2>3. cl'.active = cl.active /\ cl'.before = cl.before /\ cl'.todo = cl.todo \ {i}
    BY <2>1 DEF StoreInv, TypeOK, TypeControl
  <2>4. IsDatabase(tx) /\ IntactDB(tx) /\ i \in DOMAIN tx.messages
        /\ DOMAIN db.pending \subseteq DOMAIN tx.pending /\ cl.todo \subseteq DOMAIN tx.messages
        /\ SubBlobs(tx, 0)
    BY <2>2 DEF StoreInv, TypeOK, TypeTables, InTx
  <2>5. /\ DOMAIN tx'.messages = DOMAIN tx.messages \ {i}
        /\ \A j \in DOMAIN tx'.messages : tx'.messages[j] = tx.messages[j]
        /\ \A p \in DOMAIN tx.blobs \ DOMAIN tx'.blobs :
             p = tx.messages[i].blob /\ p \in DOMAIN tx'.pending /\ tx'.pending[p] = tx.blobs[p]
        /\ \A p \in DOMAIN tx.pending : p \in DOMAIN tx'.pending /\ tx'.pending[p] = tx.pending[p]
        /\ \A p \in DOMAIN tx'.pending : p \in DOMAIN tx.pending \/ p \in DOMAIN tx.blobs
    BY <2>1, <2>4, DeleteMoves
  <2>6. TxCleans BY <2>2 DEF TxInv
  <2>7. \A p \in DOMAIN tx.blobs : p \in DOMAIN db.blobs /\ tx.blobs[p] = db.blobs[p]
    <3>1. 0 \notin BlobPaths BY ConstantsAssumption
    <3>2. 0 \notin DOMAIN tx.blobs BY <2>4, <3>1 DEF IsDatabase, IsTable
    <3> QED BY <2>4, <3>2 DEF SubBlobs
  <2>8. Moved'
    <3>1. \A p \in DOMAIN db.pending : tx'.pending[p] = db.pending[p]
      BY <2>4, <2>5, <2>6 DEF TxCleans, Moved
    <3>2. \A p \in DOMAIN db.blobs :
            p \in DOMAIN tx'.blobs \/ (p \in DOMAIN tx'.pending /\ tx'.pending[p] = db.blobs[p])
      BY <2>5, <2>6, <2>7 DEF TxCleans, Moved
    <3>3. \A p \in DOMAIN tx'.pending : p \in DOMAIN db.pending \/ p \in DOMAIN db.blobs
      BY <2>5, <2>6, <2>7 DEF TxCleans, Moved
    <3> QED BY <2>2, <3>1, <3>2, <3>3 DEF Moved
  <2>9. i \in DOMAIN db.messages /\ db.messages[i].expires <= cl.before
    BY <2>4, <2>6 DEF TxCleans
  <2>10. \A j \in DOMAIN tx'.messages : j \in DOMAIN db.messages /\ tx'.messages[j] = db.messages[j]
    BY <2>5, <2>6 DEF TxCleans
  <2>11. \A j \in DOMAIN db.messages \ DOMAIN tx'.messages : db.messages[j].expires <= cl.before
    BY <2>5, <2>6, <2>9 DEF TxCleans
  <2>12. \A j \in cl'.todo : tx'.messages[j].expires <= cl.before
    BY <2>3, <2>4, <2>5, <2>6 DEF TxCleans
  <2> QED BY <2>2, <2>3, <2>6, <2>8, <2>10, <2>11, <2>12 DEF TxCleans
<1>3. CASE CleanupBegin /\ pc = "cleanDelete" BY <1>3 DEF TxInv, TxCleans, CleanupBegin
<1> QED BY <1>1, <1>2, <1>3

\* The steps that write the database.
LEMMA Unwritten ==
  ASSUME [Next]_vars, ~SaveCommit, ~CleanupCommit, ~Migrate, ~NormalizeStoredRecipients, ~Discard,
         ~ReconcileOrphan, ~DrainCommit
  PROVE  db' = db
<1>1. CASE Drain BY <1>1 DEF Drain, DrainSelect, DrainUnlink, DrainSync, DrainFails
<1>2. CASE Save
  BY <1>2 DEF Save, SaveBegin, SaveDrained, SaveAdmit, SaveRefused, SaveWrite, SaveWriteFails,
     SaveRename, SaveRenameFails, SaveSync, SaveTxFails, RollBack, SavePostDrained, SaveRemoveTmp,
     SaveRemoveTmpFails, SaveReturn, DiscardFails, DiscardLoad, DiscardLoadFails, SaveInsert, SaveEvict
<1>3. CASE Cleanup
  BY <1>3 DEF Cleanup, CleanupBegin, CleanupSelect, CleanupDelete, CleanupTxFails,
     CleanupDrained, CleanupDrainFailed, CleanupError, Fatal
<1>4. CASE OpenStore
  BY <1>4 DEF OpenStore, Boot, ReconcileCheck, ReconcileLoad, OpenDrained, OpenLoad, StartupFails, Fatal
<1>5. CASE Get \/ Tick \/ ClockBack
  BY <1>5 DEF Get, RenderInbox, SelectBody, ReadRow, ReadFile, ReadError, Tick, ClockBack
<1>6. CASE Stop \/ PowerLoss BY <1>6 DEF Stop, PowerLoss
<1>7. CASE UNCHANGED vars BY <1>7 DEF vars
<1> QED BY <1>1, <1>2, <1>3, <1>4, <1>5, <1>6, <1>7 DEF Next

LEMMA TxStep == ASSUME StoreInv, StoreInv', TxInv, [Next]_vars PROVE TxInv'
<1>1. CASE Next
  <2>1. ASSUME pc' = "saveEvict" PROVE TxEvicts'
    <3>1. CASE SaveInsert \/ SaveEvict BY <3>1, SaveTx
    <3>2. CASE UNCHANGED <<pc, tx, sv, db>>
      BY <2>1, <3>2 DEF TxInv, TxEvicts, Moved, Delivered, Referrers, Evicted, Evictable, ReceivedFirst
    <3> QED BY <1>1, <2>1, <3>1, <3>2, TxFrame
  <2>2. ASSUME pc' = "cleanDelete" PROVE TxCleans'
    <3>1. CASE CleanupSelect \/ CleanupDelete \/ CleanupBegin
      BY <2>2, <3>1, CleanTx DEF CleanupBegin
    <3>2. CASE UNCHANGED <<pc, tx, cl, db>> BY <2>2, <3>2 DEF TxInv, TxCleans, Moved
    <3> QED BY <1>1, <2>2, <3>1, <3>2, TxFrame
  <2> QED BY <2>1, <2>2 DEF TxInv
<1>2. CASE UNCHANGED vars
  BY <1>2 DEF vars, TxInv, TxEvicts, TxCleans, Moved, Delivered, Referrers, Evicted, Evictable, ReceivedFirst
<1> QED BY <1>1, <1>2

\* What an open transaction has done, whenever one is open.
THEOREM Transactions == Spec => []TxInv
<1>1. Init => TxInv BY DEF Init, TxInv
<1> QED BY <1>1, TxStep, Invariance, PTL DEF Spec

\* "Expired messages are evicted before the oldest live messages": mail leaves
\* the committed tables only as LiveEvictionOldestFirst says.
THEOREM EvictionOrder == Spec => LiveEvictionOldestFirst
<1> DEFINE Step(i) ==
      LET Kept == DOMAIN db.messages \cap DOMAIN db'.messages
      IN  \/ pc = "cleanDelete" /\ db.messages[i].expires <= cl.before
          \/ pc = "saveEvict" /\ db.messages[i].expires <= sv.before
          \/ /\ pc = "saveEvict"
             /\ \A j \in Kept : db.messages[j].expires > sv.before
             /\ \A j \in Kept : ReceivedFirst(db.messages, i, j)
<1>1. ASSUME StoreInv, TxInv, [Next]_vars, NEW i \in DOMAIN db.messages \ DOMAIN db'.messages
      PROVE  Step(i)
  <2>1. CASE SaveCommit
    <3>1. pc = "saveEvict" /\ db' = tx BY <2>1 DEF SaveCommit
    <3>2. TxEvicts /\ Evicted(i) BY <1>1, <3>1 DEF TxInv, TxEvicts
    <3>3. \A j \in DOMAIN db.messages \cap DOMAIN db'.messages : j \in Evictable
      <4> SUFFICES ASSUME NEW j \in DOMAIN db.messages, j \in DOMAIN tx.messages PROVE j \in Evictable
        BY <3>1
      <4>1. ~db.legacy BY <1>1, <3>1 DEF StoreInv, Unmigrated
      <4>2. j[1] # sv.blob
        BY <1>1, <3>1, <4>1 DEF StoreInv, ReferencesIntact, IntactDB, Staged
      <4>3. tx.messages[j].blob = j[1] BY <1>1, <3>1 DEF StoreInv, InTx, IntactDB
      <4> QED BY <4>2, <4>3 DEF Evictable
    <3> QED BY <3>1, <3>2, <3>3 DEF Evicted
  <2>2. CASE CleanupCommit
    BY <1>1, <2>2 DEF CleanupCommit, TxInv, TxCleans
  <2>3. CASE ~SaveCommit /\ ~CleanupCommit
    <3>1. DOMAIN db'.messages = DOMAIN db.messages
      <4>1. CASE Migrate
        BY <1>1, <4>1 DEF Migrate, Migrated
      <4>2. CASE NormalizeStoredRecipients
        BY <1>1, <4>2 DEF NormalizeStoredRecipients, StoreInv, TypeOK, TypeTables, IsDatabase
      <4>3. CASE Discard \/ ReconcileOrphan
        BY <1>1, <4>3 DEF Discard, ReconcileOrphan, EnqueueDeletion, StoreInv, TypeOK, TypeTables, IsDatabase
      <4>4. CASE DrainCommit
        BY <1>1, <4>4 DEF DrainCommit, StoreInv, TypeOK, TypeTables, IsDatabase
      <4>5. CASE ~Migrate /\ ~NormalizeStoredRecipients /\ ~Discard /\ ~ReconcileOrphan /\ ~DrainCommit
        BY <1>1, <2>3, <4>5, Unwritten
      <4> QED BY <4>1, <4>2, <4>3, <4>4, <4>5
    <3> QED BY <3>1
  <2> QED BY <2>1, <2>2, <2>3
<1>2. ASSUME StoreInv, TxInv, [Next]_vars
      PROVE  [\A i \in DOMAIN db.messages \ DOMAIN db'.messages : Step(i)]_vars
  BY <1>2, <1>1
<1> QED BY <1>2, Invariance, Transactions, PTL DEF Spec, LiveEvictionOldestFirst

\* The steps that only write the deletion queue.
LEMMA QueueOnly ==
  ASSUME StoreInv, Discard \/ ReconcileOrphan \/ DrainCommit
  PROVE  db'.messages = db.messages /\ db'.blobs = db.blobs
BY DEF Discard, ReconcileOrphan, DrainCommit, EnqueueDeletion, StoreInv, TypeOK, TypeTables, IsDatabase

\* The locals of Save that its answer depends on.
LEMMA ErrSet ==
  ASSUME IsSave(sv), NEW p, sv' = [sv EXCEPT !.err = TRUE] \/ sv' = [sv EXCEPT !.drop = p, !.err = TRUE]
  PROVE  sv'.err /\ sv'.blob = sv.blob
BY DEF IsSave

LEMMA ErrKept ==
  ASSUME IsSave(sv), NEW p, NEW n,
         \/ sv' = [sv EXCEPT !.drop = p]
         \/ sv' = [sv EXCEPT !.projected = p, !.before = n]
         \/ sv' = [sv EXCEPT !.projected = p, !.deleted = n]
  PROVE  sv'.err = sv.err /\ sv'.blob = sv.blob
BY DEF IsSave

\* Steps that leave the answer as it is.
LEMMA AnswerKept ==
  ASSUME Answering, pc' = pc \/ (pc \in DrainLabels /\ pc' \in DrainLabels), sv' = sv, dr'.ret = dr.ret,
         db'.messages = db.messages, db'.blobs = db.blobs
  PROVE  Answering'
BY DEF Answering, Calls, Staging, DrainLabels, Delivered, Referrers

\* Steps that leave Save's part of the code.
LEMMA NoAnswer ==
  ASSUME \/ pc' \in {"free", "migrate", "normalize", "reconcile", "scan", "openLoad", "cleanDelete"}
         \/ pc' \in DrainLabels /\ dr'.ret \in {"none", "cleanup", "open"}
  PROVE  Answering'
BY DEF Answering, Calls, Staging, DrainLabels

LEMMA AnswerStep == ASSUME StoreInv, TxInv, Answering, [Next]_vars PROVE Answering'
<1> USE DEF StoreInv, TypeOK
<1>1. CASE Drain
  <2>1. dr'.ret = dr.ret
    BY <1>1 DEF Drain, DrainSelect, DrainUnlink, DrainSync, DrainCommit, DrainFails, TypeControl
  <2>2. pc \in DrainLabels /\ pc' \in DrainLabels /\ sv' = sv
    BY <1>1 DEF Drain, DrainSelect, DrainUnlink, DrainSync, DrainCommit, DrainFails, DrainLabels
  <2>3. db'.messages = db.messages /\ db'.blobs = db.blobs
    BY <1>1, QueueOnly DEF Drain, DrainSelect, DrainUnlink, DrainSync, DrainFails
  <2> QED BY <2>1, <2>2, <2>3, AnswerKept
<1>2. CASE Save
  <2>1. CASE SaveBegin
    <3>1. sv'.blob = 0 /\ ~sv'.err BY <2>1 DEF SaveBegin, NoSave
    <3>2. pc' = "drainSelect" /\ dr'.ret = "savePre" BY <2>1 DEF SaveBegin, CallDrain, NoDrain
    <3> QED BY <3>1, <3>2 DEF Answering, Calls, Staging, DrainLabels
  <2>2. CASE SaveDrained
    <3>1. sv.blob = 0 /\ ~sv.err BY <2>2 DEF SaveDrained, Answering, Calls, DrainLabels
    <3>2. pc' = "saveAdmit" /\ sv' = sv BY <2>2 DEF SaveDrained, Return
    <3> QED BY <3>1, <3>2 DEF Answering, Calls, Staging, DrainLabels
  <2>3. CASE SaveAdmit
    <3>1. pc' = "saveWrite" /\ ~sv.err BY <2>3 DEF SaveAdmit, Answering
    <3>2. sv'.err = sv.err BY <2>3 DEF SaveAdmit, IsSave
    <3> QED BY <3>1, <3>2 DEF Answering, Calls, Staging, DrainLabels
  <2>4. CASE SaveRefused
    <3>1. sv'.err /\ sv'.blob = 0 BY <2>4, ErrSet DEF SaveRefused, Answering
    <3>2. sv'.blob \notin DOMAIN db'.blobs
      BY <2>4, <3>1, ConstantsAssumption DEF SaveRefused, TypeTables, IsDatabase, IsTable
    <3> QED BY <2>4, <3>1, <3>2 DEF SaveRefused, Answering, Calls, Staging, DrainLabels
  <2>5. CASE SaveWrite \/ SaveRename \/ SaveSync
    BY <2>5 DEF SaveWrite, SaveRename, SaveSync, Answering, Calls, Staging, DrainLabels
  <2>6. CASE SaveWriteFails \/ SaveRenameFails
    BY <2>6, ErrSet DEF SaveWriteFails, SaveRenameFails, Staged, Answering, Calls, Staging, DrainLabels
  <2>7. CASE SaveInsert \/ SaveEvict
    <3>1. pc \in {"saveInsert", "saveEvict"} /\ pc' = "saveEvict" BY <2>7 DEF SaveInsert, SaveEvict
    <3>2. sv'.err = sv.err BY <2>7, ErrKept DEF SaveInsert, SaveEvict
    <3> QED BY <3>1, <3>2 DEF Answering, Calls, Staging, DrainLabels
  <2>8. CASE SaveCommit
    <3>1. pc = "saveEvict" /\ db' = tx /\ sv' = sv /\ pc' = "drainSelect" /\ dr'.ret = "savePost"
      BY <2>8 DEF SaveCommit, CallDrain, NoDrain
    <3>2. ~sv.err BY <3>1 DEF Answering, Staging
    <3>3. Delivered(tx) /\ DOMAIN sv.rank # {} BY <3>1 DEF TxInv, TxEvicts, Staged
    <3>4. Delivered(db)' BY <3>1, <3>3 DEF Delivered, Referrers
    <3> QED BY <3>1, <3>2, <3>3, <3>4 DEF Answering, Calls, Staging, DrainLabels
  <2>9. CASE SaveTxFails
    BY <2>9, ErrSet DEF SaveTxFails, RollBack, Staged, Answering, Calls, Staging, DrainLabels
  <2>10. CASE SavePostDrained
    <3>1. pc = "drained" /\ pc' = "saveReturn" /\ sv' = sv /\ db' = db /\ dr.ret \in {"savePost", "discard"}
      BY <2>10 DEF SavePostDrained, Return
    <3> QED BY <3>1 DEF Answering, Calls, Staging, DrainLabels, Delivered, Referrers
  <2>11. CASE SaveRemoveTmp
    BY <2>11 DEF SaveRemoveTmp, Answering, Calls, Staging, DrainLabels
  <2>12. CASE SaveRemoveTmpFails
    BY <2>12, ErrKept DEF SaveRemoveTmpFails, Answering, Calls, Staging, DrainLabels
  <2>13. CASE SaveReturn BY <2>13, NoAnswer DEF SaveReturn
  <2>14. CASE Discard
    BY <2>14, QueueOnly DEF Discard, Answering, Calls, Staging, DrainLabels
  <2>15. CASE DiscardFails \/ DiscardLoadFails
    BY <2>15 DEF DiscardFails, DiscardLoadFails, Answering, Calls, Staging, DrainLabels
  <2>16. CASE DiscardLoad
    <3>1. pc = "discardLoad" /\ pc' = "drainSelect" /\ dr'.ret = "discard" /\ sv' = sv /\ db' = db
      BY <2>16 DEF DiscardLoad, CallDrain, NoDrain
    <3> QED BY <3>1 DEF Answering, Calls, Staging, DrainLabels
  <2> QED BY <1>2, <2>1, <2>2, <2>3, <2>4, <2>5, <2>6, <2>7, <2>8, <2>9, <2>10, <2>11, <2>12, <2>13,
             <2>14, <2>15, <2>16 DEF Save
<1>3. CASE CleanupBegin \/ Get \/ Tick \/ ClockBack \/ UNCHANGED vars
  <2>1. UNCHANGED <<pc, sv, dr, db>>
    BY <1>3 DEF CleanupBegin, Get, RenderInbox, SelectBody, ReadRow, ReadFile, ReadError, Tick, ClockBack, vars
  <2> QED BY <2>1, AnswerKept
<1>4. CASE Cleanup /\ ~CleanupBegin
  <2>1. CASE CleanupSelect \/ CleanupDelete BY <2>1, NoAnswer DEF CleanupSelect, CleanupDelete
  <2>2. CASE CleanupCommit
    <3>1. pc' = "drainSelect" /\ dr'.ret = "cleanup" BY <2>2 DEF CleanupCommit, CallDrain, NoDrain
    <3> QED BY <3>1, NoAnswer DEF DrainLabels
  <2>3. CASE CleanupTxFails \/ CleanupDrained \/ CleanupDrainFailed
    <3>1. pc' = "free"
      BY <2>3 DEF CleanupTxFails, CleanupDrained, CleanupDrainFailed, CleanupError, Fatal, Halt, Return
    <3> QED BY <3>1, NoAnswer
  <2> QED BY <1>4, <2>1, <2>2, <2>3 DEF Cleanup
<1>5. CASE OpenStore
  <2>1. CASE Boot \/ Migrate \/ NormalizeStoredRecipients \/ ReconcileCheck \/ ReconcileOrphan
             \/ OpenLoad \/ StartupFails
    <3>1. pc' \in {"free", "migrate", "normalize", "reconcile", "scan"}
      BY <2>1 DEF Boot, Migrate, NormalizeStoredRecipients, ReconcileCheck, ReconcileOrphan,
         OpenLoad, StartupFails, Fatal, Halt
    <3> QED BY <3>1, NoAnswer
  <2>2. CASE ReconcileLoad \/ OpenDrained
    <3>1. pc' = "openLoad" \/ (pc' = "drainSelect" /\ dr'.ret = "open")
      BY <2>2 DEF ReconcileLoad, OpenDrained, Return, CallDrain, NoDrain
    <3> QED BY <3>1, NoAnswer DEF DrainLabels
  <2> QED BY <1>5, <2>1, <2>2 DEF OpenStore
<1>6. CASE Stop \/ PowerLoss
  <2>1. pc' = "free" BY <1>6 DEF Stop, PowerLoss, Halt
  <2> QED BY <2>1, NoAnswer
<1> QED BY <1>1, <1>2, <1>3, <1>4, <1>5, <1>6 DEF Next

\* At every step of Save its answer is settled as far as Answering says.
THEOREM Answers == Spec => []Answering
<1>1. Init => Answering
  BY DEF Init, Answering, Calls, Staging, DrainLabels, NoSave
<1> QED BY <1>1, AnswerStep, Invariance, Transactions, PTL DEF Spec

\* Save tells the SMTP session the truth, through every failure, retry and
\* rollback: an error leaves nothing readable, success leaves every recipient
\* its message (the promise of SaveAnswerTrue).
THEOREM SaveTruthful == Spec => []SaveAnswerTrue
<1>1. StoreInv /\ Answering => SaveAnswerTrue
  <2> SUFFICES ASSUME StoreInv, Answering, pc = "saveReturn"
               PROVE  IF sv.err THEN Referrers(db, sv.blob) = {}
                      ELSE /\ DOMAIN sv.rank # {}
                           /\ {db.messages[i].rcpt : i \in Referrers(db, sv.blob)} = DOMAIN sv.rank
    BY DEF SaveAnswerTrue
  <2>1. ~db.legacy BY DEF StoreInv, Unmigrated
  <2>2. CASE sv.err
    BY <2>1, <2>2 DEF Answering, Referrers, StoreInv, ReferencesIntact, IntactDB
  <2>3. CASE ~sv.err
    <3>1. DOMAIN sv.rank # {} /\ Delivered(db) BY <2>3 DEF Answering
    <3>2. {db.messages[i].rcpt : i \in Referrers(db, sv.blob)} = DOMAIN sv.rank
      <4> DEFINE R == Referrers(db, sv.blob)
      <4>1. R = {<<sv.blob, a>> : a \in DOMAIN sv.rank} /\ \A i \in R : db.messages[i].rcpt = i[2]
        BY <3>1 DEF Delivered
      <4> HIDE DEF R
      <4>2. \A a \in DOMAIN sv.rank : <<sv.blob, a>> \in R /\ db.messages[<<sv.blob, a>>].rcpt = a
        BY <4>1
      <4>3. \A i \in R : \E a \in DOMAIN sv.rank : i = <<sv.blob, a>> BY <4>1
      <4>4. \A i \in R : db.messages[i].rcpt \in DOMAIN sv.rank BY <4>2, <4>3
      <4>5. {db.messages[i].rcpt : i \in R} = DOMAIN sv.rank BY <4>2, <4>4
      <4> QED BY <4>5 DEF R
    <3> QED BY <2>3, <3>1, <3>2
  <2> QED BY <2>2, <2>3
<1> QED BY <1>1, Answers, Invariance, PTL

-----------------------------------------------------------------------------
(* What other steps do behind a reader's back. *)

Ends == mode' = "down" /\ pc' = "free" /\ reader' = [r \in Readers |-> NoReader]

\* While the process lives, the files that appear or change are staging files
\* and the blob that Save renames.
LEMMA FilesFrame ==
  ASSUME StoreInv, [Next]_vars, ~PowerLoss
  PROVE  \A p \in DOMAIN files' :
           \/ p \in DOMAIN files /\ files'[p] = files[p]
           \/ p \in TmpPaths
           \/ Staging /\ p = sv.blob
<1>1. CASE SaveAdmit BY <1>1 DEF SaveAdmit, Put
<1>2. CASE SaveWrite \/ SaveWriteFails
  BY <1>2 DEF SaveWrite, SaveWriteFails, StoreInv, Staged, TypeOK, TypeDirectory, IsTable
<1>3. CASE SaveRename BY <1>3 DEF SaveRename, Put, Without, Staging
<1>4. CASE DrainUnlink BY <1>4 DEF DrainUnlink, Without
<1>5. CASE SaveRemoveTmp BY <1>5 DEF SaveRemoveTmp, Without
<1>6. CASE DiscardFails BY <1>6 DEF DiscardFails, Without
<1>7. CASE ~(SaveAdmit \/ SaveWrite \/ SaveWriteFails \/ SaveRename \/ DrainUnlink \/ SaveRemoveTmp
             \/ DiscardFails)
  <2>1. files' = files
    BY <1>7 DEF Next, vars, disk, Drain, DrainSelect, DrainSync, DrainCommit, DrainFails,
       Save, SaveBegin, SaveDrained, SaveRefused,
       SaveRenameFails, SaveSync, SaveTxFails, RollBack, SavePostDrained, SaveCommit,
       SaveRemoveTmpFails, SaveReturn, Discard, DiscardLoad, DiscardLoadFails, SaveInsert, SaveEvict,
       Cleanup, CleanupBegin, CleanupSelect, CleanupDelete, CleanupTxFails, CleanupCommit,
       CleanupDrained, CleanupDrainFailed, CleanupError, Fatal,
       OpenStore, Boot, Migrate, NormalizeStoredRecipients, ReconcileCheck, ReconcileOrphan,
       ReconcileLoad, OpenDrained, OpenLoad, StartupFails,
       Get, RenderInbox, SelectBody, ReadRow, ReadFile, ReadError, Tick, ClockBack, Stop
  <2> QED BY <2>1
<1> QED BY <1>1, <1>2, <1>3, <1>4, <1>5, <1>6, <1>7

\* The messages that appear are those of the delivery that Save commits.
LEMMA MessagesFrame ==
  ASSUME StoreInv, TxInv, [Next]_vars
  PROVE  \A i \in DOMAIN db'.messages :
           i \in DOMAIN db.messages \/ (Staging /\ i[1] = sv.blob)
<1>1. CASE SaveCommit
  <2>1. pc = "saveEvict" /\ db' = tx BY <1>1 DEF SaveCommit
  <2>2. \A i \in DOMAIN tx.messages : i \in Evictable => i \in DOMAIN db.messages
    BY <2>1 DEF TxInv, TxEvicts
  <2>3. \A i \in DOMAIN tx.messages : i \notin Evictable => i[1] = sv.blob
    BY <2>1 DEF Evictable, StoreInv, InTx, IntactDB
  <2> QED BY <2>1, <2>2, <2>3 DEF Staging
<1>2. CASE CleanupCommit BY <1>2 DEF CleanupCommit, TxInv, TxCleans
<1>3. CASE Migrate BY <1>3 DEF Migrate, Migrated
<1>4. CASE NormalizeStoredRecipients
  BY <1>4 DEF NormalizeStoredRecipients, StoreInv, TypeOK, TypeTables, IsDatabase
<1>5. CASE Discard \/ ReconcileOrphan \/ DrainCommit BY <1>5, QueueOnly
<1>6. CASE ~(SaveCommit \/ CleanupCommit \/ Migrate \/ NormalizeStoredRecipients \/ Discard
             \/ ReconcileOrphan \/ DrainCommit)
  BY <1>6, Unwritten
<1> QED BY <1>1, <1>2, <1>3, <1>4, <1>5, <1>6

\* Save draws a name that no reader holds, and keeps it.
LEMMA NamesFrame ==
  ASSUME StoreInv, [Next]_vars, ~Get
  PROVE  Staging' => \/ Staging /\ sv'.blob = sv.blob
                     \/ SaveAdmit /\ sv'.blob \in BlobPaths /\ Fresh(sv'.blob)
<1>1. CASE SaveAdmit
  <2>1. PICK b \in BlobPaths, t \in TmpPaths :
          Fresh(b) /\ sv' = [sv EXCEPT !.blob = b, !.tmp = t, !.received = now]
    BY <1>1 DEF SaveAdmit
  <2>2. sv'.blob = b BY <2>1 DEF StoreInv, TypeOK, IsSave
  <2> QED BY <1>1, <2>1, <2>2
<1>2. CASE SaveInsert \/ SaveEvict
  <2>1. sv'.blob = sv.blob BY <1>2, ErrKept DEF SaveInsert, SaveEvict, StoreInv, TypeOK
  <2> QED BY <1>2, <2>1 DEF SaveInsert, SaveEvict, Staging
<1>3. CASE ~SaveAdmit /\ ~SaveInsert /\ ~SaveEvict
  <2>1. CASE Drain
    BY <2>1 DEF Drain, DrainSelect, DrainUnlink, DrainSync, DrainCommit, DrainFails, Staging
  <2>2. CASE Save
    BY <1>3, <2>2 DEF Save, SaveBegin, SaveDrained, SaveRefused, SaveWrite, SaveWriteFails,
       SaveRename, SaveRenameFails, SaveSync, SaveTxFails, SavePostDrained, SaveCommit, SaveRemoveTmp,
       SaveRemoveTmpFails, SaveReturn, DiscardFails, Discard, DiscardLoad, DiscardLoadFails,
       CallDrain, Return, Staging
  <2>3. CASE Cleanup
    BY <2>3 DEF Cleanup, CleanupBegin, CleanupSelect, CleanupDelete, CleanupTxFails, CleanupCommit,
       CleanupDrained, CleanupDrainFailed, CleanupError, Fatal, Halt, CallDrain, Return, Staging
  <2>4. CASE OpenStore
    BY <2>4 DEF OpenStore, Boot, Migrate, NormalizeStoredRecipients, ReconcileCheck, ReconcileOrphan,
       ReconcileLoad, OpenDrained, OpenLoad, StartupFails, Fatal, Halt, CallDrain, Return, Staging
  <2>5. CASE Tick \/ ClockBack \/ UNCHANGED vars BY <2>5 DEF Tick, ClockBack, vars, Staging
  <2>6. CASE Stop \/ PowerLoss BY <2>6 DEF Stop, PowerLoss, Halt, Staging
  <2> QED BY <2>1, <2>2, <2>3, <2>4, <2>5, <2>6 DEF Next
<1> QED BY <1>1, <1>2, <1>3

\* The readers go with the process, or go on.
LEMMA ReadersFrame ==
  ASSUME [Next]_vars, ~Get
  PROVE  \/ Ends
         \/ reader' = reader /\ ~PowerLoss /\ (mode = "serving" => mode' = "serving")
<1>0. PowerLoss => Ends BY DEF PowerLoss, Halt, Ends
<1>1. CASE Drain
  BY <1>0, <1>1 DEF Drain, DrainSelect, DrainUnlink, DrainSync, DrainCommit, DrainFails, env, proc
<1>2. CASE Save
  BY <1>0, <1>2 DEF Save, SaveBegin, SaveDrained, SaveAdmit, SaveRefused, SaveWrite, SaveWriteFails,
     SaveRename, SaveRenameFails, SaveSync, SaveTxFails, SavePostDrained, SaveCommit, SaveRemoveTmp,
     SaveRemoveTmpFails, SaveReturn, DiscardFails, Discard, DiscardLoad, DiscardLoadFails,
     SaveInsert, SaveEvict, env, proc
<1>3. CASE Cleanup
  BY <1>0, <1>3 DEF Cleanup, CleanupBegin, CleanupSelect, CleanupDelete, CleanupTxFails, CleanupCommit,
     CleanupDrained, CleanupDrainFailed, CleanupError, Fatal, Halt, Ends, env, proc
<1>4. CASE OpenStore
  BY <1>0, <1>4 DEF OpenStore, Boot, Migrate, NormalizeStoredRecipients, ReconcileCheck, ReconcileOrphan,
     ReconcileLoad, OpenDrained, OpenLoad, StartupFails, Fatal, Halt, Ends, env, proc
<1>5. CASE Tick \/ ClockBack \/ UNCHANGED vars
  BY <1>0, <1>5 DEF Tick, ClockBack, vars, proc
<1>6. CASE Stop \/ PowerLoss BY <1>6 DEF Stop, PowerLoss, Halt, Ends
<1> QED BY <1>1, <1>2, <1>3, <1>4, <1>5, <1>6 DEF Next

LEMMA ReaderStep == ASSUME StoreInv, TxInv, ReaderInv, [Next]_vars PROVE ReaderInv'
<1>0. \A i \in MessageIds : i[1] \in BlobPaths /\ i[1] \notin TmpPaths
  BY ConstantsAssumption DEF MessageIds
<1>1. CASE ~Get
  <2>1. CASE Ends BY <2>1 DEF Ends, ReaderInv, Reading, NoReader
  <2>2. CASE reader' = reader /\ ~PowerLoss /\ (mode = "serving" => mode' = "serving")
    <3> SUFFICES ASSUME NEW r \in Readers
                 PROVE  /\ reader[r].st # "idle" => mode' = "serving"
                        /\ Reading(r) => reader[r].id \in MessageIds /\ reader[r].path = reader[r].id[1]
                        /\ Reading(r) /\ Staging' => sv'.blob # reader[r].id[1]
                        /\ reader[r].st = "error" => reader[r].id \notin DOMAIN db'.messages
                        /\ reader[r].st = "row" /\ reader[r].path \in DOMAIN files' =>
                             files'[reader[r].path] = reader[r].size
      BY <2>2 DEF ReaderInv, Reading
    <3> DEFINE R == reader[r]
    <3>1. /\ R.st # "idle" => mode = "serving"
          /\ Reading(r) => R.id \in MessageIds /\ R.path = R.id[1]
          /\ Reading(r) /\ Staging => sv.blob # R.id[1]
          /\ R.st = "error" => R.id \notin DOMAIN db.messages
          /\ R.st = "row" /\ R.path \in DOMAIN files => files[R.path] = R.size
          /\ Reading(r) <=> R.st \in {"row", "error"}
      BY DEF ReaderInv, Reading
    <3>2. Reading(r) /\ Staging' => sv'.blob # R.id[1]
      <4>1. CASE Staging /\ sv'.blob = sv.blob BY <3>1, <4>1
      <4>2. CASE Fresh(sv'.blob) BY <4>2 DEF Fresh
      <4> QED BY <1>1, <4>1, <4>2, NamesFrame
    <3>3. R.st = "error" => R.id \notin DOMAIN db'.messages
      BY <3>1, MessagesFrame
    <3>4. R.st = "row" /\ R.path \in DOMAIN files' => files'[R.path] = R.size
      BY <1>0, <2>2, <3>1, FilesFrame
    <3> QED BY <2>2, <3>1, <3>2, <3>3, <3>4
  <2> QED BY <1>1, <2>1, <2>2, ReadersFrame
<1>2. CASE Get
  <2>1. PICK r \in Readers :
          RenderInbox(r) \/ SelectBody(r) \/ ReadRow(r) \/ ReadFile(r) \/ ReadError(r)
    BY <1>2 DEF Get
  <2>2. UNCHANGED <<db, files, mode, pc, sv>>
    BY <2>1 DEF RenderInbox, SelectBody, ReadRow, ReadFile, ReadError, disk, proc
  <2>3. \A q \in Readers \ {r} : reader'[q] = reader[q]
    BY <2>1 DEF RenderInbox, SelectBody, ReadRow, ReadFile, ReadError, StoreInv, TypeOK, TypeControl
  <2>4. reader[r].st = "idle" => mode = "serving" \/ reader'[r] = NoReader
    BY <2>1 DEF RenderInbox, SelectBody, ReadRow, ReadFile, ReadError
  <2>5. mode = "serving" \/ reader'[r].st = "idle"
    BY <2>1, <2>4 DEF RenderInbox, SelectBody, ReadRow, ReadFile, ReadError, ReaderInv, NoReader
  <2>6. mode = "serving" => ~db.legacy /\ IntactDB(db) BY DEF StoreInv, Unmigrated, ReferencesIntact
  <2>7. ASSUME NEW i \in DOMAIN db.messages, mode = "serving"
        PROVE  /\ i \in MessageIds /\ db.messages[i].blob = i[1]
               /\ Staging => sv.blob # i[1]
               /\ i[1] \in DOMAIN files /\ files[i[1]] = db.messages[i].size
    <3>1. IntactDB(db) BY <2>6, <2>7
    <3>2. i \in MessageIds BY DEF StoreInv, TypeOK, TypeTables, IsDatabase, IsTable
    <3>3. db.messages[i].blob = i[1] /\ i[1] \in DOMAIN db.blobs /\ db.messages[i].size = db.blobs[i[1]]
      BY <3>1 DEF IntactDB
    <3>4. Staging => sv.blob \notin DOMAIN db.blobs BY DEF Staging, StoreInv, Staged
    <3> QED BY <3>2, <3>3, <3>4 DEF StoreInv, BlobsOnDisk
  <2>8. \/ reader'[r].st \in {"idle", "listed"}
        \/ \E i \in DOMAIN db.messages : reader'[r] = RowOf(i)
        \/ /\ reader[r].st = "row" /\ reader[r].path \notin DOMAIN files
           /\ reader'[r] = [reader[r] EXCEPT !.st = "error"]
    <3> USE DEF StoreInv, TypeOK, TypeControl
    <3>1. CASE RenderInbox(r) BY <3>1 DEF RenderInbox, NoReader
    <3>2. CASE SelectBody(r) BY <3>2 DEF SelectBody, NoReader, Found
    <3>3. CASE ReadRow(r) BY <3>3 DEF ReadRow
    <3>4. CASE ReadFile(r) BY <3>4 DEF ReadFile, NoReader
    <3>5. CASE ReadError(r) BY <3>5 DEF ReadError, NoReader
    <3> QED BY <2>1, <3>1, <3>2, <3>3, <3>4, <3>5
  <2>9. ASSUME NEW q \in Readers
        PROVE  /\ reader'[q].st # "idle" => mode = "serving"
               /\ reader'[q].st \in {"row", "error"} =>
                    /\ reader'[q].id \in MessageIds /\ reader'[q].path = reader'[q].id[1]
                    /\ Staging => sv.blob # reader'[q].id[1]
               /\ reader'[q].st = "error" => reader'[q].id \notin DOMAIN db.messages
               /\ reader'[q].st = "row" /\ reader'[q].path \in DOMAIN files =>
                    files[reader'[q].path] = reader'[q].size
    <3>1. CASE q # r BY <2>3, <3>1 DEF ReaderInv, Reading
    <3>2. CASE q = r /\ reader'[r].st \in {"idle", "listed"} BY <2>5, <3>2
    <3>3. CASE q = r /\ \E i \in DOMAIN db.messages : reader'[r] = RowOf(i)
      <4>1. PICK i \in DOMAIN db.messages : reader'[r] = RowOf(i) BY <3>3
      <4>2. /\ reader'[r].st = "row" /\ reader'[r].id = i /\ reader'[r].path = db.messages[i].blob
            /\ reader'[r].size = db.messages[i].size
        BY <4>1 DEF RowOf
      <4>3. mode = "serving" BY <2>5, <4>2
      <4> QED BY <2>7, <3>3, <4>2, <4>3
    <3>4. CASE /\ q = r /\ reader[r].st = "row" /\ reader[r].path \notin DOMAIN files
               /\ reader'[r] = [reader[r] EXCEPT !.st = "error"]
      <4>1. /\ reader'[r].st = "error" /\ reader'[r].id = reader[r].id
            /\ reader'[r].path = reader[r].path
        BY <3>4 DEF StoreInv, TypeOK, TypeControl
      <4>2. mode = "serving" BY <2>5, <4>1
      <4>3. reader[r].path = reader[r].id[1] BY <3>4 DEF ReaderInv, Reading
      <4>4. reader[r].id \notin DOMAIN db.messages BY <2>7, <3>4, <4>2, <4>3
      <4> QED BY <3>4, <4>1, <4>2, <4>3, <4>4 DEF ReaderInv, Reading
    <3> QED BY <2>8, <3>1, <3>2, <3>3, <3>4
  <2> QED BY <2>2, <2>9 DEF ReaderInv, Reading, Staging
<1> QED BY <1>1, <1>2

\* GetContext without a lock is safe: a missing file means the message was
\* deleted since its row was read, and a file that is there is whole.
THEOREM ReadSafety == Spec => []ReadErrorMeansDeleted
<1>1. Init => ReaderInv BY DEF Init, ReaderInv, Reading, NoReader
<1>2. ReaderInv => ReadErrorMeansDeleted BY DEF ReaderInv, ReadErrorMeansDeleted
<1> QED BY <1>1, <1>2, ReaderStep, Invariance, Transactions, PTL DEF Spec

-----------------------------------------------------------------------------
(* The directory: every file is charged. *)

DirInv == OneContent /\ HandNew /\ Known

\* Steps that write neither the directory nor the tables.
LEMMA DirKept ==
  ASSUME DirInv, UNCHANGED <<files, durable, db>>, InHand' = InHand,
         Scanned' => Scanned, ~storageFault' => ~storageFault,
         pc' \in {"saveWrite", "saveRename"} => pc' = pc /\ sv' = sv
  PROVE  DirInv'
<1>1. OneContent' BY DEF DirInv, OneContent
<1>2. HandNew'
  <2>1. InHand' # 0 => InHand' \notin DOMAIN db'.pending BY DEF DirInv, HandNew
  <2> QED BY <2>1 DEF DirInv, HandNew
<1>3. Known' BY DEF DirInv, Known
<1> QED BY <1>1, <1>2, <1>3 DEF DirInv

\* A commit moves blobs to the queue and keeps the rest.
LEMMA DirCommit ==
  ASSUME StoreInv, DirInv, Moved, DOMAIN tx.blobs \cap DOMAIN tx.pending = {},
         DOMAIN db.pending \subseteq DOMAIN tx.pending, InHand # 0 => InHand \in DOMAIN tx.blobs,
         db' = tx, UNCHANGED <<files, durable, storageFault, mode>>, InHand' = 0, Scanned,
         pc' \notin {"saveWrite", "saveRename"}
  PROVE  DirInv'
<1>1. OneContent'
  <2> SUFFICES ASSUME NEW p \in DOMAIN tx.pending
               PROVE  /\ p \in DOMAIN files => files[p] = tx.pending[p]
                      /\ p \in DOMAIN durable => durable[p] = tx.pending[p]
    BY DEF DirInv, OneContent
  <2>1. CASE p \in DOMAIN db.pending BY <2>1 DEF DirInv, OneContent, Moved
  <2>2. CASE p \in DOMAIN db.blobs BY <2>2 DEF Moved, StoreInv, BlobsOnDisk
  <2> QED BY <2>1, <2>2 DEF Moved
<1>2. HandNew' BY DEF HandNew
<1>3. Known'
  <2> SUFFICES ASSUME ~storageFault, ~StatMayFail, NEW p \in DOMAIN files
               PROVE  p \in DOMAIN tx.blobs \/ p \in DOMAIN tx.pending \/ p = InHand'
    BY DEF Known
  <2>1. p \in DOMAIN db.blobs \/ p \in DOMAIN db.pending \/ p = InHand BY DEF DirInv, Known
  <2>2. p # 0
    BY ConstantsAssumption DEF StoreInv, TypeOK, TypeDirectory, IsTable, Paths
  <2> QED BY <2>1, <2>2 DEF Moved
<1> QED BY <1>1, <1>2, <1>3 DEF DirInv

LEMMA DrainDir == ASSUME StoreInv, DirInv, Drain PROVE DirInv'
<1>0. /\ pc \in DrainLabels /\ pc' \in DrainLabels /\ UNCHANGED <<mode, sv, storageFault>>
  BY DEF Drain, DrainSelect, DrainUnlink, DrainSync, DrainCommit, DrainFails, DrainLabels, mem, proc
<1>1. InHand = 0 /\ InHand' = 0 /\ (Scanned' => Scanned)
      /\ pc' \notin {"saveWrite", "saveRename"}
  BY <1>0 DEF InHand, Scanned, DrainLabels
<1>2. CASE DrainSelect \/ DrainFails
  <2>1. UNCHANGED <<files, durable, db>> BY <1>2 DEF DrainSelect, DrainFails, disk
  <2> QED BY <1>0, <1>1, <2>1, DirKept
<1>3. CASE DrainUnlink
  <2>1. PICK stuck \in SUBSET (dr.batch \cap DOMAIN files) : files' = Without(files, dr.batch \ stuck)
    BY <1>3 DEF DrainUnlink
  <2>2. DOMAIN files' \subseteq DOMAIN files /\ \A p \in DOMAIN files' : files'[p] = files[p]
    BY <2>1 DEF Without
  <2>3. UNCHANGED <<durable, db>> BY <1>3 DEF DrainUnlink
  <2>4. OneContent' BY <2>2, <2>3 DEF DirInv, OneContent
  <2>5. Known' BY <1>0, <1>1, <2>2, <2>3 DEF DirInv, Known
  <2> QED BY <1>1, <2>4, <2>5 DEF DirInv, HandNew
<1>4. CASE DrainSync
  <2>1. UNCHANGED <<files, db>> /\ durable' = files BY <1>4 DEF DrainSync, SyncDirectory
  <2>2. OneContent' BY <2>1 DEF DirInv, OneContent
  <2>3. Known' BY <1>0, <1>1, <2>1 DEF DirInv, Known
  <2> QED BY <1>1, <2>2, <2>3 DEF DirInv, HandNew
<1>5. CASE DrainCommit
  <2>1. UNCHANGED <<files, durable>> /\ db'.blobs = db.blobs
    BY <1>5, QueueOnly DEF DrainCommit, disk
  <2>2. db'.pending = Without(db.pending, dr.removed)
    BY <1>5 DEF DrainCommit, StoreInv, TypeOK, TypeTables, IsDatabase
  <2>3. DOMAIN db'.pending = DOMAIN db.pending \ dr.removed
        /\ \A p \in DOMAIN db'.pending : db'.pending[p] = db.pending[p]
    BY <2>2 DEF Without
  <2>4. dr.removed \cap DOMAIN files = {} BY <1>5 DEF DrainCommit, StoreInv, Draining
  <2>5. OneContent' BY <2>1, <2>3 DEF DirInv, OneContent
  <2>6. Known' BY <1>0, <1>1, <2>1, <2>3, <2>4 DEF DirInv, Known
  <2> QED BY <1>1, <2>5, <2>6 DEF DirInv, HandNew
<1> QED BY <1>2, <1>3, <1>4, <1>5 DEF Drain

LEMMA CleanupDir == ASSUME StoreInv, TxInv, DirInv, Cleanup PROVE DirInv'
<1>1. CASE CleanupBegin
  BY <1>1, DirKept DEF CleanupBegin, InHand, Scanned, disk, mem, proc
<1>2. CASE CleanupSelect \/ CleanupDelete
  <2>1. pc \in {"free", "cleanDelete"} /\ pc' = "cleanDelete"
    BY <1>2 DEF CleanupSelect, CleanupDelete
  <2>2. UNCHANGED <<files, durable, db, mode, storageFault>>
    BY <1>2 DEF CleanupSelect, CleanupDelete, disk, mem, proc
  <2> QED BY <2>1, <2>2, DirKept DEF InHand, Scanned
<1>3. CASE CleanupCommit
  <2>1. pc = "cleanDelete" /\ pc' = "drainSelect" /\ db' = tx
    BY <1>3 DEF CleanupCommit, CallDrain
  <2>2. UNCHANGED <<files, durable, mode, storageFault>> BY <1>3 DEF CleanupCommit, disk, proc
  <2>3. Moved BY <2>1 DEF TxInv, TxCleans
  <2>4. /\ DOMAIN tx.blobs \cap DOMAIN tx.pending = {}
        /\ DOMAIN db.pending \subseteq DOMAIN tx.pending
    BY <2>1 DEF StoreInv, InTx, IntactDB
  <2>5. InHand = 0 /\ InHand' = 0 BY <2>1 DEF InHand
  <2>6. Scanned BY <2>1 DEF Scanned, StoreInv, Unmigrated
  <2> QED BY <2>1, <2>2, <2>3, <2>4, <2>5, <2>6, DirCommit
<1>4. CASE CleanupTxFails \/ CleanupDrained \/ CleanupDrainFailed
  <2>1. pc \in {"cleanDelete", "drained"} /\ pc' = "free" /\ (mode' # "down" => mode # "down")
    BY <1>4 DEF CleanupTxFails, CleanupDrained, CleanupDrainFailed, CleanupError, Fatal, Halt, Return,
       StoreInv, Unmigrated, proc
  <2>2. UNCHANGED <<files, durable, db>>
    BY <1>4 DEF CleanupTxFails, CleanupDrained, CleanupDrainFailed, CleanupError, Fatal, disk
  <2>3. mode' = "down" \/ storageFault' = storageFault
    BY <1>4 DEF CleanupTxFails, CleanupDrained, CleanupDrainFailed, CleanupError, Fatal, Halt
  <2>4. OneContent' BY <2>2 DEF DirInv, OneContent
  <2>5. HandNew' BY <2>1 DEF HandNew, InHand
  <2>6. Known' BY <2>1, <2>2, <2>3 DEF Known, DirInv, Scanned, InHand
  <2> QED BY <2>4, <2>5, <2>6 DEF DirInv
<1> QED BY <1>1, <1>2, <1>3, <1>4 DEF Cleanup

\* Files that the reconciliation queues, or that Save gives up.
LEMMA DirQueued ==
  ASSUME StoreInv, OneContent, NEW p \in DOMAIN files, p \notin DOMAIN db.pending,
         db' = EnqueueDeletion(db, p, files[p]), UNCHANGED <<files, durable>>
  PROVE  OneContent' /\ DOMAIN db'.pending = DOMAIN db.pending \cup {p} /\ db'.blobs = db.blobs
<1>1. db'.pending = Put(db.pending, p, files[p]) /\ db'.blobs = db.blobs
  BY DEF EnqueueDeletion, StoreInv, TypeOK, TypeTables, IsDatabase
<1>2. DOMAIN db'.pending = DOMAIN db.pending \cup {p} /\ db'.pending[p] = files[p]
      /\ \A q \in DOMAIN db.pending : db'.pending[q] = db.pending[q]
  BY <1>1 DEF Put
<1> QED BY <1>1, <1>2 DEF OneContent

LEMMA OpenDir == ASSUME StoreInv, DirInv, OpenStore PROVE DirInv'
<1>1. CASE Boot \/ Migrate \/ NormalizeStoredRecipients
  <2>1. pc' \in {"migrate", "normalize", "reconcile"} /\ UNCHANGED <<files, durable>>
    BY <1>1 DEF Boot, Migrate, NormalizeStoredRecipients, disk
  <2>2. db'.pending = db.pending
    BY <1>1 DEF Boot, Migrate, NormalizeStoredRecipients, Migrated, StoreInv, TypeOK, TypeTables, IsDatabase
  <2> QED BY <2>1, <2>2 DEF DirInv, OneContent, HandNew, InHand, Known, Scanned
<1>2. CASE ReconcileCheck \/ StartupFails
  <2>1. pc' = "scan" \/ (pc' = "free" /\ mode' = "down")
    BY <1>2 DEF ReconcileCheck, StartupFails, Fatal, Halt
  <2>2. UNCHANGED <<files, durable, db>> BY <1>2 DEF ReconcileCheck, StartupFails, Fatal, disk
  <2> QED BY <2>1, <2>2 DEF DirInv, OneContent, HandNew, InHand, Known, Scanned
<1>3. CASE ReconcileOrphan
  <2>1. PICK p \in Orphans : db' = EnqueueDeletion(db, p, files[p]) BY <1>3 DEF ReconcileOrphan
  <2>2. pc' = "scan" /\ UNCHANGED <<files, durable>> BY <1>3 DEF ReconcileOrphan, disk
  <2>3. OneContent' BY <2>1, <2>2, DirQueued DEF Orphans, DirInv
  <2> QED BY <2>2, <2>3 DEF DirInv, HandNew, InHand, Known, Scanned
<1>4. CASE ReconcileLoad
  <2>1. pc' = "drainSelect" /\ UNCHANGED <<files, durable, db>> /\ Orphans = {}
    BY <1>4 DEF ReconcileLoad, CallDrain, disk
  <2>2. Known' BY <2>1 DEF Known, Orphans
  <2> QED BY <2>1, <2>2 DEF DirInv, OneContent, HandNew, InHand
<1>5. CASE OpenDrained \/ OpenLoad
  <2>1. pc \in {"drained", "openLoad"} /\ pc' \in {"openLoad", "drainSelect", "free"}
    BY <1>5 DEF OpenDrained, OpenLoad, Return, CallDrain
  <2>2. UNCHANGED <<files, durable, db, mode, storageFault>>
    BY <1>5 DEF OpenDrained, OpenLoad, disk, mem, proc
  <2> QED BY <2>1, <2>2, DirKept DEF InHand, Scanned
<1> QED BY <1>1, <1>2, <1>3, <1>4, <1>5 DEF OpenStore

LEMMA PowerDir == ASSUME StoreInv, DirInv, PowerLoss PROVE DirInv'
<1>1. durable' = files' /\ UNCHANGED db /\ pc' = "free" /\ mode' = "down"
  BY DEF PowerLoss, Halt
<1>2. \A p \in DOMAIN files' : \/ p \in DOMAIN files /\ files'[p] = files[p]
                               \/ p \in DOMAIN durable /\ files'[p] = durable[p]
  BY DEF PowerLoss
<1>3. OneContent' BY <1>1, <1>2 DEF DirInv, OneContent
<1> QED BY <1>1, <1>3 DEF DirInv, HandNew, InHand, Known, Scanned

\* The file that Save stages is its own until it is committed, queued or gone.
LEMMA SaveDir == ASSUME StoreInv, TxInv, DirInv, Save PROVE DirInv'
<1>0. /\ \A p \in Paths : p # 0
      /\ \A t \in TmpPaths : t \in Paths /\ t \notin BlobPaths
      /\ DOMAIN files \subseteq Paths
  BY ConstantsAssumption DEF Paths, StoreInv, TypeOK, TypeDirectory, IsTable
<1>1. CASE SaveBegin \/ SaveDrained \/ SaveRefused \/ SavePostDrained \/ SaveReturn \/ DiscardLoad
           \/ DiscardLoadFails
  <2>1. /\ pc \in {"free", "drained", "saveAdmit", "saveReturn", "discardLoad"}
        /\ pc' \in {"free", "drainSelect", "saveAdmit", "saveReturn"}
    BY <1>1 DEF SaveBegin, SaveDrained, SaveRefused, SavePostDrained, SaveReturn, DiscardLoad,
       DiscardLoadFails, CallDrain, Return
  <2>2. UNCHANGED <<files, durable, db, mode>>
    BY <1>1 DEF SaveBegin, SaveDrained, SaveRefused, SavePostDrained, SaveReturn, DiscardLoad,
       DiscardLoadFails, disk, proc
  <2>3. ~storageFault' => ~storageFault
    BY <1>1 DEF SaveBegin, SaveDrained, SaveRefused, SavePostDrained, SaveReturn, DiscardLoad,
       DiscardLoadFails, mem
  <2> QED BY <2>1, <2>2, <2>3, DirKept DEF InHand, Scanned
<1>2. CASE SaveAdmit
  <2>1. PICK b \in BlobPaths, t \in TmpPaths :
          /\ Fresh(b) /\ Fresh(t) /\ files' = Put(files, t, 0)
          /\ sv' = [sv EXCEPT !.blob = b, !.tmp = t, !.received = now]
    BY <1>2 DEF SaveAdmit
  <2>2. sv'.blob = b /\ sv'.tmp = t BY <2>1 DEF StoreInv, TypeOK, IsSave
  <2>3. pc = "saveAdmit" /\ pc' = "saveWrite" /\ UNCHANGED <<durable, db, storageFault, mode>>
    BY <1>2 DEF SaveAdmit, mem, proc
  <2>4. InHand' = t BY <2>2, <2>3 DEF InHand
  <2>5. InHand = 0 BY <2>3 DEF InHand
  <2>6. DOMAIN files' = DOMAIN files \cup {t} /\ \A p \in DOMAIN files : p # t => files'[p] = files[p]
    BY <2>1 DEF Put
  <2>7. OneContent' BY <2>1, <2>3, <2>6 DEF OneContent, DirInv, Fresh
  <2>8. b # t BY <1>0
  <2>9. HandNew' BY <2>1, <2>2, <2>3, <2>4, <2>6, <2>8 DEF HandNew, Fresh
  <2>10. Scanned' => Scanned BY <2>3 DEF Scanned
  <2>11. Known' BY <1>0, <2>3, <2>4, <2>5, <2>6, <2>10 DEF Known, DirInv
  <2> QED BY <2>7, <2>9, <2>11 DEF DirInv
<1>3. CASE SaveWrite \/ SaveWriteFails \/ SaveRenameFails
  <2>1. pc \in {"saveWrite", "saveRename"} /\ pc' \in {"saveRename", "saveRemoveTmp"}
        /\ UNCHANGED <<durable, db, storageFault, mode>>
    BY <1>3 DEF SaveWrite, SaveWriteFails, SaveRenameFails, mem, proc, disk
  <2>2. sv'.tmp = sv.tmp /\ sv'.blob = sv.blob
    BY <1>3 DEF SaveWrite, SaveWriteFails, SaveRenameFails, StoreInv, TypeOK, IsSave
  <2>3. DOMAIN files' = DOMAIN files /\ \A p \in DOMAIN files : p # sv.tmp => files'[p] = files[p]
    BY <1>3 DEF SaveWrite, SaveWriteFails, SaveRenameFails, disk, StoreInv, TypeOK, TypeDirectory, IsTable
  <2>4. InHand = sv.tmp /\ InHand' = sv.tmp BY <2>1, <2>2 DEF InHand
  <2>5. sv.tmp # 0 BY <1>0, <2>1 DEF StoreInv, Staged
  <2>6. sv.tmp \notin DOMAIN db.pending BY <2>4, <2>5 DEF DirInv, HandNew
  <2>7. OneContent' BY <2>1, <2>3, <2>6 DEF DirInv, OneContent, HandNew
  <2>8. HandNew'
    <3>1. InHand' \notin DOMAIN db'.pending BY <2>1, <2>4, <2>6
    <3> QED BY <2>1, <2>2, <2>3, <3>1 DEF DirInv, HandNew
  <2>9. Scanned' => Scanned BY <2>1 DEF Scanned
  <2>10. Known' BY <2>1, <2>3, <2>4, <2>9 DEF Known, DirInv
  <2> QED BY <2>7, <2>8, <2>10 DEF DirInv
<1>4. CASE SaveRename
  <2>1. pc = "saveRename" /\ pc' = "saveSync" /\ UNCHANGED <<durable, db, storageFault, mode, sv>>
        /\ files' = Put(Without(files, {sv.tmp}), sv.blob, files[sv.tmp])
    BY <1>4 DEF SaveRename, mem, proc
  <2>2. InHand = sv.tmp /\ InHand' = sv.blob BY <2>1 DEF InHand
  <2>3. DOMAIN files' = (DOMAIN files \ {sv.tmp}) \cup {sv.blob}
        /\ \A p \in DOMAIN files' : p # sv.blob => files'[p] = files[p]
    BY <2>1 DEF Put, Without
  <2>4. sv.blob \notin DOMAIN db.pending /\ sv.blob \notin DOMAIN durable
    BY <2>1 DEF StoreInv, Staged, DirInv, HandNew
  <2>5. OneContent' BY <2>1, <2>3, <2>4 DEF DirInv, OneContent
  <2>6. HandNew' BY <2>1, <2>2, <2>4 DEF HandNew
  <2>7. Scanned' => Scanned BY <2>1 DEF Scanned
  <2>8. Known' BY <2>1, <2>2, <2>3, <2>7 DEF Known, DirInv
  <2> QED BY <2>5, <2>6, <2>8 DEF DirInv
<1>5. CASE SaveSync \/ SaveInsert \/ SaveEvict \/ SaveTxFails
  <2>1. pc \in {"saveSync", "saveInsert", "saveEvict"} /\ pc' \in {"saveInsert", "saveEvict", "discard"}
        /\ UNCHANGED <<files, db, storageFault, mode>> /\ durable' \in {durable, files}
    BY <1>5 DEF SaveSync, SaveInsert, SaveEvict, SaveTxFails, RollBack, SyncDirectory, mem, proc, disk
  <2>2. sv'.blob = sv.blob /\ (pc' = "discard" => sv'.drop = sv.blob)
    BY <1>5 DEF SaveSync, SaveInsert, SaveEvict, SaveTxFails, StoreInv, TypeOK, IsSave
  <2>3. InHand = sv.blob /\ InHand' = sv.blob BY <2>1, <2>2 DEF InHand
  <2>4. OneContent' BY <2>1 DEF DirInv, OneContent
  <2>5. sv.blob \notin DOMAIN db.pending BY <2>1 DEF StoreInv, Staged
  <2>6. HandNew' BY <2>1, <2>3, <2>5 DEF HandNew
  <2>7. Scanned' => Scanned BY <2>1 DEF Scanned
  <2>8. Known' BY <2>1, <2>3, <2>7 DEF Known, DirInv
  <2> QED BY <2>4, <2>6, <2>8 DEF DirInv
<1>6. CASE SaveCommit
  <2>1. pc = "saveEvict" /\ pc' = "drainSelect" /\ db' = tx BY <1>6 DEF SaveCommit, CallDrain
  <2>2. UNCHANGED <<files, durable, mode, storageFault>> BY <1>6 DEF SaveCommit, disk, proc
  <2>3. Moved /\ sv.blob \in DOMAIN tx.blobs BY <2>1 DEF TxInv, TxEvicts
  <2>4. /\ DOMAIN tx.blobs \cap DOMAIN tx.pending = {}
        /\ DOMAIN db.pending \subseteq DOMAIN tx.pending
    BY <2>1 DEF StoreInv, InTx, IntactDB
  <2>5. InHand = sv.blob /\ InHand' = 0 BY <2>1 DEF InHand
  <2>6. Scanned BY <2>1 DEF Scanned, StoreInv, Unmigrated
  <2> QED BY <2>1, <2>2, <2>3, <2>4, <2>5, <2>6, DirCommit
<1>7. CASE SaveRemoveTmp
  <2>1. pc = "saveRemoveTmp" /\ pc' = "saveReturn" /\ UNCHANGED <<durable, db, storageFault, mode>>
        /\ files' = Without(files, {sv.tmp})
    BY <1>7 DEF SaveRemoveTmp, mem, proc
  <2>2. InHand = sv.tmp /\ InHand' = 0 BY <2>1 DEF InHand
  <2>3. DOMAIN files' = DOMAIN files \ {sv.tmp} /\ \A p \in DOMAIN files' : files'[p] = files[p]
    BY <2>1 DEF Without
  <2>4. OneContent' BY <2>1, <2>3 DEF DirInv, OneContent
  <2>5. HandNew' BY <2>1, <2>2 DEF HandNew
  <2>6. Scanned' => Scanned BY <2>1 DEF Scanned
  <2>7. Known' BY <2>1, <2>2, <2>3, <2>6 DEF Known, DirInv
  <2> QED BY <2>4, <2>5, <2>7 DEF DirInv
<1>8. CASE SaveRemoveTmpFails
  <2>1. pc = "saveRemoveTmp" /\ UNCHANGED <<files, durable, db, storageFault, mode>>
        /\ (pc' = "discard" \/ (pc' = "saveReturn" /\ StatMayFail))
    BY <1>8 DEF SaveRemoveTmpFails, mem, proc, disk
  <2>2. pc' = "discard" => sv'.drop = sv.tmp
    BY <1>8 DEF SaveRemoveTmpFails, StoreInv, TypeOK, IsSave
  <2>3. CASE pc' = "discard"
    <3>1. InHand = sv.tmp /\ InHand' = sv.tmp BY <2>1, <2>2, <2>3 DEF InHand
    <3>2. Scanned' => Scanned BY <2>1 DEF Scanned
    <3> QED BY <2>1, <2>3, <3>1, <3>2, DirKept
  <2>4. CASE pc' = "saveReturn" /\ StatMayFail
    <3>1. OneContent' BY <2>1 DEF DirInv, OneContent
    <3>2. HandNew' BY <2>4 DEF HandNew, InHand
    <3>3. Known' BY <2>4 DEF Known
    <3> QED BY <3>1, <3>2, <3>3 DEF DirInv
  <2> QED BY <2>1, <2>3, <2>4
<1>9. CASE Discard
  <2>1. pc = "discard" /\ pc' = "discardLoad" /\ UNCHANGED <<files, durable, storageFault, mode>>
        /\ db' = EnqueueDeletion(db, sv.drop, files[sv.drop])
    BY <1>9 DEF Discard, mem, proc, disk
  <2>2. InHand = sv.drop /\ InHand' = 0 BY <2>1 DEF InHand
  <2>3. sv.drop \in DOMAIN files /\ sv.drop # 0 BY <1>0, <2>1 DEF StoreInv, Staged
  <2>4. sv.drop \notin DOMAIN db.pending BY <2>2, <2>3 DEF DirInv, HandNew
  <2>5. OneContent' /\ DOMAIN db'.pending = DOMAIN db.pending \cup {sv.drop} /\ db'.blobs = db.blobs
    BY <2>1, <2>3, <2>4, DirQueued DEF DirInv
  <2>6. HandNew' BY <2>1, <2>2 DEF HandNew
  <2>7. Scanned' => Scanned BY <2>1 DEF Scanned
  <2>8. Known' BY <2>1, <2>2, <2>5, <2>7 DEF Known, DirInv
  <2> QED BY <2>5, <2>6, <2>8 DEF DirInv
<1>10. CASE DiscardFails
  <2>1. pc = "discard" /\ pc' = "saveReturn" /\ UNCHANGED <<db, mode>> /\ durable' \in {durable, files'}
    BY <1>10 DEF DiscardFails, proc
  <2>2. \/ files' = Without(files, {sv.drop}) /\ storageFault' = storageFault
        \/ files' = files /\ storageFault'
    BY <1>10 DEF DiscardFails
  <2>3. InHand = sv.drop /\ InHand' = 0 BY <2>1 DEF InHand
  <2>4. DOMAIN files' \subseteq DOMAIN files /\ \A p \in DOMAIN files' : files'[p] = files[p]
    BY <2>2 DEF Without
  <2>5. OneContent' BY <2>1, <2>4 DEF DirInv, OneContent
  <2>6. HandNew' BY <2>1, <2>3 DEF HandNew
  <2>7. Scanned' => Scanned BY <2>1 DEF Scanned
  <2>8. Known'
    <3>1. CASE storageFault' BY <3>1 DEF Known
    <3>2. CASE files' = Without(files, {sv.drop}) /\ storageFault' = storageFault
      <4>1. DOMAIN files' = DOMAIN files \ {sv.drop} BY <3>2 DEF Without
      <4> QED BY <2>1, <2>3, <2>7, <3>2, <4>1 DEF Known, DirInv
    <3> QED BY <2>2, <3>1, <3>2
  <2> QED BY <2>5, <2>6, <2>8 DEF DirInv
<1> QED BY <1>1, <1>2, <1>3, <1>4, <1>5, <1>6, <1>7, <1>8, <1>9, <1>10 DEF Save

LEMMA DirStep == ASSUME StoreInv, TxInv, DirInv, [Next]_vars PROVE DirInv'
<1>1. CASE Get \/ Tick \/ ClockBack \/ UNCHANGED vars
  <2>1. UNCHANGED <<files, durable, db, storageFault, mode, pc, sv>>
    BY <1>1 DEF Get, RenderInbox, SelectBody, ReadRow, ReadFile, ReadError, Tick, ClockBack, vars,
       disk, mem, proc
  <2> QED BY <2>1, DirKept DEF InHand, Scanned
<1>2. CASE Stop
  <2>1. UNCHANGED <<files, durable, db>> /\ pc' = "free" /\ mode' = "down"
    BY <1>2 DEF Stop, Halt, disk
  <2> QED BY <2>1 DEF DirInv, OneContent, HandNew, InHand, Known, Scanned
<1> QED BY <1>1, <1>2, DrainDir, SaveDir, CleanupDir, OpenDir, PowerDir DEF Next

LEMMA DirInit == ASSUME Init PROVE DirInv
<1>1. DOMAIN db.pending = {} BY DEF Init, EmptyDB, LegacyDB, Empty
<1>2. pc = "free" /\ mode = "down" /\ durable = files BY DEF Init
<1> QED BY <1>1, <1>2 DEF DirInv, OneContent, HandNew, InHand, Known, Scanned

\* As long as a staging file that resists removal can at least be measured,
\* no file escapes the cap: a file in the directory of a store without a
\* recorded fault is a blob or queued for deletion, with its size.
THEOREM Charging == ASSUME ~StatMayFail PROVE Spec => []NoUnchargedFile
<1>1. StoreInv /\ DirInv => NoUnchargedFile
  <2> SUFFICES ASSUME StoreInv, DirInv, mode = "serving", pc = "free", ~storageFault,
                      NEW p \in DOMAIN files
               PROVE  \/ p \in DOMAIN db.blobs /\ files[p] <= db.blobs[p]
                      \/ p \in DOMAIN db.pending /\ files[p] <= db.pending[p]
    BY DEF NoUnchargedFile
  <2>1. files[p] \in Nat /\ p # 0
    BY ConstantsAssumption DEF StoreInv, TypeOK, TypeDirectory, IsTable, Paths
  <2>2. InHand = 0 /\ Scanned BY DEF InHand, Scanned
  <2>3. p \in DOMAIN db.blobs \/ p \in DOMAIN db.pending BY <2>1, <2>2 DEF DirInv, Known
  <2> QED BY <2>1, <2>3 DEF StoreInv, BlobsOnDisk, DirInv, OneContent
<1> QED BY <1>1, DirInit, DirStep, Invariance, Transactions, PTL DEF Spec

-----------------------------------------------------------------------------
(* The totals.  Bytes counts the cells of a table, so that what a sum does   *)
(* under an update follows from the sizes of disjoint sets.                 *)

Cells(f) == UNION {{x} \X (1 .. f[x]) : x \in DOMAIN f}

LEMMA CellsOf ==
  ASSUME NEW D, NEW f, IsTable(f, D, Nat)
  PROVE  /\ IsFiniteSet(Cells(f)) /\ Bytes(f) = Cardinality(Cells(f)) /\ Bytes(f) \in Nat
         /\ \A c : c \in Cells(f) <=> \E x \in DOMAIN f : \E k \in 1 .. f[x] : c = <<x, k>>
<1> DEFINE U == {{x} \X (1 .. f[x]) : x \in DOMAIN f}
           g == [x \in DOMAIN f |-> {x} \X (1 .. f[x])]
<1>1. IsFiniteSet(DOMAIN f) /\ \A x \in DOMAIN f : f[x] \in Nat
  BY DEF IsTable
<1>2. IsFiniteSet(U)
  <2>1. g \in Surjection(DOMAIN f, U)
    BY DEF Surjection
  <2> QED BY <1>1, <2>1, FS_Surjection
<1>3. \A x \in DOMAIN f : IsFiniteSet({x} \X (1 .. f[x]))
  <2> TAKE x \in DOMAIN f
  <2>1. IsFiniteSet({x}) BY FS_Singleton
  <2>2. IsFiniteSet(1 .. f[x]) BY <1>1, FS_Interval
  <2> QED BY <2>1, <2>2, FS_Product
<1>4. IsFiniteSet(UNION U)
  BY <1>2, <1>3, FS_UNION
<1>5. Cells(f) = UNION U BY DEF Cells
<1>6. \A c : c \in Cells(f) <=> \E x \in DOMAIN f : \E k \in 1 .. f[x] : c = <<x, k>>
  <2> TAKE c
  <2>1. c \in Cells(f) <=> \E x \in DOMAIN f : c \in {x} \X (1 .. f[x]) BY DEF Cells
  <2>2. \A x \in DOMAIN f : c \in {x} \X (1 .. f[x]) <=> \E k \in 1 .. f[x] : c = <<x, k>> OBVIOUS
  <2> QED BY <2>1, <2>2
<1> QED BY <1>4, <1>5, <1>6, FS_CardinalityType DEF Bytes, Cells

\* A part of a table, or a table with smaller entries, has fewer bytes.
LEMMA BytesMono ==
  ASSUME NEW D, NEW f, IsTable(f, D, Nat), NEW E, NEW g, IsTable(g, E, Nat),
         \A x \in DOMAIN f : x \in DOMAIN g /\ f[x] <= g[x]
  PROVE  Bytes(f) <= Bytes(g)
<1>1. \A c : c \in Cells(f) <=> \E x \in DOMAIN f : \E k \in 1 .. f[x] : c = <<x, k>> BY CellsOf
<1>2. \A c : c \in Cells(g) <=> \E x \in DOMAIN g : \E k \in 1 .. g[x] : c = <<x, k>> BY CellsOf
<1>3. \A x \in DOMAIN f : f[x] \in Nat /\ g[x] \in Nat /\ (1 .. f[x]) \subseteq (1 .. g[x])
  BY DEF IsTable
<1>4. Cells(f) \subseteq Cells(g) BY <1>1, <1>2, <1>3
<1> QED BY <1>4, CellsOf, FS_Subset

\* A table is the sum of two parts.
LEMMA BytesSplit ==
  ASSUME NEW D, NEW f, IsTable(f, D, Nat), NEW S
  PROVE  /\ IsTable(Only(f, S), D, Nat) /\ IsTable(Without(f, S), D, Nat)
         /\ Bytes(f) = Bytes(Only(f, S)) + Bytes(Without(f, S))
<1> DEFINE o == Only(f, S)
           w == Without(f, S)
<1>1. DOMAIN o = DOMAIN f \cap S /\ \A x \in DOMAIN o : o[x] = f[x] BY DEF Only
<1>2. DOMAIN w = DOMAIN f \ S /\ \A x \in DOMAIN w : w[x] = f[x] BY DEF Without
<1>3. IsTable(w, D, Nat) BY WithoutTable
<1>4. IsTable(o, D, Nat)
  <2>1. IsFiniteSet(DOMAIN f \cap S) BY FS_Subset DEF IsTable
  <2> QED BY <2>1 DEF IsTable, Only
<1> HIDE DEF o, w
<1>5. \A c : c \in Cells(f) <=> \E x \in DOMAIN f : \E k \in 1 .. f[x] : c = <<x, k>> BY CellsOf
<1>6. \A c : c \in Cells(o) <=> \E x \in DOMAIN o : \E k \in 1 .. o[x] : c = <<x, k>> BY <1>4, CellsOf
<1>7. \A c : c \in Cells(w) <=> \E x \in DOMAIN w : \E k \in 1 .. w[x] : c = <<x, k>> BY <1>3, CellsOf
<1>8. Cells(f) = Cells(o) \cup Cells(w) BY <1>1, <1>2, <1>5, <1>6, <1>7
<1>9. Cells(o) \cap Cells(w) = {} BY <1>1, <1>2, <1>6, <1>7
<1>10. IsFiniteSet(Cells(o)) /\ IsFiniteSet(Cells(w)) BY <1>3, <1>4, CellsOf
<1>11. Cardinality(Cells(f)) = Cardinality(Cells(o)) + Cardinality(Cells(w)) - Cardinality({})
  BY <1>8, <1>9, <1>10, FS_Union
<1>12. Bytes(f) = Cardinality(Cells(f)) /\ Bytes(o) = Cardinality(Cells(o)) /\ Bytes(o) \in Nat
       /\ Bytes(w) = Cardinality(Cells(w)) /\ Bytes(w) \in Nat
  BY <1>3, <1>4, CellsOf
<1>13. Bytes(f) = Bytes(o) + Bytes(w)
  <2>1. Cardinality({}) = 0 BY FS_EmptySet
  <2> QED BY <1>11, <1>12, <2>1
<1> QED BY <1>3, <1>4, <1>13 DEF o, w

LEMMA BytesEmpty == ASSUME NEW f, DOMAIN f = {} PROVE Bytes(f) = 0
<1>1. UNION {{x} \X (1 .. f[x]) : x \in DOMAIN f} = {} OBVIOUS
<1> QED BY <1>1, FS_EmptySet DEF Bytes

\* A table with one entry.
LEMMA BytesOne ==
  ASSUME NEW f, NEW x, DOMAIN f = {x}, f[x] \in Nat
  PROVE  Bytes(f) = f[x]
<1>1. UNION {{y} \X (1 .. f[y]) : y \in DOMAIN f} = {x} \X (1 .. f[x]) OBVIOUS
<1>2. IsFiniteSet({x}) /\ Cardinality({x}) = 1 BY FS_Singleton
<1>3. IsFiniteSet(1 .. f[x]) /\ Cardinality(1 .. f[x]) = f[x]
  <2> DEFINE n == f[x]
  <2>1. 1 \in Int /\ n \in Int /\ (1 > n => n = 0) /\ n - 1 + 1 = n OBVIOUS
  <2> HIDE DEF n
  <2>2. IsFiniteSet(1 .. n) /\ Cardinality(1 .. n) = n BY ONLY <2>1, FS_Interval
  <2> QED BY <2>2 DEF n
<1>4. Cardinality({x} \X (1 .. f[x])) = 1 * f[x] BY <1>2, <1>3, FS_Product, ZenonT(60)
<1>5. 1 * f[x] = f[x] OBVIOUS
<1>6. Bytes(f) = Cardinality({x} \X (1 .. f[x])) BY <1>1 DEF Bytes
<1> QED BY <1>4, <1>5, <1>6

\* A row removed, and a row added.
LEMMA BytesWithout ==
  ASSUME NEW D, NEW f, IsTable(f, D, Nat), NEW x \in DOMAIN f
  PROVE  Bytes(Without(f, {x})) = Bytes(f) - f[x]
<1>1. f[x] \in Nat BY DEF IsTable
<1>2. DOMAIN Only(f, {x}) = {x} /\ Only(f, {x})[x] = f[x] BY DEF Only
<1>3. Bytes(Only(f, {x})) = f[x] BY <1>1, <1>2, BytesOne
<1>4. /\ IsTable(Without(f, {x}), D, Nat)
      /\ Bytes(f) = Bytes(Only(f, {x})) + Bytes(Without(f, {x}))
  BY BytesSplit
<1>5. Bytes(Without(f, {x})) \in Nat BY <1>4, BytesType
<1> QED BY <1>1, <1>3, <1>4, <1>5

LEMMA BytesPut ==
  ASSUME NEW D, NEW f, IsTable(f, D, Nat), NEW x \in D, x \notin DOMAIN f, NEW v \in Nat
  PROVE  Bytes(Put(f, x, v)) = Bytes(f) + v
<1> DEFINE g == Put(f, x, v)
<1>1. IsTable(g, D, Nat) BY PutTable
<1>2. x \in DOMAIN g /\ g[x] = v BY DEF Put
<1>3. Without(g, {x}) = f
  <2>1. DOMAIN g \ {x} = DOMAIN f /\ \A y \in DOMAIN f : g[y] = f[y] BY DEF Put
  <2>2. f = [y \in DOMAIN f |-> f[y]] BY DEF IsTable
  <2> HIDE DEF g
  <2> QED BY <2>1, <2>2 DEF Without
<1> HIDE DEF g
<1>4. Bytes(f) = Bytes(g) - v BY <1>1, <1>2, <1>3, BytesWithout
<1>5. Bytes(f) \in Nat /\ Bytes(g) \in Nat BY <1>1, BytesType
<1>6. Bytes(g) = Bytes(f) + v BY <1>4, <1>5
<1> QED BY <1>6 DEF g

-----------------------------------------------------------------------------

\* What Save holds before its commit: no fault, a size within the limits, and
\* room for it beside the files awaiting deletion.
Waiting == pc = "saveAdmit" \/ Calls("savePre")
Admitted ==
  /\ Waiting \/ Staging => ~storageFault /\ sv.size <= MaxMessageBytes
  /\ Waiting \/ (Staging /\ pc # "saveEvict") => sv.deleted = 0
  /\ Staging => Bytes(db.pending) + sv.size <= MaxStorageBytes

\* The running totals, except between the queueing of a discarded file and
\* the reload.
Exact ==
  Scanned /\ ~storageFault =>
    /\ pc # "discardLoad" => storedBytes = Charged(db)
    /\ storedMessages = Cardinality(DOMAIN db.messages)

\* What the open transaction adds to them.
TxTotals ==
  /\ pc = "saveEvict" =>
       /\ Charged(tx) = Charged(db) + sv.size
       /\ sv.projected = Bytes(tx.blobs) + Bytes(db.pending)
       /\ Cardinality(DOMAIN tx.messages) =
            Cardinality(DOMAIN db.messages) + Cardinality(DOMAIN sv.rank) - sv.deleted
  /\ pc = "cleanDelete" =>
       /\ Charged(tx) = Charged(db)
       /\ Cardinality(DOMAIN tx.messages) = Cardinality(DOMAIN db.messages) - cl.count

BlobsFit == DOMAIN LegacyMail = {} => Bytes(db.blobs) <= MaxStorageBytes

\* An upload starts with the directory within the cap.
DiskFits ==
  DOMAIN LegacyMail = {} /\ ~PowerMayFail /\ ~StatMayFail =>
    /\ Bytes(files) <= MaxStorageBytes + MaxMessageBytes
    /\ pc = "saveWrite" => Bytes(files) <= MaxStorageBytes /\ files[sv.tmp] = 0

UsageInv == Admitted /\ Exact /\ TxTotals /\ BlobsFit /\ DiskFits

-----------------------------------------------------------------------------
\* deleteMessageTx moves bytes between the tables, and reports what it frees.
LEMMA DeleteTotals ==
  ASSUME NEW d, IsDatabase(d), IntactDB(d), NEW i \in DOMAIN d.messages,
         NEW e, e = DeleteMessageTx(d, i)
  PROVE  /\ Charged(e) = Charged(d)
         /\ Bytes(e.blobs) = Bytes(d.blobs) - Released(d, i)
         /\ Cardinality(DOMAIN e.messages) = Cardinality(DOMAIN d.messages) - 1
<1> DEFINE b == d.messages[i].blob
           M == Without(d.messages, {i})
<1>1. b \in DOMAIN d.blobs /\ b \notin DOMAIN d.pending BY DEF IntactDB
<1>2. /\ IsTable(d.blobs, BlobPaths, Nat) /\ IsTable(d.pending, Paths, Nat)
      /\ d.blobs[b] \in Nat /\ b \in Paths
      /\ IsFiniteSet(DOMAIN d.messages)
  BY <1>1 DEF IsDatabase, IsTable, Paths
<1>3. Bytes(d.blobs) \in Nat /\ Bytes(d.pending) \in Nat BY <1>2, BytesType
<1>4. Cardinality(DOMAIN M) = Cardinality(DOMAIN d.messages) - 1
  <2>1. DOMAIN M = DOMAIN d.messages \ {i} BY DEF Without
  <2> QED BY <1>2, <2>1, FS_RemoveElement
<1>5. CASE d.refs[b] <= 1
  <2> DEFINE B == Without(d.blobs, {b})
             N == Without(d.refs, {b})
             P == Put(d.pending, b, d.blobs[b])
  <2>1. e = [d EXCEPT !.messages = M, !.blobs = B, !.refs = N, !.pending = P]
    BY <1>5 DEF DeleteMessageTx
  <2>2. Bytes(B) = Bytes(d.blobs) - d.blobs[b] BY <1>1, <1>2, BytesWithout
  <2>3. Bytes(P) = Bytes(d.pending) + d.blobs[b] BY <1>1, <1>2, BytesPut
  <2>4. Released(d, i) = d.blobs[b] BY <1>5 DEF Released
  <2> HIDE DEF M, B, N, P, b
  <2>5. e.messages = M /\ e.blobs = B /\ e.pending = P BY <2>1 DEF IsDatabase
  <2> QED BY <1>2, <1>3, <1>4, <2>2, <2>3, <2>4, <2>5 DEF Charged
<1>6. CASE ~(d.refs[b] <= 1)
  <2> DEFINE N == [d.refs EXCEPT ![b] = d.refs[b] - 1]
  <2>1. e = [d EXCEPT !.messages = M, !.refs = N] BY <1>6 DEF DeleteMessageTx
  <2>2. Released(d, i) = 0 BY <1>6 DEF Released
  <2> HIDE DEF M, N
  <2>3. e.messages = M /\ e.blobs = d.blobs /\ e.pending = d.pending BY <2>1 DEF IsDatabase
  <2> QED BY <1>3, <1>4, <2>2, <2>3 DEF Charged
<1> QED BY <1>5, <1>6

\* Save's insertions charge the message once and count every recipient.
LEMMA InsertTotals ==
  ASSUME StoreInv, StoreInv', TxEvicts', pc = "saveInsert", pc' = "saveEvict",
         sv'.blob = sv.blob, sv'.rank = sv.rank, db' = db, NEW base \in Nat,
         tx' = [db EXCEPT !.messages = Merge(@, NewRows(base)),
                          !.blobs = Put(@, sv.blob, sv.size),
                          !.refs = Put(@, sv.blob, Cardinality(DOMAIN sv.rank))]
  PROVE  /\ Bytes(tx'.blobs) = Bytes(db.blobs) + sv.size /\ tx'.pending = db.pending
         /\ Cardinality(DOMAIN tx'.messages) =
              Cardinality(DOMAIN db.messages) + Cardinality(DOMAIN sv.rank)
<1>1. /\ DOMAIN tx'.messages = DOMAIN db.messages \cup {<<sv.blob, a>> : a \in DOMAIN sv.rank}
      /\ \A i \in DOMAIN db.messages : i[1] # sv.blob
      /\ tx'.blobs = Put(db.blobs, sv.blob, sv.size) /\ tx'.pending = db.pending
  BY InsertRows
<1>2. IsTable(db.blobs, BlobPaths, Nat) /\ sv.blob \in BlobPaths /\ sv.blob \notin DOMAIN db.blobs
      /\ sv.size \in Nat /\ IsFiniteSet(DOMAIN db.messages)
  BY DEF StoreInv, TypeOK, TypeTables, IsDatabase, IsTable, IsSave, Staged
<1>3. Bytes(tx'.blobs) = Bytes(db.blobs) + sv.size BY <1>1, <1>2, BytesPut
<1> DEFINE N == {<<sv.blob, a>> : a \in DOMAIN sv.rank}
<1>4. Cardinality(N) = Cardinality(DOMAIN sv.rank)
  <2>1. N = Referrers(tx', sv.blob) BY DEF TxEvicts, Delivered
  <2>2. sv.blob \in DOMAIN tx'.blobs BY <1>1 DEF Put
  <2>3. tx'.refs[sv.blob] = Cardinality(N) BY <2>1, <2>2, ZenonT(60) DEF StoreInv, InTx, IntactDB
  <2>4. tx'.refs = Put(db.refs, sv.blob, Cardinality(DOMAIN sv.rank))
    BY DEF StoreInv, TypeOK, TypeTables, IsDatabase
  <2>5. tx'.refs[sv.blob] = Cardinality(DOMAIN sv.rank) BY <2>4 DEF Put
  <2> QED BY <2>3, <2>5
<1>5. IsFiniteSet(DOMAIN tx'.messages) BY DEF StoreInv, TypeOK, TypeTables, IsDatabase, IsTable
<1>6. IsFiniteSet(N)
  <2>1. N \in SUBSET DOMAIN tx'.messages BY <1>1
  <2> QED BY <1>5, <2>1, FS_Subset
<1>7. DOMAIN db.messages \cap N = {} BY <1>1
<1>8. Cardinality(DOMAIN tx'.messages) = Cardinality(DOMAIN db.messages) + Cardinality(N) - Cardinality({})
  <2>1. DOMAIN tx'.messages = DOMAIN db.messages \cup N BY <1>1
  <2> HIDE DEF N
  <2> QED BY <1>2, <1>6, <1>7, <2>1, FS_Union
<1>9. Cardinality({}) = 0 /\ Cardinality(DOMAIN db.messages) \in Nat /\ Cardinality(N) \in Nat
  BY <1>2, <1>6, FS_EmptySet, FS_CardinalityType
<1> HIDE DEF N
<1> QED BY <1>1, <1>3, <1>4, <1>8, <1>9

\* Sizes are numbers.
LEMMA UsageNumbers ==
  ASSUME StoreInv
  PROVE  /\ Bytes(db.blobs) \in Nat /\ Bytes(db.pending) \in Nat
         /\ Bytes(tx.blobs) \in Nat /\ Bytes(tx.pending) \in Nat /\ Bytes(files) \in Nat
         /\ Cardinality(DOMAIN db.messages) \in Nat /\ Cardinality(DOMAIN tx.messages) \in Nat
         /\ Cardinality(DOMAIN sv.rank) \in Nat
         /\ sv.size \in Nat /\ sv.deleted \in Nat /\ sv.projected \in Int /\ cl.count \in Nat
         /\ storedBytes \in Int /\ storedMessages \in Int
<1>1. IsDatabase(db) /\ IsDatabase(tx) /\ IsTable(files, Paths, Nat) /\ IsTable(sv.rank, Address, Nat)
  BY DEF StoreInv, TypeOK, TypeTables, TypeDirectory, IsSave
<1>2. /\ Bytes(db.blobs) \in Nat /\ Bytes(db.pending) \in Nat
      /\ Bytes(tx.blobs) \in Nat /\ Bytes(tx.pending) \in Nat /\ Bytes(files) \in Nat
  BY <1>1, BytesType DEF IsDatabase
<1>3. /\ Cardinality(DOMAIN db.messages) \in Nat /\ Cardinality(DOMAIN tx.messages) \in Nat
      /\ Cardinality(DOMAIN sv.rank) \in Nat
  BY <1>1, FS_CardinalityType DEF IsDatabase, IsTable
<1> QED BY <1>2, <1>3 DEF StoreInv, TypeOK, IsSave, TypeControl, TypeMemory

LEMMA TxTotalsStep ==
  ASSUME StoreInv, StoreInv', TxInv, TxInv', Admitted, Exact, TxTotals, [Next]_vars
  PROVE  TxTotals'
<1>1. ASSUME Next, pc' = "saveEvict"
      PROVE  /\ Charged(tx)' = Charged(db)' + sv'.size
             /\ sv'.projected = Bytes(tx'.blobs) + Bytes(db'.pending)
             /\ Cardinality(DOMAIN tx'.messages) =
                  Cardinality(DOMAIN db'.messages) + Cardinality(DOMAIN sv'.rank) - sv'.deleted
  <2>1. CASE SaveInsert
    <3>1. PICK base \in {0} \cup {db.messages[i].rowid : i \in DOMAIN db.messages} :
            tx' = [db EXCEPT !.messages = Merge(@, NewRows(base)),
                             !.blobs = Put(@, sv.blob, sv.size),
                             !.refs = Put(@, sv.blob, Cardinality(DOMAIN sv.rank))]
      BY <2>1 DEF SaveInsert
    <3>2. base \in Nat BY DEF StoreInv, TypeOK, TypeTables, IsDatabase, IsTable, Row
    <3>3. pc = "saveInsert" /\ pc' = "saveEvict" /\ db' = db BY <2>1 DEF SaveInsert
    <3>4. /\ sv'.blob = sv.blob /\ sv'.rank = sv.rank /\ sv'.size = sv.size
          /\ sv'.deleted = sv.deleted /\ sv'.projected = storedBytes + sv.size
      BY <2>1 DEF SaveInsert, Projected, StoreInv, TypeOK, IsSave
    <3>5. TxEvicts' BY <3>3 DEF TxInv
    <3>6. /\ Bytes(tx'.blobs) = Bytes(db.blobs) + sv.size /\ tx'.pending = db.pending
          /\ Cardinality(DOMAIN tx'.messages) =
               Cardinality(DOMAIN db.messages) + Cardinality(DOMAIN sv.rank)
      BY <3>1, <3>2, <3>3, <3>4, <3>5, InsertTotals
    <3>7. sv.deleted = 0 /\ ~storageFault BY <3>3 DEF Admitted, Staging
    <3>8. Scanned BY <3>3 DEF Scanned, StoreInv, Unmigrated
    <3>9. storedBytes = Bytes(db.blobs) + Bytes(db.pending)
      BY <3>3, <3>7, <3>8 DEF Exact, Charged
    <3> QED BY <3>3, <3>4, <3>6, <3>7, <3>9, UsageNumbers DEF Charged
  <2>2. CASE SaveEvict
    <3>1. PICK i \in Evictable :
            /\ tx' = DeleteMessageTx(tx, i)
            /\ sv' = [sv EXCEPT !.projected = @ - Released(tx, i), !.deleted = @ + 1]
      BY <2>2 DEF SaveEvict
    <3>2. pc = "saveEvict" /\ db' = db BY <2>2 DEF SaveEvict
    <3>3. /\ sv'.rank = sv.rank /\ sv'.size = sv.size /\ sv'.deleted = sv.deleted + 1
          /\ sv'.projected = sv.projected - Released(tx, i)
      BY <3>1 DEF StoreInv, TypeOK, IsSave
    <3>4. IsDatabase(tx) /\ IntactDB(tx) /\ i \in DOMAIN tx.messages
      BY <3>2 DEF Evictable, StoreInv, TypeOK, TypeTables, InTx
    <3>5. /\ Charged(tx') = Charged(tx)
          /\ Bytes(tx'.blobs) = Bytes(tx.blobs) - Released(tx, i)
          /\ Cardinality(DOMAIN tx'.messages) = Cardinality(DOMAIN tx.messages) - 1
      BY <3>1, <3>4, DeleteTotals
    <3>6. Released(tx, i) \in Nat
      <4>1. tx.messages[i].blob \in DOMAIN tx.blobs BY <3>4 DEF IntactDB
      <4>2. tx.blobs[tx.messages[i].blob] \in Nat BY <3>4, <4>1 DEF IsDatabase, IsTable
      <4> QED BY <4>2 DEF Released
    <3>7. Charged(tx)' = Charged(tx') /\ Charged(db)' = Charged(db) BY <3>2 DEF Charged
    <3> QED BY <3>2, <3>3, <3>5, <3>6, <3>7, UsageNumbers DEF TxTotals
  <2>3. CASE UNCHANGED <<pc, tx, sv, db>> BY <1>1, <2>3 DEF TxTotals, Charged
  <2> QED BY <1>1, <2>1, <2>2, <2>3, TxFrame
<1>2. ASSUME Next, pc' = "cleanDelete"
      PROVE  /\ Charged(tx)' = Charged(db)'
             /\ Cardinality(DOMAIN tx'.messages) = Cardinality(DOMAIN db'.messages) - cl'.count
  <2>1. CASE CleanupSelect
    <3>1. tx' = db /\ db' = db BY <2>1 DEF CleanupSelect
    <3>2. cl'.count = 0 BY <2>1 DEF CleanupSelect, StoreInv, TypeOK, TypeControl
    <3> QED BY <3>1, <3>2, UsageNumbers DEF Charged
  <2>2. CASE CleanupDelete
    <3>1. PICK i \in cl.todo : /\ tx' = DeleteMessageTx(tx, i)
                               /\ cl' = [cl EXCEPT !.todo = @ \ {i}, !.count = @ + 1]
      BY <2>2 DEF CleanupDelete
    <3>2. pc = "cleanDelete" /\ db' = db BY <2>2 DEF CleanupDelete
    <3>3. cl'.count = cl.count + 1 BY <3>1 DEF StoreInv, TypeOK, TypeControl
    <3>4. IsDatabase(tx) /\ IntactDB(tx) /\ i \in DOMAIN tx.messages
      BY <3>2 DEF StoreInv, TypeOK, TypeTables, InTx
    <3>5. /\ Charged(tx') = Charged(tx)
          /\ Cardinality(DOMAIN tx'.messages) = Cardinality(DOMAIN tx.messages) - 1
      BY <3>1, <3>4, DeleteTotals
    <3>6. Charged(tx)' = Charged(tx') /\ Charged(db)' = Charged(db) BY <3>2 DEF Charged
    <3> QED BY <3>2, <3>3, <3>5, <3>6, UsageNumbers DEF TxTotals
  <2>3. CASE UNCHANGED <<pc, tx, cl, db>> BY <1>2, <2>3 DEF TxTotals, Charged
  <2>4. CASE CleanupBegin BY <1>2, <2>4 DEF CleanupBegin, TxInv, TxCleans
  <2> QED BY <1>2, <2>1, <2>2, <2>3, <2>4, TxFrame
<1>3. CASE UNCHANGED vars BY <1>3 DEF vars, TxTotals, Charged
<1> QED BY <1>1, <1>2, <1>3 DEF TxTotals

\* Save starts within the limits and keeps the size and the queue it checked.
LEMMA AdmittedStep == ASSUME StoreInv, Admitted, [Next]_vars PROVE Admitted'
<1> USE DEF StoreInv, TypeOK
<1>1. ASSUME UNCHANGED <<pc, sv, db, storageFault>>, dr'.ret = dr.ret PROVE Admitted'
  BY <1>1 DEF Admitted, Waiting, Staging, Calls
<1>2. ASSUME ~Waiting', ~Staging' PROVE Admitted' BY <1>2 DEF Admitted
<1>3. CASE Drain
  <2>1. dr'.ret = dr.ret
    BY <1>3 DEF Drain, DrainSelect, DrainUnlink, DrainSync, DrainCommit, DrainFails, TypeControl
  <2>2. pc \in DrainLabels /\ pc' \in DrainLabels /\ UNCHANGED <<sv, storageFault>>
    BY <1>3 DEF Drain, DrainSelect, DrainUnlink, DrainSync, DrainCommit, DrainFails, DrainLabels, mem
  <2> QED BY <2>1, <2>2 DEF Admitted, Waiting, Staging, Calls, DrainLabels
<1>4. CASE SaveBegin
  <2>1. PICK d \in Deliveries : d.size <= MaxMessageBytes
                                /\ sv' = [NoSave EXCEPT !.rank = Rank(d.rcpts), !.size = d.size]
    BY <1>4 DEF SaveBegin
  <2>2. sv'.size = d.size /\ sv'.deleted = 0 BY <2>1 DEF NoSave
  <2>3. pc' = "drainSelect" /\ ~storageFault' BY <1>4 DEF SaveBegin, CallDrain, mem
  <2> QED BY <2>1, <2>2, <2>3 DEF Admitted, Waiting, Staging
<1>5. CASE SaveDrained
  <2>1. Waiting /\ pc' = "saveAdmit" /\ UNCHANGED <<sv, storageFault>>
    BY <1>5 DEF SaveDrained, Return, Waiting, Calls, DrainLabels
  <2> QED BY <2>1 DEF Admitted, Waiting, Staging
<1>6. CASE SaveAdmit
  <2>1. Waiting /\ pc' = "saveWrite" /\ UNCHANGED <<storageFault, db>>
        /\ Bytes(db.pending) + sv.size <= MaxStorageBytes
    BY <1>6 DEF SaveAdmit, Admissible, Waiting, mem
  <2>2. sv'.size = sv.size /\ sv'.deleted = sv.deleted BY <1>6 DEF SaveAdmit, IsSave
  <2> QED BY <2>1, <2>2 DEF Admitted, Waiting, Staging, Calls, DrainLabels
<1>7. CASE SaveWrite \/ SaveRename \/ SaveSync
  <2>1. /\ pc \in {"saveWrite", "saveRename", "saveSync"} /\ pc' \in {"saveRename", "saveSync", "saveInsert"}
        /\ UNCHANGED <<sv, storageFault, db>>
    BY <1>7 DEF SaveWrite, SaveRename, SaveSync, mem
  <2> QED BY <2>1 DEF Admitted, Waiting, Staging, Calls, DrainLabels
<1>8. CASE SaveInsert \/ SaveEvict
  <2>1. pc \in {"saveInsert", "saveEvict"} /\ pc' = "saveEvict" /\ UNCHANGED <<storageFault, db>>
    BY <1>8 DEF SaveInsert, SaveEvict, mem
  <2>2. sv'.size = sv.size BY <1>8 DEF SaveInsert, SaveEvict, IsSave
  <2> QED BY <2>1, <2>2 DEF Admitted, Waiting, Staging, Calls, DrainLabels
<1>9. CASE SaveRefused \/ SaveWriteFails \/ SaveRenameFails \/ SaveTxFails \/ SavePostDrained
           \/ SaveRemoveTmp \/ SaveRemoveTmpFails \/ SaveReturn \/ Discard \/ DiscardFails \/ DiscardLoadFails
  <2>1. pc' \in {"free", "saveReturn", "saveRemoveTmp", "discard", "discardLoad"}
    BY <1>9 DEF SaveRefused, SaveWriteFails, SaveRenameFails, SaveTxFails, SavePostDrained,
       SaveRemoveTmp, SaveRemoveTmpFails, SaveReturn, Discard, DiscardFails, DiscardLoadFails, Return
  <2> QED BY <2>1, <1>2 DEF Waiting, Staging, Calls, DrainLabels
<1>10. CASE SaveCommit \/ DiscardLoad \/ CleanupCommit \/ ReconcileLoad \/ OpenDrained
  <2>1. pc' = "openLoad" \/ (pc' = "drainSelect" /\ dr'.ret # "savePre")
    BY <1>10 DEF SaveCommit, DiscardLoad, CleanupCommit, ReconcileLoad, OpenDrained, CallDrain, NoDrain, Return
  <2> QED BY <2>1, <1>2 DEF Waiting, Staging, Calls, DrainLabels
<1>11. CASE CleanupBegin \/ Get \/ Tick \/ ClockBack \/ UNCHANGED vars
  <2>1. UNCHANGED <<pc, sv, db, storageFault, dr>>
    BY <1>11 DEF CleanupBegin, Get, RenderInbox, SelectBody, ReadRow, ReadFile, ReadError, Tick,
       ClockBack, vars, mem
  <2> QED BY <1>1, <2>1
<1>12. CASE CleanupSelect \/ CleanupDelete \/ CleanupTxFails \/ CleanupDrained \/ CleanupDrainFailed
            \/ Boot \/ Migrate \/ NormalizeStoredRecipients \/ ReconcileCheck \/ ReconcileOrphan \/ OpenLoad
            \/ StartupFails \/ Stop \/ PowerLoss
  <2>1. pc' \in {"free", "cleanDelete", "migrate", "normalize", "reconcile", "scan"}
    BY <1>12 DEF CleanupSelect, CleanupDelete, CleanupTxFails, CleanupDrained, CleanupDrainFailed,
       CleanupError, Boot, Migrate, NormalizeStoredRecipients, ReconcileCheck, ReconcileOrphan, OpenLoad,
       StartupFails, Stop, PowerLoss, Fatal, Halt, Return
  <2> QED BY <2>1, <1>2 DEF Waiting, Staging, Calls, DrainLabels
<1> QED BY <1>3, <1>4, <1>5, <1>6, <1>7, <1>8, <1>9, <1>10, <1>11, <1>12 DEF Next, Save, Cleanup, OpenStore

\* A step that writes neither the tables nor the totals.
LEMMA ExactKept ==
  ASSUME Exact, UNCHANGED <<db, storedBytes, storedMessages>>, pc # "discardLoad",
         Scanned' /\ ~storageFault' => Scanned /\ ~storageFault
  PROVE  Exact'
BY DEF Exact, Charged

LEMMA ExactStep ==
  ASSUME StoreInv, StoreInv', Admitted, Exact, TxTotals, [Next]_vars
  PROVE  Exact'
<1>1. CASE DrainCommit
  <2>1. /\ pc = "drainCommit" /\ pc' = "drained" /\ UNCHANGED <<mode, storageFault, storedMessages>>
        /\ storedBytes' = storedBytes - Reclaimed
    BY <1>1 DEF DrainCommit, proc
  <2>2. db'.messages = db.messages /\ db'.blobs = db.blobs BY <1>1, QueueOnly
  <2>3. db'.pending = Without(db.pending, dr.removed)
    BY <1>1 DEF DrainCommit, StoreInv, TypeOK, TypeTables, IsDatabase
  <2>4. /\ IsTable(db.pending, Paths, Nat)
    BY DEF StoreInv, TypeOK, TypeTables, IsDatabase
  <2>5. /\ Bytes(db.pending) = Reclaimed + Bytes(db'.pending)
        /\ Reclaimed \in Nat /\ Bytes(db'.pending) \in Nat
    BY <2>3, <2>4, BytesSplit, BytesType DEF Reclaimed
  <2>6. Scanned' => Scanned BY <2>1 DEF Scanned
  <2>7. Charged(db)' = Bytes(db.blobs) + Bytes(db'.pending) BY <2>2 DEF Charged
  <2>8. storedBytes = Charged(db) => storedBytes' = Charged(db)'
    BY <2>1, <2>5, <2>7, UsageNumbers DEF Charged
  <2> QED BY <2>1, <2>2, <2>6, <2>8 DEF Exact
<1>2. CASE SaveCommit
  <2>1. /\ pc = "saveEvict" /\ db' = tx /\ UNCHANGED <<mode, storageFault>>
        /\ storedBytes' = storedBytes + sv.size
        /\ storedMessages' = storedMessages + Cardinality(DOMAIN sv.rank) - sv.deleted
    BY <1>2 DEF SaveCommit, proc
  <2>2. Scanned BY <2>1 DEF Scanned, StoreInv, Unmigrated
  <2>3. Charged(db)' = Charged(tx) BY <2>1 DEF Charged
  <2> QED BY <2>1, <2>2, <2>3, UsageNumbers DEF Exact, TxTotals
<1>3. CASE CleanupCommit
  <2>1. /\ pc = "cleanDelete" /\ db' = tx /\ UNCHANGED <<mode, storageFault, storedBytes>>
        /\ storedMessages' = storedMessages - cl.count
    BY <1>3 DEF CleanupCommit, proc
  <2>2. Scanned BY <2>1 DEF Scanned, StoreInv, Unmigrated
  <2>3. Charged(db)' = Charged(tx) BY <2>1 DEF Charged
  <2> QED BY <2>1, <2>2, <2>3, UsageNumbers DEF Exact, TxTotals
<1>4. CASE Discard
  <2>1. /\ pc = "discard" /\ pc' = "discardLoad" /\ UNCHANGED <<mode, storageFault, storedMessages>>
    BY <1>4 DEF Discard, mem, proc
  <2>2. db'.messages = db.messages BY <1>4, QueueOnly
  <2>3. Scanned' => Scanned BY <2>1 DEF Scanned
  <2> QED BY <2>1, <2>2, <2>3 DEF Exact
<1>5. CASE DiscardLoad \/ ReconcileLoad \/ OpenLoad
  <2>1. UNCHANGED db /\ LoadStorageUsage BY <1>5 DEF DiscardLoad, ReconcileLoad, OpenLoad
  <2> QED BY <2>1 DEF Exact, LoadStorageUsage, Charged
<1>6. CASE DiscardFails
  <2>1. pc = "discard" /\ pc' = "saveReturn" /\ UNCHANGED <<db, mode, storedMessages>>
        /\ (storageFault' \/ UNCHANGED <<storedBytes, storageFault>>)
    BY <1>6 DEF DiscardFails, proc
  <2>2. CASE storageFault' BY <2>2 DEF Exact
  <2>3. CASE UNCHANGED <<storedBytes, storageFault>> BY <2>1, <2>3, ExactKept DEF Scanned
  <2> QED BY <2>1, <2>2, <2>3
<1>7. CASE DiscardLoadFails BY <1>7 DEF DiscardLoadFails, Exact
<1>8. CASE Boot \/ Migrate \/ NormalizeStoredRecipients \/ ReconcileCheck \/ ReconcileOrphan
           \/ StartupFails \/ Stop \/ PowerLoss
  <2>1. mode' = "down" \/ pc' \in {"migrate", "normalize", "reconcile", "scan"}
    BY <1>8 DEF Boot, Migrate, NormalizeStoredRecipients, ReconcileCheck, ReconcileOrphan,
       StartupFails, Stop, PowerLoss, Fatal, Halt
  <2> QED BY <2>1 DEF Exact, Scanned
<1>9. CASE DrainSelect \/ DrainUnlink \/ DrainSync \/ DrainFails \/ OpenDrained
  <2>1. pc \in DrainLabels /\ UNCHANGED <<db, storedBytes, storedMessages, storageFault, mode>>
    BY <1>9 DEF DrainSelect, DrainUnlink, DrainSync, DrainFails, OpenDrained, DrainLabels, mem, proc
  <2> QED BY <2>1, ExactKept DEF Scanned, DrainLabels
<1>10. CASE Get \/ Tick \/ ClockBack \/ UNCHANGED vars \/ CleanupBegin
  <2>1. UNCHANGED <<pc, db, storedBytes, storedMessages, storageFault, mode>>
    BY <1>10 DEF Get, RenderInbox, SelectBody, ReadRow, ReadFile, ReadError, Tick, ClockBack, vars,
       CleanupBegin, mem, proc
  <2> QED BY <2>1 DEF Exact, Scanned, Charged
<1>11. CASE CleanupSelect \/ CleanupDelete \/ CleanupTxFails \/ CleanupDrained \/ CleanupDrainFailed
  <2>1. pc \in {"free", "cleanDelete", "drained"} /\ UNCHANGED db
    BY <1>11 DEF CleanupSelect, CleanupDelete, CleanupTxFails, CleanupDrained, CleanupDrainFailed,
       CleanupError, Fatal
  <2>2. mode' = "down" \/ (mode # "down" /\ UNCHANGED <<storedBytes, storedMessages, storageFault>>)
    BY <1>11 DEF CleanupSelect, CleanupDelete, CleanupTxFails, CleanupDrained, CleanupDrainFailed,
       CleanupError, Fatal, Halt, mem, proc, StoreInv, Unmigrated
  <2>3. CASE mode' = "down" BY <2>3 DEF Exact, Scanned
  <2>4. CASE mode # "down" /\ UNCHANGED <<storedBytes, storedMessages, storageFault>>
    BY <2>1, <2>4, ExactKept DEF Scanned
  <2> QED BY <2>2, <2>3, <2>4
<1>12. CASE Save /\ ~SaveCommit /\ ~Discard /\ ~DiscardLoad /\ ~DiscardFails /\ ~DiscardLoadFails
  <2>1. /\ pc \in {"free", "drained", "saveAdmit", "saveWrite", "saveRename", "saveSync", "saveInsert",
                   "saveEvict", "saveRemoveTmp", "saveReturn"}
        /\ UNCHANGED <<db, storedBytes, storedMessages, storageFault, mode>>
    BY <1>12 DEF Save, SaveBegin, SaveDrained, SaveAdmit, SaveRefused, SaveWrite, SaveWriteFails,
       SaveRename, SaveRenameFails, SaveSync, SaveTxFails, RollBack, SavePostDrained, SaveRemoveTmp,
       SaveRemoveTmpFails, SaveReturn, SaveInsert, SaveEvict, mem, proc
  <2> QED BY <2>1, ExactKept DEF Scanned
<1> QED BY <1>1, <1>2, <1>3, <1>4, <1>5, <1>6, <1>7, <1>8, <1>9, <1>10, <1>11, <1>12
        DEF Next, Drain, Cleanup, OpenStore

\* Save commits only what fits; nothing else adds to the blobs.
LEMMA BlobsFitStep ==
  ASSUME StoreInv, StoreInv', TxTotals, BlobsFit, [Next]_vars
  PROVE  BlobsFit'
<1> SUFFICES ASSUME DOMAIN LegacyMail = {} PROVE Bytes(db'.blobs) <= MaxStorageBytes
  BY DEF BlobsFit
<1>0. Bytes(db.blobs) <= MaxStorageBytes /\ MaxStorageBytes \in Nat BY ConstantsAssumption DEF BlobsFit
<1>1. CASE SaveCommit
  <2>1. pc = "saveEvict" /\ db' = tx /\ sv.projected <= MaxStorageBytes BY <1>1 DEF SaveCommit
  <2> QED BY <1>0, <2>1, UsageNumbers DEF TxTotals
<1>2. CASE CleanupCommit
  <2>1. pc = "cleanDelete" /\ db' = tx BY <1>2 DEF CleanupCommit
  <2>2. IsTable(db.blobs, BlobPaths, Nat) /\ IsTable(tx.blobs, BlobPaths, Nat)
    BY DEF StoreInv, TypeOK, TypeTables, IsDatabase
  <2>3. 0 \notin DOMAIN tx.blobs BY <2>2, ConstantsAssumption DEF IsTable
  <2>4. \A p \in DOMAIN tx.blobs : p \in DOMAIN db.blobs /\ tx.blobs[p] = db.blobs[p] /\ tx.blobs[p] \in Nat
    BY <2>1, <2>2, <2>3 DEF StoreInv, InTx, SubBlobs, IsTable
  <2>5. \A p \in DOMAIN tx.blobs : p \in DOMAIN db.blobs /\ tx.blobs[p] <= db.blobs[p] BY <2>4
  <2>6. Bytes(tx.blobs) <= Bytes(db.blobs) BY <2>2, <2>5, BytesMono
  <2> QED BY <1>0, <2>1, <2>6, UsageNumbers
<1>3. CASE Migrate
  <2>1. db' = IF db.legacy THEN Migrated(db) ELSE db BY <1>3 DEF Migrate
  <2>2. CASE ~db.legacy BY <1>0, <2>1, <2>2
  <2>3. CASE db.legacy
    <3>1. db.messages = LegacyMail BY <2>3 DEF StoreInv, Unmigrated, LegacyDB
    <3>2. DOMAIN db'.blobs = {} BY <2>1, <2>3, <3>1 DEF Migrated, FileSizes
    <3>3. Bytes(db'.blobs) = 0 BY <3>2, BytesEmpty
    <3> QED BY <1>0, <3>3
  <2> QED BY <2>2, <2>3
<1>4. CASE NormalizeStoredRecipients \/ Discard \/ ReconcileOrphan \/ DrainCommit
  <2>1. db'.blobs = db.blobs
    BY <1>4, QueueOnly DEF NormalizeStoredRecipients, StoreInv, TypeOK, TypeTables, IsDatabase
  <2> QED BY <1>0, <2>1
<1>5. CASE ~(SaveCommit \/ CleanupCommit \/ Migrate \/ NormalizeStoredRecipients \/ Discard
             \/ ReconcileOrphan \/ DrainCommit)
  BY <1>0, <1>5, Unwritten
<1> QED BY <1>1, <1>2, <1>3, <1>4, <1>5

\* A file overwritten.
LEMMA BytesSet ==
  ASSUME NEW D, NEW f, IsTable(f, D, Nat), NEW x \in DOMAIN f, NEW v \in Nat,
         NEW g, g = [f EXCEPT ![x] = v]
  PROVE  Bytes(g) = Bytes(f) - f[x] + v
<1>1. IsTable(g, D, Nat) /\ g[x] = v /\ x \in DOMAIN g BY DEF IsTable
<1>2. Without(g, {x}) = Without(f, {x}) BY DEF Without, IsTable
<1>3. Bytes(Without(g, {x})) = Bytes(g) - v BY <1>1, BytesWithout
<1>4. Bytes(Without(f, {x})) = Bytes(f) - f[x] BY BytesWithout
<1>5. Bytes(f) \in Nat /\ Bytes(g) \in Nat /\ f[x] \in Nat BY <1>1, BytesType DEF IsTable
<1> QED BY <1>2, <1>3, <1>4, <1>5

\* Between two deliveries of a store without a fault the directory holds no
\* more than the tables charge.
LEMMA DirectoryCharged ==
  ASSUME StoreInv, DirInv, Scanned, ~storageFault, ~StatMayFail, InHand = 0
  PROVE  Bytes(files) <= Charged(db)
<1> DEFINE B == DOMAIN db.blobs
<1>1. /\ IsTable(files, Paths, Nat) /\ IsTable(db.blobs, BlobPaths, Nat)
      /\ IsTable(db.pending, Paths, Nat)
  BY DEF StoreInv, TypeOK, TypeTables, TypeDirectory, IsDatabase
<1>2. \A p \in DOMAIN files : p \in B \/ p \in DOMAIN db.pending
  BY <1>1, ConstantsAssumption DEF DirInv, Known, IsTable, Paths
<1>3. \A p \in DOMAIN files : files[p] \in Nat BY <1>1 DEF IsTable
<1>4. /\ IsTable(Only(files, B), Paths, Nat) /\ IsTable(Without(files, B), Paths, Nat)
      /\ Bytes(files) = Bytes(Only(files, B)) + Bytes(Without(files, B))
  BY <1>1, BytesSplit
<1>5. Bytes(Only(files, B)) <= Bytes(db.blobs)
  <2>1. \A p \in DOMAIN Only(files, B) : p \in DOMAIN db.blobs /\ Only(files, B)[p] <= db.blobs[p]
    BY <1>3 DEF Only, StoreInv, BlobsOnDisk
  <2> QED BY <1>1, <1>4, <2>1, BytesMono
<1>6. Bytes(Without(files, B)) <= Bytes(db.pending)
  <2>1. \A p \in DOMAIN Without(files, B) :
          p \in DOMAIN db.pending /\ Without(files, B)[p] <= db.pending[p]
    BY <1>2, <1>3 DEF Without, DirInv, OneContent
  <2> QED BY <1>1, <1>4, <2>1, BytesMono
<1>7. Bytes(Only(files, B)) \in Nat /\ Bytes(Without(files, B)) \in Nat BY <1>4, BytesType
<1> QED BY <1>4, <1>5, <1>6, <1>7, UsageNumbers DEF Charged

\* The steps that write the directory, and the step that opens a staging file.
LEMMA FilesKept ==
  ASSUME [Next]_vars, ~PowerLoss, ~(SaveAdmit \/ SaveWrite \/ SaveWriteFails \/ SaveRename \/ DrainUnlink
         \/ SaveRemoveTmp \/ DiscardFails)
  PROVE  files' = files
BY DEF Next, vars, disk, Drain, DrainSelect, DrainSync, DrainCommit, DrainFails,
   Save, SaveBegin, SaveDrained, SaveRefused,
   SaveRenameFails, SaveSync, SaveTxFails, RollBack, SavePostDrained, SaveCommit,
   SaveRemoveTmpFails, SaveReturn, Discard, DiscardLoad, DiscardLoadFails, SaveInsert, SaveEvict,
   Cleanup, CleanupBegin, CleanupSelect, CleanupDelete, CleanupTxFails, CleanupCommit,
   CleanupDrained, CleanupDrainFailed, CleanupError, Fatal,
   OpenStore, Boot, Migrate, NormalizeStoredRecipients, ReconcileCheck, ReconcileOrphan,
   ReconcileLoad, OpenDrained, OpenLoad, StartupFails,
   Get, RenderInbox, SelectBody, ReadRow, ReadFile, ReadError, Tick, ClockBack, Stop

LEMMA WriteKept ==
  ASSUME [Next]_vars, ~SaveAdmit, pc' = "saveWrite"
  PROVE  pc = "saveWrite" /\ sv' = sv
<1>1. CASE Drain BY <1>1 DEF Drain, DrainSelect, DrainUnlink, DrainSync, DrainCommit, DrainFails
<1>2. CASE Save
  BY <1>2 DEF Save, SaveBegin, SaveDrained, SaveRefused, SaveWrite, SaveWriteFails,
     SaveRename, SaveRenameFails, SaveSync, SaveTxFails, SavePostDrained, SaveCommit, SaveRemoveTmp,
     SaveRemoveTmpFails, SaveReturn, DiscardFails, Discard, DiscardLoad, DiscardLoadFails,
     SaveInsert, SaveEvict, CallDrain, Return
<1>3. CASE Cleanup
  BY <1>3 DEF Cleanup, CleanupBegin, CleanupSelect, CleanupDelete, CleanupTxFails, CleanupCommit,
     CleanupDrained, CleanupDrainFailed, CleanupError, Fatal, Halt, CallDrain, Return
<1>4. CASE OpenStore
  BY <1>4 DEF OpenStore, Boot, Migrate, NormalizeStoredRecipients, ReconcileCheck, ReconcileOrphan,
     ReconcileLoad, OpenDrained, OpenLoad, StartupFails, Fatal, Halt, CallDrain, Return
<1>5. CASE Get \/ Tick \/ ClockBack \/ UNCHANGED vars
  BY <1>5 DEF Get, RenderInbox, SelectBody, ReadRow, ReadFile, ReadError, Tick, ClockBack, vars
<1>6. CASE Stop \/ PowerLoss BY <1>6 DEF Stop, PowerLoss, Halt
<1> QED BY <1>1, <1>2, <1>3, <1>4, <1>5, <1>6 DEF Next

LEMMA DiskFitsStep ==
  ASSUME StoreInv, StoreInv', DirInv, Admitted, Exact, DiskFits, [Next]_vars
  PROVE  DiskFits'
<1> SUFFICES ASSUME DOMAIN LegacyMail = {}, ~PowerMayFail, ~StatMayFail
             PROVE  /\ Bytes(files') <= MaxStorageBytes + MaxMessageBytes
                    /\ pc' = "saveWrite" => Bytes(files') <= MaxStorageBytes /\ files'[sv'.tmp] = 0
  BY DEF DiskFits
<1>0. /\ Bytes(files) <= MaxStorageBytes + MaxMessageBytes
      /\ pc = "saveWrite" => Bytes(files) <= MaxStorageBytes /\ files[sv.tmp] = 0
      /\ MaxStorageBytes \in Nat /\ MaxMessageBytes \in Nat
      /\ IsTable(files, Paths, Nat) /\ IsTable(files', Paths, Nat)
      /\ Bytes(files) \in Nat /\ Bytes(files') \in Nat /\ ~PowerLoss
  BY ConstantsAssumption, BytesType DEF DiskFits, StoreInv, TypeOK, TypeDirectory, PowerLoss
<1>1. CASE SaveAdmit
  <2>1. PICK b \in BlobPaths, t \in TmpPaths :
          /\ Fresh(t) /\ files' = Put(files, t, 0)
          /\ sv' = [sv EXCEPT !.blob = b, !.tmp = t, !.received = now]
    BY <1>1 DEF SaveAdmit
  <2>2. sv'.tmp = t BY <2>1 DEF StoreInv, TypeOK, IsSave
  <2>3. t \in Paths /\ t \notin DOMAIN files BY <2>1 DEF Paths, Fresh
  <2>4. Bytes(files') = Bytes(files) + 0 BY <1>0, <2>1, <2>3, BytesPut
  <2>5. pc = "saveAdmit" /\ storedBytes <= MaxStorageBytes BY <1>1 DEF SaveAdmit, Admissible
  <2>6. ~storageFault /\ InHand = 0 /\ Scanned
    BY <2>5 DEF Admitted, Waiting, InHand, Scanned, StoreInv, Unmigrated
  <2>7. Bytes(files) <= Charged(db) BY <2>6, DirectoryCharged
  <2>8. Charged(db) = storedBytes BY <2>5, <2>6 DEF Exact
  <2>9. files'[t] = 0 BY <2>1 DEF Put
  <2> QED BY <1>0, <2>2, <2>4, <2>5, <2>7, <2>8, <2>9, UsageNumbers
<1>2. CASE SaveWrite \/ SaveWriteFails
  <2>1. /\ pc = "saveWrite" /\ pc' # "saveWrite"
        /\ \E n \in 0 .. sv.size : files' = [files EXCEPT ![sv.tmp] = n]
    BY <1>2, UsageNumbers DEF SaveWrite, SaveWriteFails
  <2>2. PICK n \in 0 .. sv.size : files' = [files EXCEPT ![sv.tmp] = n] BY <2>1
  <2>3. sv.tmp \in DOMAIN files BY <2>1 DEF StoreInv, Staged
  <2>4. n \in Nat /\ n <= sv.size BY UsageNumbers
  <2>5. Bytes(files') = Bytes(files) - files[sv.tmp] + n
    <3>1. IsTable(files, Paths, Nat) /\ n \in Nat BY <1>0, <2>4
    <3> QED BY ONLY <2>2, <2>3, <3>1, BytesSet, ZenonT(60)
  <2>6. sv.size <= MaxMessageBytes /\ sv.size \in Nat BY <2>1, UsageNumbers DEF Admitted, Staging
  <2>7. files[sv.tmp] = 0 BY <1>0, <2>1
  <2> QED BY <1>0, <2>1, <2>4, <2>5, <2>6, <2>7
<1>3. CASE SaveRename
  <2>1. /\ pc = "saveRename" /\ pc' = "saveSync"
        /\ files' = Put(Without(files, {sv.tmp}), sv.blob, files[sv.tmp])
    BY <1>3 DEF SaveRename
  <2>2. sv.tmp \in DOMAIN files /\ sv.blob \in Paths /\ sv.blob \notin DOMAIN files
    BY <2>1 DEF StoreInv, Staged, Paths, DirInv, HandNew
  <2>3. files[sv.tmp] \in Nat BY <1>0, <2>2 DEF IsTable
  <2> DEFINE W == Without(files, {sv.tmp})
  <2>4. IsTable(W, Paths, Nat) /\ sv.blob \notin DOMAIN W
    <3>1. IsTable(W, Paths, Nat) BY <1>0, WithoutTable
    <3> QED BY <2>2, <3>1 DEF Without
  <2>5. Bytes(W) = Bytes(files) - files[sv.tmp] BY <1>0, <2>2, BytesWithout
  <2> HIDE DEF W
  <2>6. Bytes(Put(W, sv.blob, files[sv.tmp])) = Bytes(W) + files[sv.tmp]
    BY <2>2, <2>3, <2>4, BytesPut
  <2>7. files' = Put(W, sv.blob, files[sv.tmp]) BY <2>1 DEF W
  <2>8. Bytes(files') = Bytes(files) BY <1>0, <2>3, <2>5, <2>6, <2>7
  <2> QED BY <1>0, <2>1, <2>8
<1>4. CASE DrainUnlink \/ SaveRemoveTmp \/ DiscardFails
  <2>1. DOMAIN files' \subseteq DOMAIN files /\ \A p \in DOMAIN files' : files'[p] = files[p]
    BY <1>4 DEF DrainUnlink, SaveRemoveTmp, DiscardFails, Without
  <2>2. \A p \in DOMAIN files' : p \in DOMAIN files /\ files'[p] <= files[p]
    BY <1>0, <2>1 DEF IsTable
  <2>3. Bytes(files') <= Bytes(files) BY <1>0, <2>2, BytesMono
  <2>4. pc' # "saveWrite" BY <1>4 DEF DrainUnlink, SaveRemoveTmp, DiscardFails
  <2> QED BY <1>0, <2>3, <2>4
<1>5. CASE ~(SaveAdmit \/ SaveWrite \/ SaveWriteFails \/ SaveRename \/ DrainUnlink \/ SaveRemoveTmp
             \/ DiscardFails)
  <2>1. files' = files BY <1>0, <1>5, FilesKept
  <2>2. pc' = "saveWrite" => pc = "saveWrite" /\ sv' = sv
    BY <1>5, WriteKept
  <2> QED BY <1>0, <2>1, <2>2
<1> QED BY <1>1, <1>2, <1>3, <1>4, <1>5

-----------------------------------------------------------------------------
\* Everything that the theorems below need besides StoreInv.
LedgerInv == DirInv /\ UsageInv

LEMMA LedgerInit == ASSUME Init PROVE LedgerInv
<1>1. DirInv BY DirInit
<1>2. pc = "free" /\ mode = "down" /\ DOMAIN db.blobs = {}
  BY DEF Init, EmptyDB, LegacyDB, Empty
<1>3. Admitted /\ Exact /\ TxTotals
  BY <1>2 DEF Admitted, Exact, TxTotals, Waiting, Staging, Calls, DrainLabels, Scanned
<1>4. MaxStorageBytes \in Nat /\ MaxMessageBytes \in Nat BY ConstantsAssumption
<1>5. BlobsFit
  <2>1. Bytes(db.blobs) = 0 BY <1>2, BytesEmpty
  <2> QED BY <1>4, <2>1 DEF BlobsFit
<1>6. DiskFits
  <2> SUFFICES ASSUME DOMAIN LegacyMail = {} PROVE Bytes(files) <= MaxStorageBytes + MaxMessageBytes
    BY <1>2 DEF DiskFits
  <2>1. DOMAIN files = {} BY DEF Init, Empty, LegacyFiles, FileSizes
  <2>2. Bytes(files) = 0 BY <2>1, BytesEmpty
  <2> QED BY <1>4, <2>2
<1> QED BY <1>1, <1>3, <1>5, <1>6 DEF LedgerInv, UsageInv

LEMMA LedgerStep ==
  ASSUME StoreInv, StoreInv', TxInv, TxInv', LedgerInv, [Next]_vars
  PROVE  LedgerInv'
<1>1. DirInv' BY DirStep DEF LedgerInv
<1>2. Admitted' BY AdmittedStep DEF LedgerInv, UsageInv
<1>3. Exact' BY ExactStep DEF LedgerInv, UsageInv
<1>4. TxTotals' BY TxTotalsStep DEF LedgerInv, UsageInv
<1>5. BlobsFit' BY BlobsFitStep DEF LedgerInv, UsageInv
<1>6. DiskFits' BY DiskFitsStep DEF LedgerInv, UsageInv
<1> QED BY <1>1, <1>2, <1>3, <1>4, <1>5, <1>6 DEF LedgerInv, UsageInv

\* The directory and the totals agree with the tables in every reachable state.
THEOREM Ledger == Spec => []LedgerInv
BY LedgerInit, LedgerStep, Invariance, Transactions, PTL DEF Spec

\* The totals that Save admits against are exact whenever the lock is free,
\* whatever failed before.
THEOREM Totals == Spec => []TotalsExact
<1>1. LedgerInv => TotalsExact BY DEF LedgerInv, UsageInv, Exact, Scanned, TotalsExact
<1> QED BY <1>1, Ledger, PTL

\* "storage limit exhausted" is unreachable: evictTx never runs out of victims
\* for a delivery that was admitted.
THEOREM EvictionNeverStuck == Spec => []EvictionSuffices
<1>1. StoreInv /\ LedgerInv => EvictionSuffices
  <2> SUFFICES ASSUME StoreInv, LedgerInv, pc = "saveEvict", sv.projected > MaxStorageBytes, Evictable = {}
               PROVE  FALSE
    BY DEF EvictionSuffices
  <2>1. IntactDB(tx) /\ IsDatabase(tx) /\ sv.blob \in BlobPaths
    BY DEF StoreInv, InTx, TypeOK, TypeTables, Staged
  <2>2. \A b \in DOMAIN tx.blobs : b = sv.blob
    <3> SUFFICES ASSUME NEW b \in DOMAIN tx.blobs, b # sv.blob PROVE FALSE
      OBVIOUS
    <3>1. Referrers(tx, b) = {} BY DEF Referrers, Evictable
    <3>2. Cardinality(Referrers(tx, b)) = 0 BY <3>1, FS_EmptySet
    <3> QED BY <2>1, <3>2 DEF IntactDB
  <2>3. Bytes(tx.blobs) <= sv.size
    <3>1. CASE DOMAIN tx.blobs = {}
      <4>1. Bytes(tx.blobs) = 0 BY <3>1, BytesEmpty
      <4> QED BY <4>1, UsageNumbers
    <3>2. CASE DOMAIN tx.blobs = {sv.blob}
      <4>1. tx.blobs[sv.blob] = sv.size BY <3>2 DEF StoreInv, InTx
      <4> QED BY <3>2, <4>1, BytesOne, UsageNumbers
    <3> QED BY <2>2, <3>1, <3>2
  <2>4. sv.projected = Bytes(tx.blobs) + Bytes(db.pending)
        /\ Bytes(db.pending) + sv.size <= MaxStorageBytes
    BY DEF LedgerInv, UsageInv, TxTotals, Admitted, Staging
  <2>5. MaxStorageBytes \in Nat BY ConstantsAssumption
  <2> QED BY <2>3, <2>4, <2>5, UsageNumbers
<1> QED BY <1>1, Ledger, Invariance, PTL

\* "disk usage can temporarily exceed the cap by that incoming file's size" and
\* by no more, as long as a staging file that resists removal can be measured.
THEOREM DiskUsage == ASSUME ~StatMayFail PROVE Spec => []DiskBounded
<1>1. LedgerInv => DiskBounded
  BY DEF LedgerInv, UsageInv, BlobsFit, DiskFits, DiskBounded
<1> QED BY <1>1, Ledger, PTL

-----------------------------------------------------------------------------
(* What a delivery and a mailbox look like between steps. *)

Folded(a) == normalizeRecipient(a) = a

\* A delivery is being handled, somewhere between the start of Save and its return.
Busy == \/ pc \in {"saveAdmit", "saveWrite", "saveRename", "saveSync", "saveInsert", "saveEvict",
                   "saveRemoveTmp", "saveReturn", "discard", "discardLoad"}
        \/ Calls("savePre") \/ Calls("savePost") \/ Calls("discard")

Handling ==
  /\ Busy => DOMAIN sv.rank # {} /\ \A a \in DOMAIN sv.rank : Folded(a)
  /\ ~Busy => sv.rank = Empty
  /\ pc \notin DrainLabels => dr.ret = "none"

\* The store serves after the rows of older versions are folded.
Opened == mode = "serving" => pc \notin {"migrate", "normalize"}

Canon ==
  mode # "down" /\ pc \notin {"migrate", "normalize"} =>
    \A i \in DOMAIN db.messages : Folded(db.messages[i].rcpt)

\* Save and Cleanup read a clock that only moves forward.
Clocks ==
  ~ClockMayStepBack => /\ Staging => sv.received <= now
                       /\ cl.active => cl.before <= now

PromiseInv == Handling /\ Opened /\ Canon /\ Clocks

LEMMA RankFolded ==
  ASSUME NEW list
  PROVE  \A a \in DOMAIN Rank(list) : Folded(a)
BY DEF Rank, Recipients, normalizeRecipient, Folded

\* Steps that are no part of Save.
LEMMA HandlingKept ==
  ASSUME Handling, UNCHANGED sv, Busy' = Busy, pc' \notin DrainLabels => dr'.ret = "none"
  PROVE  Handling'
BY DEF Handling

LEMMA HandlingStep == ASSUME StoreInv, Handling, [Next]_vars PROVE Handling'
<1> USE DEF StoreInv, TypeOK
<1>1. CASE Drain
  <2>1. dr'.ret = dr.ret
    BY <1>1 DEF Drain, DrainSelect, DrainUnlink, DrainSync, DrainCommit, DrainFails, TypeControl
  <2>2. pc \in DrainLabels /\ pc' \in DrainLabels /\ UNCHANGED sv
    BY <1>1 DEF Drain, DrainSelect, DrainUnlink, DrainSync, DrainCommit, DrainFails, DrainLabels
  <2>3. Busy' = Busy BY <2>1, <2>2 DEF Busy, Calls, DrainLabels
  <2> QED BY <2>2, <2>3, HandlingKept
<1>2. CASE SaveBegin
  <2>1. PICK d \in Deliveries : /\ Recipients(d.rcpts) # {}
                                /\ sv' = [NoSave EXCEPT !.rank = Rank(d.rcpts), !.size = d.size]
    BY <1>2 DEF SaveBegin
  <2>2. sv'.rank = Rank(d.rcpts) BY <2>1 DEF NoSave
  <2>3. DOMAIN sv'.rank # {} BY <2>1, <2>2 DEF Rank
  <2>4. \A a \in DOMAIN sv'.rank : Folded(a) BY <2>2, RankFolded
  <2>5. pc' = "drainSelect" /\ dr'.ret = "savePre" BY <1>2 DEF SaveBegin, CallDrain, NoDrain
  <2> QED BY <2>3, <2>4, <2>5 DEF Handling, Busy, Calls, DrainLabels
<1>3. CASE Save /\ ~SaveBegin /\ ~SaveReturn
  <2>1. sv'.rank = sv.rank
    BY <1>3 DEF Save, SaveDrained, SaveAdmit, SaveRefused, SaveWrite, SaveWriteFails,
       SaveRename, SaveRenameFails, SaveSync, SaveTxFails, SavePostDrained, SaveCommit, SaveRemoveTmp,
       SaveRemoveTmpFails, DiscardFails, Discard, DiscardLoad, DiscardLoadFails,
       SaveInsert, SaveEvict, IsSave
  <2>2. Busy
    BY <1>3 DEF Save, SaveDrained, SaveAdmit, SaveRefused, SaveWrite, SaveWriteFails,
       SaveRename, SaveRenameFails, SaveSync, SaveTxFails, SavePostDrained, SaveCommit, SaveRemoveTmp,
       SaveRemoveTmpFails, DiscardFails, Discard, DiscardLoad, DiscardLoadFails,
       SaveInsert, SaveEvict, Busy, Calls, DrainLabels
  <2>3. \/ /\ pc' \in {"saveAdmit", "saveWrite", "saveRename", "saveSync", "saveInsert", "saveEvict",
                       "saveRemoveTmp", "saveReturn", "discard", "discardLoad"}
           /\ dr'.ret = "none" \/ (UNCHANGED dr /\ pc \notin DrainLabels)
        \/ pc' = "drainSelect" /\ dr'.ret \in {"savePost", "discard"}
    <3>1. CASE SaveDrained \/ SavePostDrained
      BY <3>1 DEF SaveDrained, SavePostDrained, Return, NoDrain
    <3>2. CASE SaveCommit \/ DiscardLoad BY <3>2 DEF SaveCommit, DiscardLoad, CallDrain, NoDrain
    <3>3. CASE ~(SaveDrained \/ SavePostDrained \/ SaveCommit \/ DiscardLoad)
      BY <1>3, <3>3 DEF Save, SaveAdmit, SaveRefused, SaveWrite, SaveWriteFails,
         SaveRename, SaveRenameFails, SaveSync, SaveTxFails, SaveRemoveTmp,
         SaveRemoveTmpFails, DiscardFails, Discard, DiscardLoadFails,
         SaveInsert, SaveEvict, DrainLabels
    <3> QED BY <3>1, <3>2, <3>3
  <2>4. Busy' BY <2>3 DEF Busy, Calls, DrainLabels
  <2>5. pc' \notin DrainLabels => dr'.ret = "none" BY <2>3 DEF Handling, DrainLabels
  <2> QED BY <2>1, <2>2, <2>4, <2>5 DEF Handling
<1>4. CASE SaveReturn
  <2>1. pc' = "free" /\ sv' = NoSave /\ dr' = dr /\ pc = "saveReturn" BY <1>4 DEF SaveReturn
  <2> QED BY <2>1 DEF Handling, Busy, Calls, DrainLabels, NoSave
<1>5. CASE CleanupBegin \/ Get \/ Tick \/ ClockBack \/ UNCHANGED vars
  <2>1. UNCHANGED <<pc, sv, dr>>
    BY <1>5 DEF CleanupBegin, Get, RenderInbox, SelectBody, ReadRow, ReadFile, ReadError, Tick,
       ClockBack, vars
  <2> QED BY <2>1 DEF Handling, Busy, Calls
<1>6. CASE CleanupSelect \/ CleanupDelete \/ CleanupCommit \/ CleanupDrained \/ Boot \/ Migrate
           \/ NormalizeStoredRecipients \/ ReconcileOrphan \/ ReconcileLoad \/ OpenDrained \/ OpenLoad
  <2>1. /\ pc \in {"free", "cleanDelete", "migrate", "normalize", "scan", "openLoad"}
             \/ (pc = "drained" /\ dr.ret \in {"cleanup", "open"})
        /\ UNCHANGED sv
    BY <1>6 DEF CleanupSelect, CleanupDelete, CleanupCommit, CleanupDrained, Boot, Migrate, Unmigrated,
       NormalizeStoredRecipients, ReconcileOrphan, ReconcileLoad, OpenDrained, OpenLoad
  <2>2. \/ /\ pc' \in {"free", "cleanDelete", "migrate", "normalize", "reconcile", "scan", "openLoad"}
           /\ dr'.ret = "none" \/ (UNCHANGED dr /\ pc \notin DrainLabels)
        \/ pc' = "drainSelect" /\ dr'.ret \in {"cleanup", "open"}
    <3>1. CASE CleanupCommit \/ ReconcileLoad
      BY <3>1 DEF CleanupCommit, ReconcileLoad, CallDrain, NoDrain
    <3>2. CASE CleanupDrained BY <3>2 DEF CleanupDrained, Return, NoDrain
    <3>4. CASE OpenDrained
      <4>1. PICK c : IF c = 0 THEN Return("openLoad") ELSE CallDrain("open", c) BY <3>4 DEF OpenDrained
      <4>2. CASE c = 0 BY <4>1, <4>2 DEF Return, NoDrain
      <4>3. CASE c # 0 BY <4>1, <4>3 DEF CallDrain, NoDrain
      <4> QED BY <4>2, <4>3
    <3>3. CASE CleanupSelect \/ CleanupDelete \/ Boot \/ Migrate \/ NormalizeStoredRecipients
               \/ ReconcileOrphan \/ OpenLoad
      BY <3>3 DEF CleanupSelect, CleanupDelete, Boot, Migrate, Unmigrated,
         NormalizeStoredRecipients, ReconcileOrphan, OpenLoad, DrainLabels
    <3> QED BY <1>6, <3>1, <3>2, <3>3, <3>4
  <2>3. ~Busy BY <2>1 DEF Busy, Calls, DrainLabels
  <2>4. ~Busy' BY <2>2 DEF Busy, Calls, DrainLabels
  <2>5. pc' \notin DrainLabels => dr'.ret = "none" BY <2>2 DEF Handling, DrainLabels
  <2> QED BY <2>1, <2>3, <2>4, <2>5 DEF Handling
<1>7. CASE ReconcileCheck \/ CleanupTxFails \/ CleanupDrainFailed \/ StartupFails \/ Stop \/ PowerLoss
  <2>1. CASE \E reason : Halt(reason)
    <3>1. pc' = "free" /\ sv' = NoSave /\ dr' = NoDrain BY <2>1 DEF Halt
    <3> QED BY <3>1 DEF Handling, Busy, Calls, DrainLabels, NoSave, NoDrain
  <2>2. CASE ~\E reason : Halt(reason)
    <3>1. /\ pc \in {"reconcile", "cleanDelete"} \/ (pc = "drained" /\ dr.ret = "cleanup")
          /\ UNCHANGED sv
      BY <1>7, <2>2 DEF ReconcileCheck, CleanupTxFails, CleanupDrainFailed, StartupFails, Stop, PowerLoss,
         CleanupError, Fatal
    <3>2. \/ pc' = "free" /\ dr'.ret = "none"
          \/ pc' = "scan" /\ UNCHANGED dr /\ pc \notin DrainLabels
      BY <1>7, <2>2 DEF ReconcileCheck, CleanupTxFails, CleanupDrainFailed, StartupFails, Stop, PowerLoss,
         CleanupError, Fatal, Return, NoDrain, DrainLabels
    <3>3. ~Busy /\ ~Busy' BY <3>1, <3>2 DEF Busy, Calls, DrainLabels
    <3>4. dr'.ret = "none" BY <3>2 DEF Handling
    <3> QED BY <3>1, <3>3, <3>4 DEF Handling
  <2> QED BY <2>1, <2>2
<1> QED BY <1>1, <1>2, <1>3, <1>4, <1>5, <1>6, <1>7 DEF Next, Save, Cleanup, OpenStore

\* Rows enter the tables in canonical form, or are folded before the store opens.
LEMMA CanonStep ==
  ASSUME StoreInv, TxInv, Handling, Canon, [Next]_vars
  PROVE  Canon'
<1>1. CASE SaveCommit
  <2>1. pc = "saveEvict" /\ db' = tx BY <1>1 DEF SaveCommit
  <2>2. mode # "down" BY <2>1 DEF StoreInv, Unmigrated
  <2>3. \A i \in DOMAIN db.messages : Folded(db.messages[i].rcpt) BY <2>1, <2>2 DEF Canon
  <2>4. \A i \in Evictable : Folded(tx.messages[i].rcpt) BY <2>1, <2>3 DEF TxInv, TxEvicts
  <2>5. ASSUME NEW i \in Referrers(tx, sv.blob) PROVE Folded(tx.messages[i].rcpt)
    <3>1. Delivered(tx) BY <2>1 DEF TxInv, TxEvicts
    <3>2. PICK a \in DOMAIN sv.rank : i = <<sv.blob, a>> BY <3>1 DEF Delivered
    <3>3. tx.messages[i].rcpt = a BY <3>1, <3>2 DEF Delivered
    <3> QED BY <2>1, <3>3 DEF Handling, Busy
  <2>6. \A i \in DOMAIN tx.messages : i \in Evictable \/ i \in Referrers(tx, sv.blob)
    BY DEF Evictable, Referrers
  <2> QED BY <2>1, <2>4, <2>5, <2>6 DEF Canon
<1>2. CASE CleanupCommit
  <2>1. pc = "cleanDelete" /\ db' = tx BY <1>2 DEF CleanupCommit
  <2>2. mode # "down" BY <2>1 DEF StoreInv, Unmigrated
  <2> QED BY <2>1, <2>2 DEF Canon, TxInv, TxCleans
<1>3. CASE Migrate BY <1>3 DEF Migrate, Canon
<1>4. CASE NormalizeStoredRecipients
  <2>1. db'.messages = [i \in DOMAIN db.messages |-> Canonical(db.messages[i])]
    BY <1>4 DEF NormalizeStoredRecipients, StoreInv, TypeOK, TypeTables, IsDatabase
  <2>2. ASSUME NEW i \in DOMAIN db.messages PROVE Folded(Canonical(db.messages[i]).rcpt)
    <3>1. db.messages[i] \in Row BY DEF StoreInv, TypeOK, TypeTables, IsDatabase, IsTable
    <3>2. Canonical(db.messages[i]).rcpt = normalizeRecipient(db.messages[i].rcpt)
      BY <3>1 DEF Canonical, Row
    <3>3. normalizeRecipient(normalizeRecipient(db.messages[i].rcpt)) = normalizeRecipient(db.messages[i].rcpt)
      BY DEF normalizeRecipient
    <3> QED BY <3>2, <3>3 DEF Folded
  <2> QED BY <2>1, <2>2 DEF Canon
<1>5. CASE ~SaveCommit /\ ~CleanupCommit /\ ~Migrate /\ ~NormalizeStoredRecipients
  <2>1. db'.messages = db.messages BY <1>5, QueueOnly, Unwritten
  <2>2. mode' = "down" \/ pc' = "migrate" \/ (mode # "down" /\ pc \notin {"migrate", "normalize"})
        \/ UNCHANGED <<mode, pc>>
    <3>1. CASE Drain
      BY <3>1 DEF Drain, DrainSelect, DrainUnlink, DrainSync, DrainCommit, DrainFails, StoreInv, Unmigrated
    <3>2. CASE Save
      BY <3>2 DEF Save, SaveBegin, SaveDrained, SaveAdmit, SaveRefused, SaveWrite, SaveWriteFails,
         SaveRename, SaveRenameFails, SaveSync, SaveTxFails, SavePostDrained, SaveCommit, SaveRemoveTmp,
         SaveRemoveTmpFails, SaveReturn, DiscardFails, Discard, DiscardLoad, DiscardLoadFails,
         SaveInsert, SaveEvict, StoreInv, Unmigrated
    <3>3. CASE Cleanup
      BY <3>3 DEF Cleanup, CleanupBegin, CleanupSelect, CleanupDelete, CleanupTxFails, CleanupCommit,
         CleanupDrained, CleanupDrainFailed, StoreInv, Unmigrated, proc
    <3>4. CASE OpenStore
      BY <1>5, <3>4 DEF OpenStore, Boot, ReconcileCheck, ReconcileOrphan,
         ReconcileLoad, OpenDrained, OpenLoad, StartupFails, Fatal, Halt, StoreInv, Unmigrated
    <3>5. CASE Get \/ Tick \/ ClockBack \/ UNCHANGED vars
      BY <3>5 DEF Get, RenderInbox, SelectBody, ReadRow, ReadFile, ReadError, Tick, ClockBack, vars, proc
    <3>6. CASE Stop \/ PowerLoss BY <3>6 DEF Stop, PowerLoss, Halt
    <3> QED BY <3>1, <3>2, <3>3, <3>4, <3>5, <3>6 DEF Next
  <2> QED BY <2>1, <2>2 DEF Canon
<1> QED BY <1>1, <1>2, <1>3, <1>4, <1>5

LEMMA OpenedStep == ASSUME Opened, [Next]_vars PROVE Opened'
<1>1. CASE Drain
  BY <1>1 DEF Drain, DrainSelect, DrainUnlink, DrainSync, DrainCommit, DrainFails, Opened
<1>2. CASE Save
  BY <1>2 DEF Save, SaveBegin, SaveDrained, SaveAdmit, SaveRefused, SaveWrite, SaveWriteFails,
     SaveRename, SaveRenameFails, SaveSync, SaveTxFails, SavePostDrained, SaveCommit, SaveRemoveTmp,
     SaveRemoveTmpFails, SaveReturn, DiscardFails, Discard, DiscardLoad, DiscardLoadFails,
     SaveInsert, SaveEvict, CallDrain, Return, Opened
<1>3. CASE Cleanup
  BY <1>3 DEF Cleanup, CleanupBegin, CleanupSelect, CleanupDelete, CleanupTxFails, CleanupCommit,
     CleanupDrained, CleanupDrainFailed, CleanupError, Fatal, Halt, CallDrain, Return, proc, Opened
<1>4. CASE OpenStore
  BY <1>4 DEF OpenStore, Boot, Migrate, NormalizeStoredRecipients, ReconcileCheck, ReconcileOrphan,
     ReconcileLoad, OpenDrained, OpenLoad, StartupFails, Fatal, Halt, CallDrain, Return, proc, Opened
<1>5. CASE Get \/ Tick \/ ClockBack \/ UNCHANGED vars
  BY <1>5 DEF Get, RenderInbox, SelectBody, ReadRow, ReadFile, ReadError, Tick, ClockBack, vars, proc, Opened
<1>6. CASE Stop \/ PowerLoss BY <1>6 DEF Stop, PowerLoss, Halt, Opened
<1> QED BY <1>1, <1>2, <1>3, <1>4, <1>5, <1>6 DEF Next

\* Once its names are drawn, Save's locals are altered only by the transaction.
LEMMA StagingKept ==
  ASSUME [Next]_vars, ~Get, ~SaveAdmit, ~SaveInsert, ~SaveEvict, Staging'
  PROVE  Staging /\ sv' = sv
<1>1. CASE Drain
  BY <1>1 DEF Drain, DrainSelect, DrainUnlink, DrainSync, DrainCommit, DrainFails, Staging
<1>2. CASE Save
  BY <1>2 DEF Save, SaveBegin, SaveDrained, SaveRefused, SaveWrite, SaveWriteFails,
     SaveRename, SaveRenameFails, SaveSync, SaveTxFails, SavePostDrained, SaveCommit, SaveRemoveTmp,
     SaveRemoveTmpFails, SaveReturn, DiscardFails, Discard, DiscardLoad, DiscardLoadFails,
     CallDrain, Return, Staging
<1>3. CASE Cleanup
  BY <1>3 DEF Cleanup, CleanupBegin, CleanupSelect, CleanupDelete, CleanupTxFails, CleanupCommit,
     CleanupDrained, CleanupDrainFailed, CleanupError, Fatal, Halt, CallDrain, Return, Staging
<1>4. CASE OpenStore
  BY <1>4 DEF OpenStore, Boot, Migrate, NormalizeStoredRecipients, ReconcileCheck, ReconcileOrphan,
     ReconcileLoad, OpenDrained, OpenLoad, StartupFails, Fatal, Halt, CallDrain, Return, Staging
<1>5. CASE Tick \/ ClockBack \/ UNCHANGED vars BY <1>5 DEF Tick, ClockBack, vars, Staging
<1>6. CASE Stop \/ PowerLoss BY <1>6 DEF Stop, PowerLoss, Halt, Staging
<1> QED BY <1>1, <1>2, <1>3, <1>4, <1>5, <1>6 DEF Next

LEMMA ClocksStep == ASSUME StoreInv, Clocks, [Next]_vars PROVE Clocks'
<1> SUFFICES ASSUME ~ClockMayStepBack
             PROVE  (Staging' => sv'.received <= now') /\ (cl'.active => cl'.before <= now')
  BY DEF Clocks
<1>1. now \in Nat /\ sv.received \in Nat /\ cl.before \in Nat
  BY ConstantsAssumption DEF StoreInv, TypeOK, TypeMemory, IsSave, TypeControl
<1>2. now' = now \/ now' = now + 1
  BY DEF Next, vars, env, Drain, DrainSelect, DrainUnlink, DrainSync, DrainCommit, DrainFails,
     Save, SaveBegin, SaveDrained, SaveAdmit, SaveRefused, SaveWrite, SaveWriteFails,
     SaveRename, SaveRenameFails, SaveSync, SaveTxFails, SavePostDrained, SaveCommit, SaveRemoveTmp,
     SaveRemoveTmpFails, SaveReturn, DiscardFails, Discard, DiscardLoad, DiscardLoadFails,
     SaveInsert, SaveEvict,
     Cleanup, CleanupBegin, CleanupSelect, CleanupDelete, CleanupTxFails, CleanupCommit,
     CleanupDrained, CleanupDrainFailed, CleanupError, Fatal,
     OpenStore, Boot, Migrate, NormalizeStoredRecipients, ReconcileCheck, ReconcileOrphan,
     ReconcileLoad, OpenDrained, OpenLoad, StartupFails,
     Get, RenderInbox, SelectBody, ReadRow, ReadFile, ReadError, Tick, ClockBack, Stop, PowerLoss
<1>3. Staging' => (Staging /\ sv'.received = sv.received) \/ (sv'.received = now /\ now' = now)
  <2>1. CASE SaveAdmit BY <2>1 DEF SaveAdmit, StoreInv, TypeOK, IsSave, env
  <2>2. CASE SaveInsert \/ SaveEvict
    BY <2>2 DEF SaveInsert, SaveEvict, StoreInv, TypeOK, IsSave, Staging
  <2>3. CASE Get BY <2>3 DEF Get, RenderInbox, SelectBody, ReadRow, ReadFile, ReadError, Staging
  <2>4. CASE ~SaveAdmit /\ ~SaveInsert /\ ~SaveEvict /\ ~Get
    BY <2>4, StagingKept
  <2> QED BY <2>1, <2>2, <2>3, <2>4
<1>4. cl'.active => (cl.active /\ cl'.before = cl.before) \/ (cl'.before = now /\ now' = now)
  <2>1. CASE CleanupBegin \/ OpenLoad BY <2>1 DEF CleanupBegin, OpenLoad, NoCleanup, env
  <2>2. CASE CleanupSelect \/ CleanupDelete \/ CleanupDrained
    <3> USE DEF StoreInv, TypeOK, TypeControl
    <3>1. CASE CleanupSelect BY <3>1 DEF CleanupSelect
    <3>2. CASE CleanupDelete BY <3>2 DEF CleanupDelete
    <3>3. CASE CleanupDrained BY <3>3 DEF CleanupDrained, NoCleanup
    <3> QED BY <2>2, <3>1, <3>2, <3>3
  <2>3. CASE ~CleanupBegin /\ ~OpenLoad /\ ~CleanupSelect /\ ~CleanupDelete /\ ~CleanupDrained
    <3>1. cl' = cl \/ cl' = NoCleanup
      BY <2>3 DEF Next, vars, Drain, DrainSelect, DrainUnlink, DrainSync, DrainCommit, DrainFails,
         Save, SaveBegin, SaveDrained, SaveAdmit, SaveRefused, SaveWrite, SaveWriteFails,
         SaveRename, SaveRenameFails, SaveSync, SaveTxFails, SavePostDrained, SaveCommit, SaveRemoveTmp,
         SaveRemoveTmpFails, SaveReturn, DiscardFails, Discard, DiscardLoad, DiscardLoadFails,
         SaveInsert, SaveEvict, Cleanup, CleanupTxFails, CleanupCommit,
         CleanupDrainFailed, CleanupError, Fatal, Halt,
         OpenStore, Boot, Migrate, NormalizeStoredRecipients, ReconcileCheck, ReconcileOrphan,
         ReconcileLoad, OpenDrained, StartupFails,
         Get, RenderInbox, SelectBody, ReadRow, ReadFile, ReadError, Tick, ClockBack, Stop, PowerLoss
    <3> QED BY <3>1 DEF NoCleanup
  <2> QED BY <2>1, <2>2, <2>3
<1> QED BY <1>1, <1>2, <1>3, <1>4 DEF Clocks

\* Deliveries and mailboxes between steps.
THEOREM Handled == Spec => []PromiseInv
<1>1. Init => PromiseInv
  BY DEF Init, PromiseInv, Handling, Opened, Canon, Clocks, Busy, Calls, Staging, DrainLabels, NoSave, NoDrain,
     NoCleanup
<1>2. StoreInv /\ TxInv /\ PromiseInv /\ [Next]_vars => PromiseInv'
  BY HandlingStep, OpenedStep, CanonStep, ClocksStep DEF PromiseInv
<1> QED BY <1>1, <1>2, Invariance, Transactions, PTL DEF Spec

-----------------------------------------------------------------------------
(* Paging. *)

\* A position lies on one page, and every page before it is full.
LEMMA PageOf ==
  ASSUME NEW P \in Nat \ {0}, NEW c \in Nat, NEW n \in Nat, c < n
  PROVE  \E k \in 0 .. n :
           /\ \A j \in 0 .. n : c \in j * P .. j * P + P - 1 <=> j = k
           /\ \A j \in 0 .. k - 1 : j * P + P <= c
<1> DEFINE k == c \div P
           m == c % P
<1>1. P \in Nat /\ P > 0 OBVIOUS
<1>2. k \in Nat /\ m \in 0 .. P - 1 /\ c = P * k + m BY <1>1
<1> HIDE DEF k, m
<1>3. k * P <= c /\ c <= k * P + P - 1 BY <1>1, <1>2
<1>4. k <= c
  <2>1. k * 1 <= k * P BY <1>1, <1>2
  <2> QED BY <1>1, <1>2, <1>3, <2>1
<1>5. \A j \in Nat : j * P \in Nat /\ (j < k => j * P + P <= k * P) /\ (k < j => k * P + P <= j * P)
  BY <1>1, <1>2
<1>6. k * P \in Nat BY <1>1, <1>2
<1>7. ASSUME NEW j \in 0 .. n PROVE c \in j * P .. j * P + P - 1 <=> j = k
  <2>1. j \in Nat BY <1>7
  <2>2. j * P \in Nat /\ (j < k => j * P + P <= k * P) /\ (k < j => k * P + P <= j * P) BY <2>1, <1>5
  <2> DEFINE x == j * P
             y == k * P
  <2>3. x \in Nat /\ y \in Nat /\ (j < k => x + P <= y) /\ (k < j => y + P <= x) /\ (j = k => x = y)
        /\ y <= c /\ c <= y + P - 1
    BY <2>2, <1>3, <1>6
  <2> HIDE DEF x, y
  <2>4. c \in x .. x + P - 1 <=> j = k BY <1>1, <1>2, <2>1, <2>3
  <2> QED BY <2>4 DEF x
<1>8. ASSUME NEW j \in 0 .. k - 1 PROVE j * P + P <= c
  <2>1. j \in Nat /\ j < k BY <1>2, <1>8
  <2> QED BY <1>1, <1>3, <1>5, <1>6, <2>1
<1>9. k \in 0 .. n BY <1>2, <1>4
<1>10. \A j \in 0 .. n : c \in j * P .. j * P + P - 1 <=> j = k BY <1>7
<1>11. \A j \in 0 .. k - 1 : j * P + P <= c BY <1>8
<1> QED BY <1>9, <1>10, <1>11, Zenon

\* Every unexpired message is on exactly one page of its mailbox, and hasMore
\* leads there from the first: nothing hides a message from its reader.
THEOREM Listing == Spec => []MailIsListed
<1>1. StoreInv /\ PromiseInv => MailIsListed
  <2> SUFFICES ASSUME StoreInv, PromiseInv, mode = "serving",
                      NEW i \in DOMAIN db.messages, NEW d \in Domains, db.messages[i].expires > now,
                      NEW a, a = [db.messages[i].rcpt EXCEPT !.domain = d],
                      NEW pages, pages = {k \in 0 .. Cardinality(DOMAIN db.messages) : i \in Page(a, k * PageSize)}
               PROVE  /\ Cardinality(pages) = 1
                      /\ \A k \in pages : \A p \in 0 .. k - 1 : HasMore(a, p * PageSize)
    BY DEF MailIsListed
  <2> DEFINE N == Cardinality(DOMAIN db.messages)
             L == Listed(a)
             J == {j \in L : Newer(j, i)}
             c == Cardinality(J)
             n == Cardinality(L)
  <2>1. pc \notin {"migrate", "normalize"} BY DEF PromiseInv, Opened
  <2>2. Folded(db.messages[i].rcpt) BY <2>1 DEF PromiseInv, Canon
  <2>3. normalizeRecipient(a) = db.messages[i].rcpt
    <3>1. db.messages[i].rcpt \in Address BY DEF StoreInv, TypeOK, TypeTables, IsDatabase, IsTable, Row
    <3> QED BY <2>2, <3>1 DEF Folded, normalizeRecipient, Address
  <2>4. i \in L BY <2>3 DEF Listed
  <2>5. IsFiniteSet(DOMAIN db.messages) /\ N \in Nat
    BY FS_CardinalityType DEF StoreInv, TypeOK, TypeTables, IsDatabase, IsTable
  <2>6. IsFiniteSet(L) /\ n <= N /\ n \in Nat
    <3>1. L \in SUBSET DOMAIN db.messages BY DEF Listed
    <3> QED BY <2>5, <3>1, FS_Subset, FS_CardinalityType
  <2>7. c \in Nat /\ c < n
    <3>1. i \notin J
      <4>1. db.messages[i].received \in Nat /\ db.messages[i].rowid \in Nat
        BY DEF StoreInv, TypeOK, TypeTables, IsDatabase, IsTable, Row
      <4> QED BY <4>1 DEF Newer
    <3>2. J \in SUBSET (L \ {i}) BY <3>1
    <3>3. IsFiniteSet(L \ {i}) /\ Cardinality(L \ {i}) = n - 1 BY <2>4, <2>6, FS_RemoveElement
    <3>4. c <= n - 1 /\ IsFiniteSet(J) BY <3>2, <3>3, FS_Subset
    <3>5. c \in Nat BY <3>4, FS_CardinalityType
    <3> HIDE DEF c, n
    <3> QED BY <2>6, <3>4, <3>5
  <2>8. \A k \in 0 .. N : k \in pages <=> c \in k * PageSize .. k * PageSize + PageSize - 1
    BY <2>4 DEF Page
  <2>9. \A p : HasMore(a, p * PageSize) <=> n > p * PageSize + PageSize BY DEF HasMore
  <2>10. PageSize \in Nat \ {0} BY ConstantsAssumption
  <2>11. pages \subseteq 0 .. N OBVIOUS
  <2> HIDE DEF N, c, n
  <2>12. c < N BY <2>5, <2>6, <2>7
  <2>13. PICK k \in 0 .. N :
           /\ \A j \in 0 .. N : c \in j * PageSize .. j * PageSize + PageSize - 1 <=> j = k
           /\ \A j \in 0 .. k - 1 : j * PageSize + PageSize <= c
    BY ONLY <2>5, <2>7, <2>10, <2>12, PageOf
  <2>14. pages = {k} BY <2>8, <2>11, <2>13
  <2>15. Cardinality(pages) = 1 BY <2>14, FS_Singleton
  <2>16. ASSUME NEW p \in 0 .. k - 1 PROVE HasMore(a, p * PageSize)
    <3>1. p * PageSize + PageSize <= c BY <2>13, <2>16
    <3>2. p \in Nat BY <2>5, <2>13, <2>16
    <3>3. p * PageSize \in Nat BY <3>2, <2>10
    <3>4. n > p * PageSize + PageSize BY <2>6, <2>7, <2>10, <3>1, <3>3
    <3> QED BY <2>9, <3>4
  <2> QED BY <2>14, <2>15, <2>16
<1> QED BY <1>1, Invariance, Handled, PTL

-----------------------------------------------------------------------------
(* MailStore implements Mailbox. *)

\* The instance brings its own copies of the operators of FiniteSets.
LEMMA SameCount ==
  ASSUME NEW S
  PROVE  Promise!Cardinality(S) = Cardinality(S) /\ (Promise!IsFiniteSet(S) <=> IsFiniteSet(S))
BY DEF Promise!Cardinality, Cardinality, Promise!IsFiniteSet, IsFiniteSet

\* A body is counted once, at most with the bytes of its blob.
LEMMA LiveBytesOf ==
  ASSUME NEW d, IsDatabase(d), IntactDB(d), NEW v, DOMAIN v = DOMAIN d.messages,
         \A i \in DOMAIN v : v[i].blob = d.messages[i].blob /\ v[i].size = d.messages[i].size
  PROVE  Promise!LiveBytes(v) \in Nat /\ Promise!LiveBytes(v) <= Bytes(d.blobs)
<1>0. Promise!LiveBytes(v) = Cardinality(UNION {{e} \X (1 .. e[2]) : e \in Promise!Bodies(v)})
  BY SameCount DEF Promise!LiveBytes
<1> DEFINE B == Promise!Bodies(v)
           C == UNION {{e} \X (1 .. e[2]) : e \in B}
           g == [c \in C |-> <<c[1][1], c[2]>>]
           T == Cells(d.blobs)
<1>1. IsTable(d.blobs, BlobPaths, Nat) BY DEF IsDatabase
<1>2. /\ IsFiniteSet(T) /\ Bytes(d.blobs) = Cardinality(T)
      /\ \A c : c \in T <=> \E x \in DOMAIN d.blobs : \E k \in 1 .. d.blobs[x] : c = <<x, k>>
  BY <1>1, CellsOf
<1>3. \A e \in B : \E x \in DOMAIN d.blobs : e = <<x, d.blobs[x]>>
  BY DEF Promise!Bodies, IntactDB
<1> HIDE DEF B, T
<1>4. \A c \in C : \E e \in B : \E k \in 1 .. e[2] : c = <<e, k>> OBVIOUS
<1>5. \A c \in C : \E x \in DOMAIN d.blobs : \E k \in 1 .. d.blobs[x] : c = <<<<x, d.blobs[x]>>, k>>
  BY <1>3, <1>4
<1> HIDE DEF C
<1>6. g \in [C -> T] BY <1>2, <1>5
<1>7. ASSUME NEW a \in C, NEW b \in C, g[a] = g[b] PROVE a = b
  <2>1. PICK x \in DOMAIN d.blobs : \E k \in 1 .. d.blobs[x] : a = <<<<x, d.blobs[x]>>, k>> BY <1>5
  <2>2. PICK y \in DOMAIN d.blobs : \E k \in 1 .. d.blobs[y] : b = <<<<y, d.blobs[y]>>, k>> BY <1>5
  <2>3. PICK k : a = <<<<x, d.blobs[x]>>, k>> BY <2>1
  <2>4. PICK l : b = <<<<y, d.blobs[y]>>, l>> BY <2>2
  <2>5. g[a] = <<x, k>> /\ g[b] = <<y, l>> BY <2>3, <2>4
  <2> QED BY <1>7, <2>3, <2>4, <2>5
<1>8. g \in Injection(C, T) BY <1>6, <1>7 DEF Injection, IsInjective
<1>9. Cardinality(C) \in Nat /\ Cardinality(C) <= Cardinality(T)
  BY <1>2, <1>8, FS_Injection, FS_CardinalityType
<1>10. Promise!LiveBytes(v) = Cardinality(C) BY <1>0 DEF B, C
<1> QED BY <1>2, <1>9, <1>10

\* What the delivery under way is seen as.
AnswerIs ==
  /\ ~Busy => AnswerView = "none"
  /\ Waiting \/ Staging => AnswerView = "working"
  /\ Calls("savePost") \/ (pc = "saveReturn" /\ ~sv.err) => AnswerView = "accepted"
  /\ pc \in {"saveRemoveTmp", "discard", "discardLoad"} \/ Calls("discard")
       \/ (pc = "saveReturn" /\ sv.err) => AnswerView = "refused"

LEMMA AnswerSeen ==
  ASSUME StoreInv, StoreInv', PromiseInv, PromiseInv', Answering, Answering'
  PROVE  AnswerIs /\ AnswerIs'
<1>1. AnswerIs
  <2>2. ~Busy => AnswerView = "none" BY DEF PromiseInv, Handling, AnswerView, Empty
  <2>3. Busy => DOMAIN sv.rank # {} BY DEF PromiseInv, Handling
  <2>4. Waiting \/ Staging => AnswerView = "working"
    <3>1. Waiting \/ Staging => Busy /\ ~sv.err /\ dr.ret # "savePost" /\ pc # "saveReturn"
      BY DEF Waiting, Staging, Busy, Calls, DrainLabels, Answering, PromiseInv, Handling
    <3> QED BY <2>3, <3>1 DEF AnswerView
  <2>5. Calls("savePost") \/ (pc = "saveReturn" /\ ~sv.err) => AnswerView = "accepted"
    <3>1. Calls("savePost") \/ (pc = "saveReturn" /\ ~sv.err) =>
            Busy /\ ~sv.err /\ (dr.ret = "savePost" \/ pc = "saveReturn")
      BY DEF Busy, Calls, Answering
    <3> QED BY <2>3, <3>1 DEF AnswerView
  <2>6. pc \in {"saveRemoveTmp", "discard", "discardLoad"} \/ Calls("discard")
          \/ (pc = "saveReturn" /\ sv.err) => AnswerView = "refused"
    <3>1. pc \in {"saveRemoveTmp", "discard", "discardLoad"} \/ Calls("discard")
            \/ (pc = "saveReturn" /\ sv.err) => Busy /\ sv.err
      BY DEF Busy, Calls, Answering
    <3> QED BY <2>3, <3>1 DEF AnswerView
  <2> QED BY <2>2, <2>4, <2>5, <2>6 DEF AnswerIs
<1>2. AnswerIs'
  <2>2. (~Busy => AnswerView = "none")' BY DEF PromiseInv, Handling, AnswerView, Empty
  <2>3. (Busy => DOMAIN sv.rank # {})' BY DEF PromiseInv, Handling
  <2>4. (Waiting \/ Staging => AnswerView = "working")'
    <3>1. (Waiting \/ Staging => Busy /\ ~sv.err /\ dr.ret # "savePost" /\ pc # "saveReturn")'
      BY DEF Waiting, Staging, Busy, Calls, DrainLabels, Answering, PromiseInv, Handling
    <3> QED BY <2>3, <3>1 DEF AnswerView
  <2>5. (Calls("savePost") \/ (pc = "saveReturn" /\ ~sv.err) => AnswerView = "accepted")'
    <3>1. (Calls("savePost") \/ (pc = "saveReturn" /\ ~sv.err) =>
            Busy /\ ~sv.err /\ (dr.ret = "savePost" \/ pc = "saveReturn"))'
      BY DEF Busy, Calls, Answering
    <3> QED BY <2>3, <3>1 DEF AnswerView
  <2>6. (pc \in {"saveRemoveTmp", "discard", "discardLoad"} \/ Calls("discard")
          \/ (pc = "saveReturn" /\ sv.err) => AnswerView = "refused")'
    <3>1. (pc \in {"saveRemoveTmp", "discard", "discardLoad"} \/ Calls("discard")
            \/ (pc = "saveReturn" /\ sv.err) => Busy /\ sv.err)'
      BY DEF Busy, Calls, Answering
    <3> QED BY <2>3, <3>1 DEF AnswerView
  <2> QED BY <2>2, <2>4, <2>5, <2>6 DEF AnswerIs
<1> QED BY <1>1, <1>2

LEMMA InitRefines == ASSUME Init PROVE Promise!MailInit
<1>1. StoreInv BY InitInv
<1>2. DOMAIN MailView = DOMAIN db.messages BY DEF MailView
<1>3. IsFiniteSet(DOMAIN MailView) BY <1>1, <1>2 DEF StoreInv, TypeOK, TypeTables, IsDatabase, IsTable
<1>4. DOMAIN sv.rank = {} BY DEF Init, NoSave, Empty
<1>5. AnswerView = "none" BY <1>4 DEF AnswerView
<1> QED BY <1>3, <1>5, SameCount DEF Init, Promise!MailInit

\* Rows of the messages table as the mailbox shows them.
SameAs(v, m) ==
  /\ v.rcpt = m.rcpt /\ v.blob = m.blob /\ v.size = m.size
  /\ v.received = m.received /\ v.expires = m.expires
LEMMA SeenMail ==
  /\ DOMAIN MailView' = DOMAIN db'.messages /\ DOMAIN MailView = DOMAIN db.messages
  /\ \A i \in DOMAIN db.messages : SameAs(MailView[i], db.messages[i])
  /\ \A i \in DOMAIN db'.messages : SameAs(MailView'[i], db'.messages[i])
  /\ \A i \in DOMAIN db.messages \cap DOMAIN db'.messages :
       db'.messages[i] = db.messages[i] => MailView'[i] = MailView[i]
  /\ db'.messages = db.messages => MailView' = MailView
BY DEF MailView, SameAs

\* The commit of Save accepts the delivery for all its recipients at once.
LEMMA CommitAccepts ==
  ASSUME StoreInv, StoreInv', TxInv, TxTotals, PromiseInv, AnswerIs, AnswerIs', ~ClockMayStepBack, SaveCommit
  PROVE  Promise!Accept
<1>1. /\ pc = "saveEvict" /\ db' = tx /\ sv.projected <= MaxStorageBytes /\ sv' = sv /\ now' = now
      /\ pc' = "drainSelect" /\ dr'.ret = "savePost"
  BY DEF SaveCommit, CallDrain, NoDrain, env
<1>2. AnswerView = "working" /\ AnswerView' = "accepted"
  BY <1>1 DEF AnswerIs, Staging, Calls, DrainLabels
<1>3. TxEvicts /\ IntactDB(tx) /\ IsDatabase(tx) /\ IntactDB(db) /\ sv.blob \notin DOMAIN db.blobs
  BY <1>1 DEF TxInv, StoreInv, InTx, TypeOK, TypeTables, ReferencesIntact, Unmigrated, Staged
<1> DEFINE new == DOMAIN tx.messages \ DOMAIN db.messages
           R == {<<sv.blob, a>> : a \in DOMAIN sv.rank}
<1>4. R = Referrers(tx, sv.blob) BY <1>3 DEF TxEvicts, Delivered
<1>5. \A i \in R : i \in DOMAIN tx.messages /\ i \notin DOMAIN db.messages
  BY <1>3, <1>4 DEF Referrers, IntactDB
<1>6. \A i \in DOMAIN tx.messages : i \in R \/ i \in Evictable BY <1>4 DEF Evictable, Referrers
<1>7. \A i \in Evictable : i \in DOMAIN db.messages /\ tx.messages[i] = db.messages[i]
  BY <1>3 DEF TxEvicts
<1>8. new = R BY <1>5, <1>6, <1>7
<1>9. \A j \in DOMAIN tx.messages : tx.messages[j].blob = sv.blob <=> j \in new
  BY <1>4, <1>8 DEF Referrers
<1>10. DOMAIN sv.rank # {} /\ \A a \in DOMAIN sv.rank : Folded(a)
  BY <1>1 DEF PromiseInv, Handling, Busy
<1>11. sv.received <= now BY <1>1 DEF PromiseInv, Clocks, Staging
<1>12. ASSUME NEW i \in new
       PROVE  /\ i = <<sv.blob, tx.messages[i].rcpt>> /\ Folded(tx.messages[i].rcpt)
              /\ tx.messages[i].blob = sv.blob /\ tx.messages[i].received = sv.received
              /\ tx.messages[i].expires = sv.received + MessageTTL
  <2>1. PICK a \in DOMAIN sv.rank : i = <<sv.blob, a>> BY <1>8
  <2>2. i \in Referrers(tx, sv.blob) BY <1>4, <1>8
  <2>3. /\ tx.messages[i].rcpt = i[2] /\ tx.messages[i].received = sv.received
        /\ tx.messages[i].expires = sv.received + MessageTTL
    BY <1>3, <2>2 DEF TxEvicts, Delivered
  <2>4. tx.messages[i].blob = sv.blob BY <2>2 DEF Referrers
  <2> QED BY <1>10, <2>1, <2>3, <2>4
<1>13. Promise!LiveBytes(MailView') <= MaxStorageBytes
  <2>1. Promise!LiveBytes(MailView') \in Nat /\ Promise!LiveBytes(MailView') <= Bytes(tx.blobs)
    <3>1. /\ DOMAIN MailView' = DOMAIN tx.messages
          /\ \A i \in DOMAIN MailView' : /\ MailView'[i].blob = tx.messages[i].blob
                                         /\ MailView'[i].size = tx.messages[i].size
      BY <1>1, SeenMail DEF SameAs
    <3> QED BY <1>3, <3>1, LiveBytesOf
  <2>2. sv.projected = Bytes(tx.blobs) + Bytes(db.pending) BY <1>1 DEF TxTotals
  <2>4. MaxStorageBytes \in Int BY ConstantsAssumption
  <2> QED BY <1>1, <2>1, <2>2, <2>4, UsageNumbers
<1>14. DOMAIN MailView' \ DOMAIN MailView = new BY <1>1, SeenMail
<1>15. new # {} BY <1>8, <1>10
<1> HIDE DEF new, R
<1>16. \A i \in DOMAIN MailView' \cap DOMAIN MailView : MailView'[i] = MailView[i]
  BY <1>1, <1>5, <1>6, <1>7, SeenMail
<1>17. ASSUME NEW i \in new
       PROVE  /\ MailView'[i].rcpt = normalizeRecipient(MailView'[i].rcpt)
              /\ MailView'[i].expires = MailView'[i].received + MessageTTL
              /\ MailView'[i].received <= now
              /\ \A j \in DOMAIN MailView' : MailView'[j].blob = MailView'[i].blob <=> j \in new
              /\ \A j \in new : MailView'[j].rcpt = MailView'[i].rcpt => i = j
  <2>1. new \subseteq DOMAIN tx.messages BY DEF new
  <2>2. \A j \in DOMAIN tx.messages : SameAs(MailView'[j], tx.messages[j]) BY <1>1, SeenMail
  <2>3. MailView'[i].rcpt = normalizeRecipient(MailView'[i].rcpt)
    BY <1>12, <2>1, <2>2 DEF Folded, SameAs
  <2>4. MailView'[i].expires = MailView'[i].received + MessageTTL /\ MailView'[i].received <= now
    BY <1>11, <1>12, <2>1, <2>2 DEF SameAs
  <2>5. \A j \in DOMAIN MailView' : MailView'[j].blob = MailView'[i].blob <=> j \in new
    BY <1>1, <1>9, <1>12, <2>1, <2>2, SeenMail DEF SameAs
  <2>6. \A j \in new : MailView'[j].rcpt = MailView'[i].rcpt => i = j
    BY <1>12, <2>1, <2>2 DEF SameAs
  <2> QED BY <2>3, <2>4, <2>5, <2>6
<1> QED BY <1>1, <1>2, <1>13, <1>14, <1>15, <1>16, <1>17 DEF Promise!Accept

\* Cleanup deletes what has expired and nothing else.
LEMMA CommitExpires ==
  ASSUME StoreInv, TxInv, PromiseInv, AnswerIs, AnswerIs', ~ClockMayStepBack, CleanupCommit
  PROVE  Promise!Expire
<1>1. /\ pc = "cleanDelete" /\ db' = tx /\ now' = now
      /\ pc' = "drainSelect" /\ dr'.ret = "cleanup"
  BY DEF CleanupCommit, CallDrain, NoDrain, env
<1>2. AnswerView' = AnswerView BY <1>1 DEF AnswerIs, Busy, Calls, DrainLabels
<1>3. TxCleans BY <1>1 DEF TxInv
<1>4. DOMAIN MailView' \subseteq DOMAIN MailView BY <1>1, <1>3, SeenMail DEF TxCleans
<1>5. \A i \in DOMAIN MailView' : MailView'[i] = MailView[i] BY <1>1, <1>3, SeenMail DEF TxCleans
<1>6. ASSUME NEW i \in DOMAIN MailView \ DOMAIN MailView' PROVE MailView[i].expires <= now
  <2>1. i \in DOMAIN db.messages \ DOMAIN tx.messages BY <1>1, SeenMail
  <2>2. db.messages[i].expires <= cl.before /\ cl.before <= now
    BY <1>3, <2>1 DEF TxCleans, PromiseInv, Clocks
  <2>3. db.messages[i].expires \in Nat /\ cl.before \in Nat /\ now \in Nat
    BY <2>1, ConstantsAssumption
       DEF StoreInv, TypeOK, TypeTables, IsDatabase, IsTable, Row, TypeControl, TypeMemory
  <2>4. MailView[i].expires = db.messages[i].expires BY <2>1, SeenMail DEF SameAs
  <2> QED BY <2>2, <2>3, <2>4
<1> QED BY <1>1, <1>2, <1>4, <1>5, <1>6 DEF Promise!Expire

\* Start-up folds the addresses of older versions, for readers a restart.
LEMMA NormalizeRestarts ==
  ASSUME StoreInv, AnswerIs', NormalizeStoredRecipients
  PROVE  Promise!Restart
<1>1. pc' = "reconcile" /\ now' = now
      /\ db' = [db EXCEPT !.messages = [i \in DOMAIN db.messages |-> Canonical(db.messages[i])]]
  BY DEF NormalizeStoredRecipients, env
<1>2. db'.messages = [i \in DOMAIN db.messages |-> Canonical(db.messages[i])]
  BY <1>1 DEF StoreInv, TypeOK, TypeTables, IsDatabase
<1>3. AnswerView' = "none" BY <1>1 DEF AnswerIs, Busy, Calls, DrainLabels
<1> DEFINE F == [i \in DOMAIN MailView |-> [MailView[i] EXCEPT !.rcpt = normalizeRecipient(@)]]
<1>4. ASSUME NEW i \in DOMAIN db.messages PROVE MailView'[i] = F[i]
  <2>1. db.messages[i] \in Row BY DEF StoreInv, TypeOK, TypeTables, IsDatabase, IsTable
  <2>2. /\ db'.messages[i].rcpt = normalizeRecipient(db.messages[i].rcpt)
        /\ db'.messages[i].blob = db.messages[i].blob /\ db'.messages[i].size = db.messages[i].size
        /\ db'.messages[i].received = db.messages[i].received
        /\ db'.messages[i].expires = db.messages[i].expires
    BY <1>2, <2>1 DEF Canonical, Row
  <2>3. MailView'[i] = [rcpt |-> normalizeRecipient(db.messages[i].rcpt), blob |-> db.messages[i].blob,
                        size |-> db.messages[i].size, received |-> db.messages[i].received,
                        expires |-> db.messages[i].expires]
    BY <1>2, <2>2 DEF MailView
  <2>4. MailView[i] = [rcpt |-> db.messages[i].rcpt, blob |-> db.messages[i].blob,
                       size |-> db.messages[i].size, received |-> db.messages[i].received,
                       expires |-> db.messages[i].expires]
    BY DEF MailView
  <2>5. i \in DOMAIN MailView BY SeenMail
  <2>6. F[i] = [MailView[i] EXCEPT !.rcpt = normalizeRecipient(MailView[i].rcpt)] BY <2>5
  <2> HIDE DEF F
  <2> QED BY <2>3, <2>4, <2>6
<1>5. DOMAIN MailView' = DOMAIN F BY <1>2, SeenMail
<1>6. MailView' = F
  <2>1. MailView' = [i \in DOMAIN MailView' |-> MailView'[i]] BY DEF MailView
  <2>2. DOMAIN F = DOMAIN db.messages BY SeenMail
  <2> QED BY <1>4, <1>5, <2>1, <2>2
<1> HIDE DEF F
<1> QED BY <1>1, <1>3, <1>6 DEF Promise!Restart, F

\* A step after which no delivery is under way, with the mail untouched.
LEMMA IdleRestarts ==
  ASSUME AnswerIs', ~Busy', db'.messages = db.messages, now' = now
  PROVE  Promise!Restart
BY SeenMail DEF AnswerIs, Promise!Restart

\* The steps of Save.
LEMMA SaveRefines ==
  ASSUME StoreInv, StoreInv', TxInv, TxTotals, PromiseInv, Answering, AnswerIs, AnswerIs',
         ~ClockMayStepBack, Save
  PROVE  [Promise!MailNext]_(Promise!mailVars)
<1>1. CASE SaveCommit
  <2>1. Promise!Accept BY <1>1, CommitAccepts
  <2> QED BY <2>1 DEF Promise!MailNext
<1>2. CASE ~SaveCommit
  <2>1. MailView' = MailView
    <3>1. db'.messages = db.messages
      <4>1. CASE Discard BY <4>1, QueueOnly
      <4>2. CASE ~Discard
        BY <1>2, <4>2 DEF Save, SaveBegin, SaveDrained, SaveAdmit, SaveRefused, SaveWrite, SaveWriteFails,
           SaveRename, SaveRenameFails, SaveSync, SaveTxFails, RollBack, SavePostDrained, SaveRemoveTmp,
           SaveRemoveTmpFails, SaveReturn, DiscardFails, DiscardLoad, DiscardLoadFails,
           SaveInsert, SaveEvict
      <4> QED BY <4>1, <4>2
    <3> QED BY <3>1, SeenMail
  <2>2. now' = now
    BY DEF Save, SaveBegin, SaveDrained, SaveAdmit, SaveRefused, SaveWrite, SaveWriteFails,
       SaveRename, SaveRenameFails, SaveSync, SaveTxFails, SavePostDrained, SaveRemoveTmp,
       SaveRemoveTmpFails, SaveReturn, Discard, DiscardFails, DiscardLoad, DiscardLoadFails,
       SaveInsert, SaveEvict, SaveCommit, env
  <2>3. CASE SaveBegin
    <3>1. pc = "free" /\ pc' = "drainSelect" /\ dr'.ret = "savePre"
      BY <2>3 DEF SaveBegin, CallDrain, NoDrain
    <3>2. AnswerView = "none" /\ AnswerView' = "working"
      BY <3>1 DEF AnswerIs, Busy, Calls, DrainLabels, Waiting
    <3> QED BY <2>1, <2>2, <3>2 DEF Promise!Request, Promise!MailNext
  <2>4. CASE SaveRefused \/ SaveWriteFails \/ SaveRenameFails \/ SaveTxFails
    <3>1. Waiting \/ Staging
      BY <2>4 DEF SaveRefused, SaveWriteFails, SaveRenameFails, SaveTxFails, Waiting, Staging
    <3>2. pc' \in {"saveRemoveTmp", "discard"} \/ (pc' = "saveReturn" /\ sv'.err)
      BY <2>4, ErrSet DEF SaveRefused, SaveWriteFails, SaveRenameFails, SaveTxFails, StoreInv, TypeOK
    <3>3. AnswerView = "working" /\ AnswerView' = "refused" BY <3>1, <3>2 DEF AnswerIs
    <3> QED BY <2>1, <2>2, <3>3 DEF Promise!Refuse, Promise!MailNext
  <2>5. CASE SaveReturn
    <3>1. pc = "saveReturn" /\ pc' = "free" BY <2>5 DEF SaveReturn
    <3>2. AnswerView \in {"accepted", "refused"} /\ AnswerView' = "none"
      BY <3>1 DEF AnswerIs, Busy, Calls, DrainLabels
    <3> QED BY <2>1, <2>2, <3>2 DEF Promise!Answer, Promise!MailNext
  <2>6. CASE SaveDrained \/ SaveAdmit \/ SaveWrite \/ SaveRename \/ SaveSync \/ SaveInsert \/ SaveEvict
    <3>1. Waiting \/ Staging
      BY <2>6 DEF SaveDrained, SaveAdmit, SaveWrite, SaveRename, SaveSync, SaveInsert, SaveEvict,
         Waiting, Staging, Calls, DrainLabels
    <3>2. pc' = "saveAdmit" \/ Staging'
      BY <2>6 DEF SaveDrained, SaveAdmit, SaveWrite, SaveRename, SaveSync, SaveInsert, SaveEvict,
         Return, Staging
    <3>3. AnswerView' = AnswerView BY <3>1, <3>2 DEF AnswerIs, Waiting
    <3> QED BY <2>1, <2>2, <3>3 DEF Promise!mailVars
  <2>7. CASE SavePostDrained
    <3>1. /\ Calls("savePost") \/ Calls("discard")
          /\ pc' = "saveReturn" /\ sv' = sv
      BY <2>7 DEF SavePostDrained, Calls, DrainLabels, Return
    <3>2. AnswerView' = AnswerView
      <4>1. CASE Calls("savePost") BY <3>1, <4>1 DEF Answering, AnswerIs
      <4>2. CASE Calls("discard") BY <3>1, <4>2 DEF Answering, AnswerIs
      <4> QED BY <3>1, <4>1, <4>2
    <3> QED BY <2>1, <2>2, <3>2 DEF Promise!mailVars
  <2>8. CASE SaveRemoveTmp \/ SaveRemoveTmpFails \/ Discard \/ DiscardFails \/ DiscardLoad \/ DiscardLoadFails
    <3>1. pc \in {"saveRemoveTmp", "discard", "discardLoad"}
      BY <2>8 DEF SaveRemoveTmp, SaveRemoveTmpFails, Discard, DiscardFails, DiscardLoad, DiscardLoadFails
    <3>2. sv'.err
      BY <2>8, <3>1, ErrKept DEF SaveRemoveTmp, SaveRemoveTmpFails, Discard, DiscardFails, DiscardLoad,
         DiscardLoadFails, Answering, StoreInv, TypeOK
    <3>3. pc' \in {"saveRemoveTmp", "discard", "discardLoad", "saveReturn"} \/ Calls("discard")'
      BY <2>8 DEF SaveRemoveTmp, SaveRemoveTmpFails, Discard, DiscardFails, DiscardLoad, DiscardLoadFails,
         CallDrain, NoDrain, Calls, DrainLabels
    <3>4. AnswerView' = AnswerView BY <3>1, <3>2, <3>3 DEF AnswerIs
    <3> QED BY <2>1, <2>2, <3>4 DEF Promise!mailVars
  <2> QED BY <1>2, <2>3, <2>4, <2>5, <2>6, <2>7, <2>8 DEF Save
<1> QED BY <1>1, <1>2

\* Every step of the store is a step of the mailbox, or invisible there.
LEMMA StepRefines ==
  ASSUME StoreInv, StoreInv', TxInv, TxTotals, PromiseInv, PromiseInv', Answering, Answering',
         ~ClockMayStepBack, [Next]_vars
  PROVE  [Promise!MailNext]_(Promise!mailVars)
<1>1. AnswerIs /\ AnswerIs' BY AnswerSeen
<1>2. CASE Save BY <1>1, <1>2, SaveRefines
<1>3. CASE Drain
  <2>1. db'.messages = db.messages
    BY <1>3, QueueOnly DEF Drain, DrainSelect, DrainUnlink, DrainSync, DrainFails
  <2>2. dr'.ret = dr.ret
    BY <1>3 DEF Drain, DrainSelect, DrainUnlink, DrainSync, DrainCommit, DrainFails, TypeControl, StoreInv, TypeOK
  <2>3. pc # "saveReturn" /\ pc' # "saveReturn" /\ sv' = sv /\ now' = now
    BY <1>3 DEF Drain, DrainSelect, DrainUnlink, DrainSync, DrainCommit, DrainFails, env
  <2>4. AnswerView' = AnswerView BY <2>2, <2>3 DEF AnswerView
  <2> QED BY <2>1, <2>3, <2>4, SeenMail DEF Promise!mailVars
<1>4. CASE CleanupBegin \/ Get \/ UNCHANGED vars
  <2>1. UNCHANGED <<db, sv, dr, pc, now>>
    BY <1>4 DEF CleanupBegin, Get, RenderInbox, SelectBody, ReadRow, ReadFile, ReadError, vars, env
  <2>2. AnswerView' = AnswerView BY <2>1 DEF AnswerView
  <2> QED BY <2>1, <2>2, SeenMail DEF Promise!mailVars
<1>5. CASE CleanupCommit
  <2>1. Promise!Expire BY <1>1, <1>5, CommitExpires
  <2> QED BY <2>1 DEF Promise!MailNext
<1>6. CASE NormalizeStoredRecipients
  <2>1. Promise!Restart BY <1>1, <1>6, NormalizeRestarts
  <2> QED BY <2>1 DEF Promise!MailNext
<1>7. CASE Tick
  <2>1. UNCHANGED <<db, sv, dr, pc>> /\ now' = now + 1 BY <1>7 DEF Tick
  <2>2. AnswerView' = AnswerView BY <2>1 DEF AnswerView
  <2>3. Promise!Wait BY <2>1, <2>2, SeenMail DEF Promise!Wait
  <2> QED BY <2>3 DEF Promise!MailNext
<1>8. CASE \/ CleanupSelect \/ CleanupDelete \/ CleanupTxFails \/ CleanupDrained \/ CleanupDrainFailed
           \/ Boot \/ Migrate \/ ReconcileCheck \/ ReconcileOrphan \/ ReconcileLoad \/ OpenDrained
           \/ OpenLoad \/ StartupFails \/ Stop \/ PowerLoss
  <2>1. db'.messages = db.messages
    <3>1. CASE Migrate BY <3>1 DEF Migrate, Migrated
    <3>2. CASE ReconcileOrphan BY <3>2, QueueOnly
    <3>3. CASE ~Migrate /\ ~ReconcileOrphan
      BY <1>8, <3>3 DEF CleanupSelect, CleanupDelete, CleanupTxFails, CleanupDrained, CleanupDrainFailed,
         CleanupError, Fatal, Boot, ReconcileCheck, ReconcileLoad, OpenDrained, OpenLoad, StartupFails,
         Stop, PowerLoss
    <3> QED BY <3>1, <3>2, <3>3
  <2>2. now' = now
    BY <1>8 DEF CleanupSelect, CleanupDelete, CleanupTxFails, CleanupDrained, CleanupDrainFailed,
       CleanupError, Fatal, Boot, Migrate, ReconcileCheck, ReconcileOrphan, ReconcileLoad, OpenDrained,
       OpenLoad, StartupFails, Stop, PowerLoss, env
  <2>3. ~Busy'
    <3>1. \/ pc' \in {"free", "cleanDelete", "migrate", "normalize", "reconcile", "scan", "openLoad"}
          \/ pc' = "drainSelect" /\ dr'.ret = "open"
      <4>1. CASE ReconcileLoad BY <4>1 DEF ReconcileLoad, CallDrain, NoDrain
      <4>2. CASE OpenDrained
        <5>1. PICK c : IF c = 0 THEN Return("openLoad") ELSE CallDrain("open", c) BY <4>2 DEF OpenDrained
        <5> QED BY <5>1 DEF Return, CallDrain, NoDrain
      <4>3. CASE ~ReconcileLoad /\ ~OpenDrained
        BY <1>8, <4>3 DEF CleanupSelect, CleanupDelete, CleanupTxFails, CleanupDrained, CleanupDrainFailed,
           CleanupError, Fatal, Boot, Migrate, ReconcileCheck, ReconcileOrphan, OpenLoad, StartupFails,
           Stop, PowerLoss, Halt, Return
      <4> QED BY <4>1, <4>2, <4>3
    <3> QED BY <3>1 DEF Busy, Calls, DrainLabels
  <2>4. Promise!Restart BY <1>1, <2>1, <2>2, <2>3, IdleRestarts
  <2> QED BY <2>4 DEF Promise!MailNext
<1>9. ~ClockBack BY DEF ClockBack
<1> QED BY <1>2, <1>3, <1>4, <1>5, <1>6, <1>7, <1>8, <1>9 DEF Next, Cleanup, OpenStore

\* The store keeps its promise: with a clock that does not move back, every
\* behaviour of Save, Cleanup, start-up, crashes and failed calls, one I/O call
\* at a time, is one of the atomic mailbox, for any set of deliveries, any
\* limits and any number of readers.
THEOREM Refinement == ASSUME ~ClockMayStepBack PROVE Spec => ImplementsMailbox
<1>1. Init => Promise!MailInit BY InitRefines
<1>2. StoreInv /\ StoreInv' /\ TxInv /\ LedgerInv /\ PromiseInv /\ PromiseInv' /\ Answering /\ Answering'
        /\ [Next]_vars => [Promise!MailNext]_(Promise!mailVars)
  BY StepRefines DEF LedgerInv, UsageInv
<1> QED BY <1>1, <1>2, Invariance, Transactions, Answers, Ledger, Handled, PTL
        DEF Spec, ImplementsMailbox, Promise!MailSpec
=============================================================================
