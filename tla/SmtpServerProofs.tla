-------------------------- MODULE SmtpServerProofs --------------------------
(* Theorems about SmtpServer, for any finite set of connections, any number *)
(* of sources, messages and addresses, and any limits.                      *)
EXTENDS SmtpServer, Counting

USE SmtpAssumption

\* The history variables have their types.
TypeHistory ==
  /\ surplus \in [Messages \X Mailboxes -> Int]
  /\ said \in [Conns -> SUBSET Addresses]
  /\ unanswered \in [Messages -> Int]

InTransaction(c) == sess[c].ph \in {"mail", "saving", "replying"}

\* The recipients of a session are those it answered 250 since the last MAIL.
Transactions ==
  \A c \in Conns : InTransaction(c) =>
    /\ sess[c].msg \in Messages
    /\ sess[c].recipients = {normalizeRecipient(a) : a \in said[c]}

\* Until the server is closed, a live session has its connection.
LiveHeld == ~shut => \A c \in Conns : sess[c].ph \notin {"none", "ended"} => conn[c] = "held"

\* A session in a transfer of m, and one about to vouch for a copy k.
Transfers(r, m) == r.ph \in {"saving", "replying"} /\ r.msg = m
Vouches(r, k) ==
  r.ph = "replying" /\ r.reply = 250 /\ r.msg = k[1] /\ k[2] \in r.recipients
Transferring(m) == {c \in Conns : Transfers(sess[c], m)}
Vouching(k) == {c \in Conns : Vouches(sess[c], k)}

\* The copies no answer will vouch for come from transfers without an answer.
Answers ==
  \A k \in Messages \X Mailboxes :
    surplus[k] - Cardinality(Vouching(k)) \in
      0 .. unanswered[k[1]] - Cardinality(Transferring(k[1]))

\* The inductive invariant.
SmtpInv ==
  /\ TypeOK /\ TypeHistory /\ SlotsExact /\ SourcesExact
  /\ Transactions /\ LiveHeld /\ Answers

-----------------------------------------------------------------------------
(* Admission.                                                               *)

Slotted == {"slot", "held", "closing", "half"}
Sourced == {"held", "closing"}
One(b) == IF b THEN 1 ELSE 0

\* A connection moves to x and the slots move with it.
SlotStep(c, x) ==
  /\ conn' = [conn EXCEPT ![c] = x]
  /\ sessions' = sessions + One(x \in Slotted) - One(conn[c] \in Slotted)
  /\ rejects' = rejects + One(x = "rejecting") - One(conn[c] = "rejecting")
  /\ sessions' <= MaxConnections /\ rejects' <= MaxRejections

\* The counts of the sources move with it.
SourceStep(c, x) ==
  /\ conn' = [conn EXCEPT ![c] = x]
  /\ \A s \in Sources :
       /\ Count(s)' = Count(s) + One(s = Source[c] /\ x \in Sourced)
                               - One(s = Source[c] /\ conn[c] \in Sourced)
       /\ s \in DOMAIN sources' => sources'[s] >= 1
       /\ MaxPerIP > 0 => Count(s)' <= MaxPerIP

\* A step that moves one connection keeps the slots exact if it counts what
\* that connection takes and gives back.
LEMMA SlotsMove ==
  ASSUME TypeOK, SlotsExact, NEW c \in Conns, NEW x, SlotStep(c, x)
  PROVE  SlotsExact'
<1> DEFINE A == Holding(Slotted)  B == {d \in Conns : conn'[d] \in Slotted}
           R == Holding({"rejecting"})  Q == {d \in Conns : conn'[d] \in {"rejecting"}}
<1>1. IsFiniteSet(A) /\ IsFiniteSet(R)
  <2>1. A \subseteq Conns /\ R \subseteq Conns BY DEF Holding
  <2> QED BY <2>1, FS_Subset
<1>2. A \ {c} = B \ {c} /\ R \ {c} = Q \ {c} BY DEF Holding, TypeOK, SlotStep
<1>3. /\ c \in A <=> conn[c] \in Slotted
      /\ c \in B <=> x \in Slotted
      /\ c \in R <=> conn[c] = "rejecting"
      /\ c \in Q <=> x = "rejecting"
  BY DEF Holding, TypeOK, SlotStep
<1>4. sessions = Cardinality(A) /\ rejects = Cardinality(R) BY DEF SlotsExact, Slotted
<1> HIDE DEF A, B, R, Q
<1>5. sessions' = Cardinality(B) BY <1>1, <1>2, <1>3, <1>4, Recount DEF TypeOK, SlotStep, One
<1>6. rejects' = Cardinality(Q) BY <1>1, <1>2, <1>3, <1>4, Recount DEF TypeOK, SlotStep, One
<1> QED BY <1>5, <1>6 DEF SlotsExact, Holding, Slotted, B, Q, SlotStep

\* The same for the counts of the sources.
LEMMA SourcesMove ==
  ASSUME TypeOK, SourcesExact, NEW c \in Conns, NEW x, SourceStep(c, x)
  PROVE  SourcesExact'
<1> SUFFICES ASSUME NEW s \in Sources
             PROVE  Count(s)' = Cardinality({d \in Holding({"held", "closing"})' : Source[d] = s})
  BY DEF SourcesExact, SourceStep
<1> DEFINE A == {d \in Holding(Sourced) : Source[d] = s}
           B == {d \in Conns : conn'[d] \in Sourced /\ Source[d] = s}
<1>1. IsFiniteSet(A)
  <2>1. A \subseteq Conns BY DEF Holding
  <2> QED BY <2>1, FS_Subset
<1>2. A \ {c} = B \ {c} BY DEF Holding, TypeOK, SourceStep
<1>3. /\ c \in A <=> s = Source[c] /\ conn[c] \in Sourced
      /\ c \in B <=> s = Source[c] /\ x \in Sourced
  BY DEF Holding, TypeOK, SourceStep
<1>4. Count(s) = Cardinality(A) BY DEF SourcesExact, Sourced
<1>5. B = {d \in Holding({"held", "closing"})' : Source[d] = s} BY DEF Holding, Sourced
<1> HIDE DEF A, B
<1>6. Count(s)' = Cardinality(B) BY <1>1, <1>2, <1>3, <1>4, Recount DEF SourceStep, One
<1> QED BY <1>5, <1>6

\* What a connection holds is counted.
LEMMA Counted ==
  ASSUME TypeOK, SlotsExact, SourcesExact, NEW c \in Conns
  PROVE  /\ conn[c] \in Slotted => sessions >= 1
         /\ conn[c] = "rejecting" => rejects >= 1
         /\ conn[c] \in Sourced => Source[c] \in DOMAIN sources /\ Count(Source[c]) >= 1
<1>1. ASSUME conn[c] \in Slotted PROVE sessions >= 1
  <2>1. Holding(Slotted) \subseteq Conns /\ c \in Holding(Slotted) BY <1>1 DEF Holding
  <2> QED BY <2>1, Member, FS_Subset DEF SlotsExact, Slotted
<1>2. ASSUME conn[c] = "rejecting" PROVE rejects >= 1
  <2>1. Holding({"rejecting"}) \subseteq Conns /\ c \in Holding({"rejecting"}) BY <1>2 DEF Holding
  <2> QED BY <2>1, Member, FS_Subset DEF SlotsExact
<1>3. ASSUME conn[c] \in Sourced PROVE Source[c] \in DOMAIN sources /\ Count(Source[c]) >= 1
  <2> DEFINE A == {d \in Holding({"held", "closing"}) : Source[d] = Source[c]}
  <2>1. A \subseteq Conns /\ c \in A BY <1>3 DEF Holding, Sourced
  <2>2. Count(Source[c]) = Cardinality(A) BY DEF SourcesExact
  <2> HIDE DEF A
  <2>3. Count(Source[c]) >= 1 BY <2>1, <2>2, Member, FS_Subset
  <2> QED BY <2>3 DEF Count
<1> QED BY <1>1, <1>2, <1>3

\* A rejection starts only while the pool has room.
LEMMA RejectionMove ==
  ASSUME TypeOK, SlotsExact, NEW c \in Conns, conn[c] \in {"new", "slot"}, ScheduleRejection(c),
         sessions' = sessions - One(conn[c] = "slot")
  PROVE  \E x \in {"rejecting", "closed"} : SlotStep(c, x) /\ rejects' \in Nat
<1>1. CASE rejects < MaxRejections
  <2>1. conn' = [conn EXCEPT ![c] = "rejecting"] /\ rejects' = rejects + 1
    BY <1>1 DEF ScheduleRejection
  <2>2. SlotStep(c, "rejecting")
    BY <1>1, <2>1 DEF SlotStep, Slotted, One, TypeOK, SlotsExact
  <2> QED BY <2>1, <2>2 DEF TypeOK
<1>2. CASE ~(rejects < MaxRejections)
  <2>1. conn' = [conn EXCEPT ![c] = "closed"] /\ rejects' = rejects
    BY <1>2 DEF ScheduleRejection
  <2>2. SlotStep(c, "closed")
    BY <1>2, <2>1 DEF SlotStep, Slotted, One, TypeOK, SlotsExact
  <2> QED BY <2>1, <2>2 DEF TypeOK
<1> QED BY <1>1, <1>2

\* The counts of the sources are natural numbers, and a step that leaves them
\* and what the connection holds of them alone is a SourceStep.
LEMMA SourcesRest ==
  ASSUME TypeOK, SourcesExact, NEW c \in Conns, NEW x, conn' = [conn EXCEPT ![c] = x],
         UNCHANGED sources, x \in Sourced <=> conn[c] \in Sourced
  PROVE  SourceStep(c, x)
<1>1. \A s \in Sources : Count(s) \in Nat /\ Count(s)' = Count(s) BY DEF TypeOK, Count
<1>2. \A s \in Sources : s \in DOMAIN sources' => sources'[s] >= 1 BY DEF SourcesExact
<1>3. \A s \in Sources : MaxPerIP > 0 => Count(s) <= MaxPerIP BY DEF SourcesExact
<1>4. \A s \in Sources : Count(s)' = Count(s) + One(s = Source[c] /\ x \in Sourced)
                               - One(s = Source[c] /\ conn[c] \in Sourced)
  BY <1>1 DEF One
<1> QED BY <1>1, <1>2, <1>3, <1>4 DEF SourceStep

\* Sessions do not move with an admission step.
LEMMA SessionsRest ==
  ASSUME SmtpInv, UNCHANGED <<sess, said, surplus, unanswered>>
  PROVE  TypeHistory' /\ Transactions' /\ Answers'
BY DEF SmtpInv, TypeHistory, Transactions, InTransaction, Answers, Vouching, Transferring,
       Vouches, Transfers

\* Accept takes a slot and then a source, or gives back what it took; a
\* rejection goroutine leaves the pool.
LEMMA AdmitInv == ASSUME SmtpInv, NEW c \in Conns, Admit(c) PROVE SmtpInv'
<1>0. TypeOK /\ SlotsExact /\ SourcesExact /\ LiveHeld BY DEF SmtpInv
<1>1. TypeHistory' /\ Transactions' /\ Answers'
  BY SessionsRest DEF Admit, AcceptSlot, AcceptFull, AcceptSource, RefuseSource, Rejected, delivery
<1>2. CASE AcceptSlot(c)
  <2>1. SlotStep(c, "slot")
    BY <1>0, <1>2 DEF AcceptSlot, SlotStep, Slotted, One, TypeOK, SlotsExact
  <2>2. SourceStep(c, "slot") BY <1>0, <1>2, SourcesRest DEF AcceptSlot, Sourced
  <2>3. TypeOK' BY <1>0, <1>2 DEF AcceptSlot, TypeOK
  <2>4. LiveHeld' BY <1>0, <1>2 DEF AcceptSlot, LiveHeld, TypeOK
  <2> QED BY <1>0, <1>1, <2>1, <2>2, <2>3, <2>4, SlotsMove, SourcesMove DEF SmtpInv
<1>3. CASE AcceptFull(c) \/ RefuseSource(c)
  <2>1. /\ conn[c] \in {"new", "slot"} /\ ScheduleRejection(c)
        /\ sessions' = sessions - One(conn[c] = "slot")
        /\ UNCHANGED <<sources, shut, sess>> /\ client' \in [Conns -> BOOLEAN]
    <3>1. CASE AcceptFull(c) BY <1>0, <3>1 DEF AcceptFull, TypeOK, One
    <3>2. CASE RefuseSource(c) BY <1>0, <3>2 DEF RefuseSource, TypeOK, One
    <3> QED BY <1>3, <3>1, <3>2
  <2>2. PICK x \in {"rejecting", "closed"} : SlotStep(c, x) /\ rejects' \in Nat
    BY <1>0, <2>1, RejectionMove
  <2>3. conn' = [conn EXCEPT ![c] = x] BY <2>2 DEF SlotStep
  <2>4. SourceStep(c, x) BY <1>0, <2>1, <2>3, SourcesRest DEF Sourced
  <2>5. TypeOK'
    <3>1. sessions' \in Nat BY <1>0, <2>1, Counted DEF Slotted, TypeOK, One
    <3> QED BY <1>0, <2>1, <2>2, <2>3, <3>1 DEF TypeOK
  <2>6. LiveHeld' BY <1>0, <2>1, <2>3 DEF LiveHeld, TypeOK
  <2> QED BY <1>0, <1>1, <2>2, <2>4, <2>5, <2>6, SlotsMove, SourcesMove DEF SmtpInv
<1>4. CASE AcceptSource(c)
  <2>1. SlotStep(c, "held")
    BY <1>0, <1>4 DEF AcceptSource, SlotStep, Slotted, One, TypeOK, SlotsExact
  <2>2. SourceStep(c, "held")
    <3>1. /\ \A s \in Sources : Count(s) \in Nat
          /\ DOMAIN sources' = DOMAIN sources \cup {Source[c]}
          /\ \A s \in DOMAIN sources' : sources'[s] = Count(s) + IF s = Source[c] THEN 1 ELSE 0
      BY <1>0, <1>4 DEF AcceptSource, AcquireSource, TypeOK, Count
    <3>2. \A s \in Sources : Count(s)' = Count(s) + IF s = Source[c] THEN 1 ELSE 0
      BY <3>1 DEF Count
    <3>3. MaxPerIP > 0 => Count(Source[c])' <= MaxPerIP
      BY <1>4, <3>1, <3>2 DEF AcceptSource, SourceFree
    <3>4. \A s \in DOMAIN sources : Count(s) >= 1 BY <1>0 DEF TypeOK, SourcesExact, Count
    <3>5. \A s \in Sources : MaxPerIP > 0 => Count(s) <= MaxPerIP BY <1>0 DEF SourcesExact
    <3>6. conn[c] \notin Sourced /\ conn' = [conn EXCEPT ![c] = "held"] /\ "held" \in Sourced
      BY <1>4 DEF AcceptSource, Sourced
    <3>7. ASSUME NEW s \in Sources
          PROVE  /\ s \in DOMAIN sources' => sources'[s] >= 1
                 /\ MaxPerIP > 0 => Count(s)' <= MaxPerIP
      BY <3>1, <3>2, <3>3, <3>4, <3>5
    <3> QED BY <3>1, <3>2, <3>6, <3>7 DEF SourceStep, One
  <2>3. TypeOK' BY <1>0, <1>4 DEF AcceptSource, AcquireSource, TypeOK, Count
  <2>4. LiveHeld' BY <1>0, <1>4 DEF AcceptSource, LiveHeld, TypeOK
  <2> QED BY <1>0, <1>1, <2>1, <2>2, <2>3, <2>4, SlotsMove, SourcesMove DEF SmtpInv
<1>5. CASE Rejected(c)
  <2>1. rejects >= 1 BY <1>0, <1>5, Counted DEF Rejected
  <2>2. SlotStep(c, "closed")
    BY <1>0, <1>5, <2>1 DEF Rejected, SlotStep, Slotted, One, TypeOK, SlotsExact
  <2>3. SourceStep(c, "closed") BY <1>0, <1>5, SourcesRest DEF Rejected, Sourced
  <2>4. TypeOK' BY <1>0, <1>5, <2>1 DEF Rejected, TypeOK
  <2>5. LiveHeld' BY <1>0, <1>5 DEF Rejected, LiveHeld, TypeOK
  <2> QED BY <1>0, <1>1, <2>2, <2>3, <2>4, <2>5, SlotsMove, SourcesMove DEF SmtpInv
<1> QED BY <1>2, <1>3, <1>4, <1>5 DEF Admit

\* Close releases the source and the slot of a connection, once each.
LEMMA ReleaseInv == ASSUME SmtpInv, NEW c \in Conns, Release(c) PROVE SmtpInv'
<1>0. TypeOK /\ SlotsExact /\ SourcesExact /\ LiveHeld BY DEF SmtpInv
<1>1. TypeHistory' /\ Transactions' /\ Answers'
  BY SessionsRest DEF Release, CloseConn, ReleaseSource, ReleaseSlot, delivery
<1>2. CASE CloseConn(c)
  <2>1. SlotStep(c, "closing")
    BY <1>0, <1>2 DEF CloseConn, SlotStep, Slotted, One, TypeOK, SlotsExact
  <2>2. SourceStep(c, "closing") BY <1>0, <1>2, SourcesRest DEF CloseConn, Sourced
  <2>3. TypeOK' BY <1>0, <1>2 DEF CloseConn, TypeOK
  <2>4. LiveHeld' BY <1>0, <1>2 DEF CloseConn, MayClose, LiveHeld, TypeOK
  <2> QED BY <1>0, <1>1, <2>1, <2>2, <2>3, <2>4, SlotsMove, SourcesMove DEF SmtpInv
<1>3. CASE ReleaseSource(c)
  <2>1. SlotStep(c, "half")
    BY <1>0, <1>3 DEF ReleaseSource, SlotStep, Slotted, One, TypeOK, SlotsExact
  <2>2. /\ Source[c] \in DOMAIN sources /\ Count(Source[c]) >= 1
        /\ sources \in [DOMAIN sources -> Nat] /\ DOMAIN sources \subseteq Sources
    BY <1>0, <1>3, Counted DEF ReleaseSource, Sourced, TypeOK
  <2>3. SourceStep(c, "half")
    <3>1. \A s \in Sources : Count(s) \in Nat /\ (s \in DOMAIN sources => sources[s] >= 1)
      BY <1>0, <2>2 DEF Count, SourcesExact
    <3>2. \A s \in Sources :
            /\ Count(s)' = Count(s) - IF s = Source[c] THEN 1 ELSE 0
            /\ s \in DOMAIN sources' => sources'[s] >= 1
      <4>1. CASE Count(Source[c]) <= 1
        <5>1. sources' = [x \in DOMAIN sources \ {Source[c]} |-> sources[x]]
          BY <1>3, <4>1 DEF ReleaseSource
        <5> QED BY <2>2, <3>1, <4>1, <5>1 DEF Count
      <4>2. CASE ~(Count(Source[c]) <= 1)
        <5>1. sources' = [sources EXCEPT ![Source[c]] = @ - 1]
          BY <1>3, <4>2 DEF ReleaseSource
        <5> QED BY <2>2, <3>1, <4>2, <5>1 DEF Count
      <4> QED BY <4>1, <4>2
    <3>3. \A s \in Sources : MaxPerIP > 0 => Count(s)' <= MaxPerIP
      <4>1. \A s \in Sources : MaxPerIP > 0 => Count(s) <= MaxPerIP BY <1>0 DEF SourcesExact
      <4> QED BY <3>1, <3>2, <4>1
    <3>4. /\ conn[c] \in Sourced /\ "half" \notin Sourced /\ conn' = [conn EXCEPT ![c] = "half"]
      BY <1>3 DEF ReleaseSource, Sourced
    <3> QED BY <3>1, <3>2, <3>3, <3>4 DEF SourceStep, One
  <2>4. TypeOK' BY <1>0, <1>3, <2>2 DEF ReleaseSource, TypeOK, Count
  <2>5. LiveHeld' BY <1>0, <1>3 DEF ReleaseSource, LiveHeld, TypeOK
  <2> QED BY <1>0, <1>1, <2>1, <2>3, <2>4, <2>5, SlotsMove, SourcesMove DEF SmtpInv
<1>4. CASE ReleaseSlot(c)
  <2>1. sessions >= 1 BY <1>0, <1>4, Counted DEF ReleaseSlot, Slotted
  <2>2. SlotStep(c, "closed")
    BY <1>0, <1>4, <2>1 DEF ReleaseSlot, SlotStep, Slotted, One, TypeOK, SlotsExact
  <2>3. SourceStep(c, "closed") BY <1>0, <1>4, SourcesRest DEF ReleaseSlot, Sourced
  <2>4. TypeOK' BY <1>0, <1>4, <2>1 DEF ReleaseSlot, TypeOK
  <2>5. LiveHeld' BY <1>0, <1>4 DEF ReleaseSlot, LiveHeld, TypeOK
  <2> QED BY <1>0, <1>1, <2>2, <2>3, <2>4, <2>5, SlotsMove, SourcesMove DEF SmtpInv
<1> QED BY <1>2, <1>3, <1>4 DEF Release

-----------------------------------------------------------------------------
(* Sessions.                                                                *)

\* The session of c moves, and the copies that lose their answer come from a
\* transfer that loses its answer.
AnswerStep(c) ==
  /\ \A d \in Conns \ {c} : sess'[d] = sess[d]
  /\ \A k \in Messages \X Mailboxes :
       LET copies == surplus'[k] - surplus[k]
                       - One(Vouches(sess'[c], k)) + One(Vouches(sess[c], k))
           lost == unanswered'[k[1]] - unanswered[k[1]]
                       - One(Transfers(sess'[c], k[1])) + One(Transfers(sess[c], k[1]))
       IN  0 <= copies /\ copies <= lost

\* Such a step keeps every answer honest.
LEMMA AnswersMove ==
  ASSUME TypeHistory, TypeHistory', Answers, NEW c \in Conns, AnswerStep(c)
  PROVE  Answers'
<1> SUFFICES ASSUME NEW k \in Messages \X Mailboxes
             PROVE  surplus'[k] - Cardinality(Vouching(k)') \in
                       0 .. unanswered'[k[1]] - Cardinality(Transferring(k[1])')
  BY DEF Answers
<1>1. IsFiniteSet(Vouching(k)) /\ IsFiniteSet(Transferring(k[1]))
  <2>1. Vouching(k) \subseteq Conns /\ Transferring(k[1]) \subseteq Conns
    BY DEF Vouching, Transferring
  <2> QED BY <2>1, FS_Subset
<1>2. /\ Vouching(k) \ {c} = Vouching(k)' \ {c}
      /\ Transferring(k[1]) \ {c} = Transferring(k[1])' \ {c}
  BY DEF Vouching, Transferring, Vouches, Transfers, AnswerStep
<1>3. /\ c \in Vouching(k) <=> Vouches(sess[c], k)
      /\ c \in Vouching(k)' <=> Vouches(sess'[c], k)
      /\ c \in Transferring(k[1]) <=> Transfers(sess[c], k[1])
      /\ c \in Transferring(k[1])' <=> Transfers(sess'[c], k[1])
  BY DEF Vouching, Transferring, Vouches, Transfers
<1>4. /\ Cardinality(Vouching(k)) \in Nat
      /\ Cardinality(Vouching(k)') = Cardinality(Vouching(k))
              + One(Vouches(sess'[c], k)) - One(Vouches(sess[c], k))
  BY <1>1, <1>2, <1>3, Recount DEF One
<1>5. /\ Cardinality(Transferring(k[1])) \in Nat
      /\ Cardinality(Transferring(k[1])') = Cardinality(Transferring(k[1]))
              + One(Transfers(sess'[c], k[1])) - One(Transfers(sess[c], k[1]))
  BY <1>1, <1>2, <1>3, Recount DEF One
<1>6. /\ surplus[k] \in Int /\ surplus'[k] \in Int
      /\ unanswered[k[1]] \in Int /\ unanswered'[k[1]] \in Int
  BY DEF TypeHistory
<1>7. /\ One(Vouches(sess'[c], k)) \in Int /\ One(Vouches(sess[c], k)) \in Int
      /\ One(Transfers(sess'[c], k[1])) \in Int /\ One(Transfers(sess[c], k[1])) \in Int
  BY DEF One
<1>8. surplus[k] - Cardinality(Vouching(k)) \in
         0 .. unanswered[k[1]] - Cardinality(Transferring(k[1]))
  BY DEF Answers
<1> DEFINE copies == surplus'[k] - surplus[k]
                       - One(Vouches(sess'[c], k)) + One(Vouches(sess[c], k))
           lost == unanswered'[k[1]] - unanswered[k[1]]
                       - One(Transfers(sess'[c], k[1])) + One(Transfers(sess[c], k[1]))
<1>9. 0 <= copies /\ copies <= lost BY DEF AnswerStep
<1> QED BY <1>4, <1>5, <1>6, <1>7, <1>8, <1>9

\* Admission does not move with a session.
LEMMA AdmissionRests ==
  ASSUME SmtpInv, UNCHANGED admission
  PROVE  SlotsExact' /\ SourcesExact'
BY DEF SmtpInv, admission, SlotsExact, SourcesExact, Holding, Count

SessionType ==
  [ph : {"none", "idle", "mail", "saving", "replying", "ended"},
   msg : Messages \cup {"none"}, recipients : SUBSET Mailboxes,
   rcpts : 0 .. MaxRecipients, reply : {0, 250, 451, 552}]

\* A session moves to r; its recipients stay those it said yes to, and it
\* comes to life only on a connection that is held.
SessionStep(c, r) ==
  /\ r \in SessionType /\ sess' = [sess EXCEPT ![c] = r]
  /\ UNCHANGED <<admission, client>>
  /\ \A d \in Conns \ {c} : said'[d] = said[d]
  /\ r.ph \in {"mail", "saving", "replying"} =>
       r.msg \in Messages /\ r.recipients = {normalizeRecipient(a) : a \in said'[c]}
  /\ r.ph \notin {"none", "ended"} =>
       sess[c].ph \notin {"none", "ended"} \/ conn[c] = "held"

\* Such a step keeps the invariant if it accounts for its copies.
LEMMA SessionMove ==
  ASSUME SmtpInv, NEW c \in Conns, NEW r, SessionStep(c, r), TypeHistory', AnswerStep(c)
  PROVE  SmtpInv'
<1>1. SlotsExact' /\ SourcesExact' BY AdmissionRests DEF SessionStep
<1>2. Answers' BY AnswersMove DEF SmtpInv
<1>3. sess \in [Conns -> SessionType] BY DEF SmtpInv, TypeOK, SessionType
<1>4. /\ sess' \in [Conns -> SessionType] /\ sess'[c] = r
      /\ \A d \in Conns \ {c} : sess'[d] = sess[d] /\ said'[d] = said[d]
  BY <1>3 DEF SessionStep
<1>5. TypeOK'
  <2>1. UNCHANGED <<conn, sessions, sources, rejects, shut, client>> BY DEF SessionStep, admission
  <2> QED BY <1>4, <2>1 DEF SmtpInv, TypeOK, SessionType
<1>6. Transactions' BY <1>4 DEF SmtpInv, Transactions, InTransaction, SessionStep
<1>7. LiveHeld' BY <1>4 DEF SmtpInv, LiveHeld, SessionStep, admission
<1> QED BY <1>1, <1>2, <1>5, <1>6, <1>7 DEF SmtpInv

\* Commands that collect a transaction or drop it: no transfer begins or ends.
LEMMA CollectInv ==
  ASSUME SmtpInv, NEW c \in Conns,
         \/ Greet(c) \/ Reset(c)
         \/ \E m \in Messages : Mail(c, m)
         \/ \E a \in Addresses : Rcpt(c, a)
  PROVE  SmtpInv'
<1>1. /\ sess \in [Conns -> SessionType] /\ TypeHistory
      /\ \A d \in Conns : sess[d].ph = "mail" =>
           sess[d].msg \in Messages /\ sess[d].recipients = {normalizeRecipient(a) : a \in said[d]}
  BY DEF SmtpInv, TypeOK, SessionType, Transactions, InTransaction
<1>2. ASSUME NEW r, SessionStep(c, r), sess[c].ph \notin {"saving", "replying"},
             r.ph \notin {"saving", "replying"}, UNCHANGED delivery,
             said' \in [Conns -> SUBSET Addresses]
      PROVE  SmtpInv'
  <2>1. TypeHistory' BY <1>1, <1>2 DEF TypeHistory, delivery
  <2>2. sess'[c] = r /\ \A d \in Conns \ {c} : sess'[d] = sess[d] BY <1>1, <1>2 DEF SessionStep
  <2>3. \A k \in Messages \X Mailboxes :
          /\ ~Vouches(sess[c], k) /\ ~Vouches(sess'[c], k)
          /\ ~Transfers(sess[c], k[1]) /\ ~Transfers(sess'[c], k[1])
          /\ surplus'[k] = surplus[k] /\ unanswered'[k[1]] = unanswered[k[1]]
          /\ surplus[k] \in Int /\ unanswered[k[1]] \in Int
    BY <1>1, <1>2, <2>2 DEF Vouches, Transfers, delivery, TypeHistory
  <2>4. AnswerStep(c) BY <2>2, <2>3 DEF AnswerStep, One
  <2> QED BY <1>2, <2>1, <2>4, SessionMove
<1>3. CASE Greet(c)
  <2> DEFINE r == [sess[c] EXCEPT !.ph = "idle"]
  <2>1. r \in SessionType /\ r.ph = "idle" BY <1>1 DEF SessionType
  <2>2. sess' = [sess EXCEPT ![c] = r] /\ conn[c] = "held" /\ said' = said
        /\ UNCHANGED <<admission, client, delivery>> /\ sess[c].ph = "none"
    BY <1>3 DEF Greet
  <2> HIDE DEF r
  <2>3. SessionStep(c, r) BY <2>1, <2>2 DEF SessionStep
  <2> QED BY <1>1, <1>2, <2>1, <2>2, <2>3 DEF TypeHistory
<1>4. CASE Reset(c)
  <2> DEFINE r == [NoSession EXCEPT !.ph = "idle"]
  <2>1. r \in SessionType /\ r.ph = "idle" BY DEF SessionType, NoSession
  <2>2. sess' = [sess EXCEPT ![c] = r] /\ said' = [said EXCEPT ![c] = {}]
        /\ UNCHANGED <<admission, client, delivery>> /\ sess[c].ph = "mail"
    BY <1>4 DEF Reset
  <2> HIDE DEF r
  <2>3. SessionStep(c, r) BY <1>1, <2>1, <2>2 DEF SessionStep, TypeHistory
  <2> QED BY <1>1, <1>2, <2>1, <2>2, <2>3 DEF TypeHistory
<1>5. ASSUME NEW m \in Messages, Mail(c, m) PROVE SmtpInv'
  <2> DEFINE p == [sess[c] EXCEPT !.ph = "mail"]
             q == [p EXCEPT !.msg = m]
             r == [q EXCEPT !.recipients = {}]
  <2>1. r \in SessionType /\ r.ph = "mail" /\ r.msg = m /\ r.recipients = {}
    <3>1. p \in SessionType /\ p.ph = "mail" BY <1>1 DEF SessionType
    <3> HIDE DEF p
    <3>2. q \in SessionType /\ q.ph = "mail" /\ q.msg = m BY <3>1 DEF SessionType
    <3> HIDE DEF q
    <3> QED BY <3>2 DEF SessionType
  <2>2. sess' = [sess EXCEPT ![c] = r] BY <1>1, <1>5, ZenonT(60) DEF Mail, SessionType
  <2>3. said' = [said EXCEPT ![c] = {}]
        /\ UNCHANGED <<admission, client, delivery>> /\ sess[c].ph \in {"idle", "mail"}
    BY <1>5 DEF Mail
  <2> HIDE DEF r
  <2>4. said'[c] = {} /\ \A d \in Conns \ {c} : said'[d] = said[d]
    BY <1>1, <2>3 DEF TypeHistory
  <2>5. SessionStep(c, r) BY <1>1, <2>1, <2>2, <2>3, <2>4 DEF SessionStep
  <2> QED BY <1>1, <1>2, <2>1, <2>3, <2>5 DEF TypeHistory
<1>6. ASSUME NEW a \in Addresses, Rcpt(c, a) PROVE SmtpInv'
  <2> DEFINE q == [sess[c] EXCEPT !.recipients = @ \cup {normalizeRecipient(a)}]
             r == [q EXCEPT !.rcpts = sess[c].rcpts + 1]
  <2>0. normalizeRecipient(a) \in Mailboxes BY DEF Mailboxes
  <2>1. /\ sess[c].ph = "mail" /\ said' = [said EXCEPT ![c] = @ \cup {a}]
        /\ UNCHANGED <<admission, client, delivery>>
        /\ sess[c].rcpts < MaxRecipients
    BY <1>6 DEF Rcpt
  <2>2. /\ r \in SessionType /\ r.ph = sess[c].ph /\ r.msg = sess[c].msg
        /\ r.recipients = sess[c].recipients \cup {normalizeRecipient(a)}
    <3>1. /\ q \in SessionType /\ q.ph = sess[c].ph /\ q.msg = sess[c].msg
          /\ sess[c].rcpts \in 0 .. MaxRecipients
          /\ q.recipients = sess[c].recipients \cup {normalizeRecipient(a)}
      BY <1>1, <2>0 DEF SessionType
    <3> HIDE DEF q
    <3> QED BY <2>1, <3>1 DEF SessionType
  <2>3. sess' = [sess EXCEPT ![c] = r] BY <1>1, <1>6, ZenonT(60) DEF Rcpt, SessionType
  <2> HIDE DEF r
  <2>4. said'[c] = said[c] \cup {a} /\ \A d \in Conns \ {c} : said'[d] = said[d]
    BY <1>1, <2>1 DEF TypeHistory
  <2>5. r.recipients = {normalizeRecipient(b) : b \in said'[c]} BY <1>1, <2>1, <2>2, <2>4
  <2>6. SessionStep(c, r) BY <1>1, <2>1, <2>2, <2>3, <2>4, <2>5 DEF SessionStep
  <2> QED BY <1>1, <1>2, <2>1, <2>2, <2>6 DEF TypeHistory
<1> QED BY <1>3, <1>4, <1>5, <1>6

\* DATA begins a transfer, and Save ends with an answer to give.
LEMMA TransferInv ==
  ASSUME SmtpInv, NEW c \in Conns, Data(c) \/ DataFails(c) \/ SaveOK(c) \/ SaveFails(c)
  PROVE  SmtpInv'
<1> DEFINE m == sess[c].msg
<1>1. /\ sess \in [Conns -> SessionType] /\ TypeHistory
      /\ sess[c].ph \in {"mail", "saving"} /\ m \in Messages
      /\ sess[c].recipients = {normalizeRecipient(a) : a \in said[c]}
  BY DEF SmtpInv, TypeOK, SessionType, Transactions, InTransaction, Data, DataFails, SaveOK, SaveFails
<1>2. /\ surplus \in [Messages \X Mailboxes -> Int] /\ unanswered \in [Messages -> Int]
      /\ said \in [Conns -> SUBSET Addresses] BY <1>1 DEF TypeHistory
<1>3. UNCHANGED <<admission, client, said>> BY DEF Data, DataFails, SaveOK, SaveFails
<1>4. ASSUME NEW r \in SessionType, sess' = [sess EXCEPT ![c] = r],
             r.ph \in {"saving", "replying"}, r.msg = m, r.recipients = sess[c].recipients,
             surplus' \in [Messages \X Mailboxes -> Int], unanswered' \in [Messages -> Int],
             \A k \in Messages \X Mailboxes :
               /\ surplus'[k] = surplus[k] + One(Vouches(r, k))
               /\ unanswered'[k[1]] =
                    unanswered[k[1]] + One(sess[c].ph = "mail" /\ k[1] = m)
      PROVE  SmtpInv'
  <2>1. SessionStep(c, r) BY <1>1, <1>3, <1>4 DEF SessionStep
  <2>2. TypeHistory' BY <1>2, <1>3, <1>4 DEF TypeHistory
  <2>3. sess'[c] = r /\ \A d \in Conns \ {c} : sess'[d] = sess[d] BY <1>1, <1>4
  <2>4. ASSUME NEW k \in Messages \X Mailboxes
        PROVE  /\ ~Vouches(sess[c], k)
               /\ Transfers(sess[c], k[1]) <=> sess[c].ph = "saving" /\ k[1] = m
               /\ Transfers(r, k[1]) <=> k[1] = m
               /\ surplus[k] \in Int /\ unanswered[k[1]] \in Int
    BY <1>1, <1>2, <1>4 DEF Vouches, Transfers
  <2>5. AnswerStep(c)
    <3> SUFFICES ASSUME NEW k \in Messages \X Mailboxes
                 PROVE  /\ surplus'[k] - surplus[k]
                             - One(Vouches(r, k)) + One(Vouches(sess[c], k)) = 0
                        /\ unanswered'[k[1]] - unanswered[k[1]]
                             - One(Transfers(r, k[1])) + One(Transfers(sess[c], k[1])) = 0
      BY <2>3 DEF AnswerStep
    <3>1. surplus'[k] = surplus[k] + One(Vouches(r, k)) BY <1>4
    <3>2. unanswered'[k[1]] = unanswered[k[1]] + One(sess[c].ph = "mail" /\ k[1] = m) BY <1>4
    <3> QED BY <1>1, <2>4, <3>1, <3>2 DEF One
  <2> QED BY <2>1, <2>2, <2>5, SessionMove
<1>5. CASE Data(c)
  <2> DEFINE r == [sess[c] EXCEPT !.ph = "saving"]
  <2>1. /\ r \in SessionType /\ r.ph = "saving" /\ r.msg = m /\ r.recipients = sess[c].recipients
    BY <1>1 DEF SessionType
  <2>2. sess' = [sess EXCEPT ![c] = r] /\ sess[c].ph = "mail"
        /\ surplus' = surplus /\ unanswered' = [unanswered EXCEPT ![m] = @ + 1]
    BY <1>5 DEF Data
  <2> HIDE DEF r
  <2>3. \A k \in Messages \X Mailboxes : surplus'[k] = surplus[k] + One(Vouches(r, k))
    <3>1. \A k \in Messages \X Mailboxes : ~Vouches(r, k) /\ surplus[k] \in Int
      BY <1>2, <2>1 DEF Vouches
    <3> QED BY <2>2, <3>1 DEF One
  <2>4. \A k \in Messages \X Mailboxes :
          unanswered'[k[1]] = unanswered[k[1]] + One(sess[c].ph = "mail" /\ k[1] = m)
    BY <1>1, <1>2, <2>2 DEF One
  <2>5. surplus' \in [Messages \X Mailboxes -> Int] /\ unanswered' \in [Messages -> Int]
    BY <1>1, <1>2, <2>2
  <2> QED BY <1>4, <2>1, <2>2, <2>3, <2>4, <2>5
<1>6. CASE DataFails(c)
  <2> DEFINE q == [sess[c] EXCEPT !.ph = "replying"]
             r == [q EXCEPT !.reply = 552]
  <2>1. /\ r \in SessionType /\ r.ph = "replying" /\ r.msg = m /\ r.reply = 552
        /\ r.recipients = sess[c].recipients
    <3>1. q \in SessionType /\ q.ph = "replying" /\ q.msg = m /\ q.recipients = sess[c].recipients
      BY <1>1 DEF SessionType
    <3> HIDE DEF q
    <3> QED BY <3>1 DEF SessionType
  <2>2. sess' = [sess EXCEPT ![c] = r]
    <3>1. sess' = [sess EXCEPT ![c] = [sess[c] EXCEPT !.ph = "replying", !.reply = 552]]
      BY <1>6, ZenonT(60) DEF DataFails
    <3>2. [sess[c] EXCEPT !.ph = "replying", !.reply = 552] = r OBVIOUS
    <3> QED BY <3>1, <3>2
  <2>3. /\ sess[c].ph = "mail" /\ surplus' = surplus
        /\ unanswered' = [unanswered EXCEPT ![m] = @ + 1]
    BY <1>6 DEF DataFails
  <2> HIDE DEF r
  <2>4. \A k \in Messages \X Mailboxes : surplus'[k] = surplus[k] + One(Vouches(r, k))
    <3>1. \A k \in Messages \X Mailboxes : ~Vouches(r, k) /\ surplus[k] \in Int
      BY <1>2, <2>1 DEF Vouches
    <3> QED BY <2>3, <3>1 DEF One
  <2>5. \A k \in Messages \X Mailboxes :
          unanswered'[k[1]] = unanswered[k[1]] + One(sess[c].ph = "mail" /\ k[1] = m)
    BY <1>1, <1>2, <2>3 DEF One
  <2>6. surplus' \in [Messages \X Mailboxes -> Int] /\ unanswered' \in [Messages -> Int]
    BY <1>1, <1>2, <2>3
  <2>7. \A k \in Messages \X Mailboxes :
          /\ surplus'[k] = surplus[k] + One(Vouches(r, k))
          /\ unanswered'[k[1]] = unanswered[k[1]] + One(sess[c].ph = "mail" /\ k[1] = m)
    BY <2>4, <2>5
  <2> QED BY <1>4, <2>1, <2>2, <2>6, <2>7, ZenonT(60)
<1>7. CASE SaveOK(c)
  <2> DEFINE q == [sess[c] EXCEPT !.ph = "replying"]
             r == [q EXCEPT !.reply = 250]
  <2>1. /\ r \in SessionType /\ r.ph = "replying" /\ r.msg = m /\ r.reply = 250
        /\ r.recipients = sess[c].recipients
    <3>1. q \in SessionType /\ q.ph = "replying" /\ q.msg = m /\ q.recipients = sess[c].recipients
      BY <1>1 DEF SessionType
    <3> HIDE DEF q
    <3> QED BY <3>1 DEF SessionType
  <2>2. sess' = [sess EXCEPT ![c] = r]
    <3>1. sess' = [sess EXCEPT ![c] = [sess[c] EXCEPT !.ph = "replying", !.reply = 250]]
      BY <1>7, ZenonT(60) DEF SaveOK
    <3>2. [sess[c] EXCEPT !.ph = "replying", !.reply = 250] = r OBVIOUS
    <3> QED BY <3>1, <3>2
  <2>3. /\ sess[c].ph = "saving" /\ unanswered' = unanswered
        /\ surplus' = [k \in DOMAIN surplus |->
             surplus[k] + IF k[1] = m /\ k[2] \in sess[c].recipients THEN 1 ELSE 0]
    BY <1>7 DEF SaveOK
  <2> HIDE DEF r
  <2>4. \A k \in Messages \X Mailboxes :
          Vouches(r, k) <=> k[1] = m /\ k[2] \in sess[c].recipients
    BY <2>1 DEF Vouches
  <2>5. \A k \in Messages \X Mailboxes :
          /\ surplus'[k] = surplus[k] + One(Vouches(r, k))
          /\ unanswered'[k[1]] = unanswered[k[1]] + One(sess[c].ph = "mail" /\ k[1] = m)
    BY <1>2, <2>3, <2>4 DEF One
  <2>6. surplus' \in [Messages \X Mailboxes -> Int] /\ unanswered' \in [Messages -> Int]
    BY <1>1, <1>2, <2>3
  <2> QED BY <1>4, <2>1, <2>2, <2>5, <2>6
<1>8. CASE SaveFails(c)
  <2> DEFINE q == [sess[c] EXCEPT !.ph = "replying"]
             r == [q EXCEPT !.reply = 451]
  <2>1. /\ r \in SessionType /\ r.ph = "replying" /\ r.msg = m /\ r.reply = 451
        /\ r.recipients = sess[c].recipients
    <3>1. q \in SessionType /\ q.ph = "replying" /\ q.msg = m /\ q.recipients = sess[c].recipients
      BY <1>1 DEF SessionType
    <3> HIDE DEF q
    <3> QED BY <3>1 DEF SessionType
  <2>2. sess' = [sess EXCEPT ![c] = r]
    <3>1. sess' = [sess EXCEPT ![c] = [sess[c] EXCEPT !.ph = "replying", !.reply = 451]]
      <4>1. sess' = [sess EXCEPT ![c].ph = "replying", ![c].reply = 451]
        BY <1>8 DEF SaveFails
      <4> QED BY <4>1, ZenonT(60)
    <3>2. [sess[c] EXCEPT !.ph = "replying", !.reply = 451] = r OBVIOUS
    <3> QED BY <3>1, <3>2
  <2>3. sess[c].ph = "saving" /\ surplus' = surplus /\ unanswered' = unanswered
    BY <1>8 DEF SaveFails, delivery
  <2> HIDE DEF r
  <2>4. \A k \in Messages \X Mailboxes : surplus'[k] = surplus[k] + One(Vouches(r, k))
    <3>1. \A k \in Messages \X Mailboxes : ~Vouches(r, k) /\ surplus[k] \in Int
      BY <1>2, <2>1 DEF Vouches
    <3> QED BY <2>3, <3>1 DEF One
  <2>5. \A k \in Messages \X Mailboxes :
          unanswered'[k[1]] = unanswered[k[1]] + One(sess[c].ph = "mail" /\ k[1] = m)
    BY <1>1, <1>2, <2>3 DEF One
  <2>6. surplus' \in [Messages \X Mailboxes -> Int] /\ unanswered' \in [Messages -> Int]
    BY <1>1, <1>2, <2>3
  <2>7. \A k \in Messages \X Mailboxes :
          /\ surplus'[k] = surplus[k] + One(Vouches(r, k))
          /\ unanswered'[k[1]] = unanswered[k[1]] + One(sess[c].ph = "mail" /\ k[1] = m)
    BY <2>4, <2>5
  <2> QED BY <1>4, <2>1, <2>2, <2>6, <2>7, ZenonT(60)
<1> QED BY <1>5, <1>6, <1>7, <1>8

\* The answer to DATA takes its copies and its transfer off the account.
LEMMA ReplyInv == ASSUME SmtpInv, NEW c \in Conns, Reply(c) PROVE SmtpInv'
<1> DEFINE m == sess[c].msg
           r == [NoSession EXCEPT !.ph = "idle"]
<1>1. /\ sess \in [Conns -> SessionType] /\ sess[c].ph = "replying" /\ m \in Messages
      /\ sess[c].recipients = {normalizeRecipient(a) : a \in said[c]}
      /\ surplus \in [Messages \X Mailboxes -> Int] /\ unanswered \in [Messages -> Int]
      /\ said \in [Conns -> SUBSET Addresses]
  BY DEF SmtpInv, TypeOK, SessionType, Transactions, InTransaction, Reply, TypeHistory
<1>2. r \in SessionType /\ r.ph = "idle" BY DEF SessionType, NoSession
<1>3. /\ sess' = [sess EXCEPT ![c] = r] /\ said' = [said EXCEPT ![c] = {}]
      /\ unanswered' = [unanswered EXCEPT ![m] = @ - 1] /\ UNCHANGED <<admission, client>>
  BY DEF Reply
<1>4. surplus' = [k \in DOMAIN surplus |-> surplus[k] - One(Vouches(sess[c], k))]
  <2>1. \A k \in DOMAIN surplus :
          Vouches(sess[c], k) <=> /\ sess[c].reply = 250 /\ k[1] = m
                                  /\ \E a \in said[c] : normalizeRecipient(a) = k[2]
    BY <1>1 DEF Vouches
  <2> QED BY <2>1 DEF Reply, One
<1> HIDE DEF r
<1>5. sess'[c] = r /\ \A d \in Conns \ {c} : sess'[d] = sess[d] /\ said'[d] = said[d]
  BY <1>1, <1>3
<1>6. SessionStep(c, r) BY <1>1, <1>2, <1>3, <1>5 DEF SessionStep
<1>7. TypeHistory' BY <1>1, <1>3, <1>4 DEF TypeHistory, One
<1>8. AnswerStep(c)
  <2> SUFFICES ASSUME NEW k \in Messages \X Mailboxes
               PROVE  /\ surplus'[k] - surplus[k]
                           - One(Vouches(r, k)) + One(Vouches(sess[c], k)) = 0
                      /\ unanswered'[k[1]] - unanswered[k[1]]
                           - One(Transfers(r, k[1])) + One(Transfers(sess[c], k[1])) = 0
    BY <1>5 DEF AnswerStep
  <2>1. /\ ~Vouches(r, k) /\ ~Transfers(r, k[1])
        /\ Transfers(sess[c], k[1]) <=> k[1] = m
    BY <1>1, <1>2 DEF Vouches, Transfers
  <2>2. surplus'[k] = surplus[k] - One(Vouches(sess[c], k)) /\ surplus[k] \in Int BY <1>1, <1>4
  <2>3. /\ unanswered'[k[1]] = unanswered[k[1]] - One(k[1] = m) /\ unanswered[k[1]] \in Int
    BY <1>1, <1>3 DEF One
  <2> QED BY <2>1, <2>2, <2>3 DEF One
<1> QED BY <1>6, <1>7, <1>8, SessionMove

\* A session that ends loses the answer it still had to give: the copies stay
\* on the account beside their transfer.
LEMMA EndSessionInv == ASSUME SmtpInv, NEW c \in Conns, EndSession(c) PROVE SmtpInv'
<1> DEFINE r == [NoSession EXCEPT !.ph = "ended"]
<1>1. /\ sess \in [Conns -> SessionType] /\ said \in [Conns -> SUBSET Addresses]
      /\ surplus \in [Messages \X Mailboxes -> Int] /\ unanswered \in [Messages -> Int]
  BY DEF SmtpInv, TypeOK, SessionType, TypeHistory
<1>2. r \in SessionType /\ r.ph = "ended" BY DEF SessionType, NoSession
<1>3. /\ sess' = [sess EXCEPT ![c] = r] /\ said' = [said EXCEPT ![c] = {}]
      /\ UNCHANGED <<admission, client, delivery>>
  BY DEF EndSession
<1> HIDE DEF r
<1>4. sess'[c] = r /\ \A d \in Conns \ {c} : sess'[d] = sess[d] /\ said'[d] = said[d]
  BY <1>1, <1>3
<1>5. SessionStep(c, r) BY <1>1, <1>2, <1>3, <1>4 DEF SessionStep
<1>6. TypeHistory' BY <1>1, <1>3 DEF TypeHistory, delivery
<1>7. AnswerStep(c)
  <2>1. ASSUME NEW k \in Messages \X Mailboxes
        PROVE  /\ ~Vouches(r, k) /\ ~Transfers(r, k[1])
               /\ Vouches(sess[c], k) => Transfers(sess[c], k[1])
               /\ surplus'[k] = surplus[k] /\ surplus[k] \in Int
               /\ unanswered'[k[1]] = unanswered[k[1]] /\ unanswered[k[1]] \in Int
    BY <1>1, <1>2, <1>3 DEF Vouches, Transfers, delivery
  <2> QED BY <1>4, <2>1 DEF AnswerStep, One
<1> QED BY <1>5, <1>6, <1>7, SessionMove

-----------------------------------------------------------------------------
(* The invariant.                                                           *)

\* The server starts with no connection and nothing delivered.
LEMMA InitInv == ASSUME Init PROVE SmtpInv
<1>1. TypeOK
  <2>1. NoSession \in SessionType BY DEF NoSession, SessionType
  <2>2. shut \in BOOLEAN /\ client \in [Conns -> BOOLEAN] BY Zenon DEF Init
  <2>3. DOMAIN sources = {} /\ sources \in [DOMAIN sources -> Nat] BY DEF Init
  <2> QED BY <2>1, <2>2, <2>3 DEF Init, TypeOK, SessionType
<1>2. TypeHistory BY DEF Init, TypeHistory
<1>3. /\ \A S : S \subseteq {"slot", "held", "closing", "half", "rejecting"} => Holding(S) = {}
      /\ Cardinality({}) = 0
  BY FS_EmptySet DEF Init, Holding
<1>4. SlotsExact
  <2>1. Holding({"slot", "held", "closing", "half"}) = {} /\ Holding({"rejecting"}) = {} BY <1>3
  <2>2. /\ Cardinality(Holding({"slot", "held", "closing", "half"})) = 0
        /\ Cardinality(Holding({"rejecting"})) = 0
    BY <2>1, FS_EmptySet
  <2> QED BY <2>2 DEF Init, SlotsExact
<1>5. SourcesExact
  <2>1. DOMAIN sources = {} BY DEF Init
  <2>2. \A s \in Sources : {c \in Holding({"held", "closing"}) : Source[c] = s} = {} BY <1>3
  <2>3. \A s \in Sources : Cardinality({c \in Holding({"held", "closing"}) : Source[c] = s}) = 0
    BY <2>2, FS_EmptySet
  <2>4. \A s \in Sources : Count(s) = 0 BY <2>1 DEF Count
  <2> QED BY <2>1, <2>3, <2>4 DEF SourcesExact
<1>6. Transactions /\ LiveHeld
  BY DEF Init, Transactions, LiveHeld, InTransaction, NoSession
<1>7. Answers
  <2> SUFFICES ASSUME NEW k \in Messages \X Mailboxes
               PROVE  surplus[k] - Cardinality(Vouching(k)) \in
                        0 .. unanswered[k[1]] - Cardinality(Transferring(k[1]))
    BY DEF Answers
  <2>1. Vouching(k) = {} /\ Transferring(k[1]) = {}
    BY DEF Init, NoSession, Vouching, Transferring, Vouches, Transfers
  <2>2. surplus[k] = 0 /\ unanswered[k[1]] = 0 BY DEF Init
  <2> QED BY <1>3, <2>1, <2>2
<1> QED BY <1>1, <1>2, <1>4, <1>5, <1>6, <1>7 DEF SmtpInv

\* Every step of the server, the engine and the clients keeps the invariant.
LEMMA NextInv == ASSUME SmtpInv, [Next]_vars PROVE SmtpInv'
<1>1. CASE Close
  <2>1. TypeHistory' /\ Transactions' /\ Answers' BY <1>1, SessionsRest DEF Close, delivery
  <2>2. UNCHANGED <<conn, sessions, sources, rejects, sess, client>> /\ shut' = TRUE
    BY <1>1 DEF Close
  <2>3. TypeOK' /\ SlotsExact' /\ SourcesExact' /\ LiveHeld'
    BY <2>2 DEF SmtpInv, TypeOK, SlotsExact, SourcesExact, LiveHeld, Holding, Count
  <2> QED BY <2>1, <2>3 DEF SmtpInv
<1>2. ASSUME NEW c \in Conns, Session(c) PROVE SmtpInv'
  BY <1>2, CollectInv, TransferInv, ReplyInv, EndSessionInv DEF Session
<1>3. ASSUME NEW c \in Conns, Drop(c) PROVE SmtpInv'
  <2>1. TypeHistory' /\ Transactions' /\ Answers' BY <1>3, SessionsRest DEF Drop, delivery
  <2>2. SlotsExact' /\ SourcesExact' BY <1>3, AdmissionRests DEF Drop
  <2>3. TypeOK' /\ LiveHeld' BY <1>3 DEF Drop, SmtpInv, TypeOK, LiveHeld, admission
  <2> QED BY <2>1, <2>2, <2>3 DEF SmtpInv
<1>4. CASE UNCHANGED vars
  <2>1. TypeHistory' /\ Transactions' /\ Answers' BY <1>4, SessionsRest DEF vars
  <2>2. SlotsExact' /\ SourcesExact' BY <1>4, AdmissionRests DEF vars, admission
  <2>3. TypeOK' /\ LiveHeld' BY <1>4 DEF vars, SmtpInv, TypeOK, LiveHeld
  <2> QED BY <2>1, <2>2, <2>3 DEF SmtpInv
<1> QED BY <1>1, <1>2, <1>3, <1>4, AdmitInv, ReleaseInv DEF Next

\* The inductive invariant: what admission counts, what sessions hold, and the
\* account of copies and answers.
THEOREM SmtpInvariance == Spec => []SmtpInv
<1>1. Init => SmtpInv BY InitInv
<1>2. SmtpInv /\ [Next]_vars => SmtpInv' BY NextInv
<1> QED BY <1>1, <1>2, PTL DEF Spec

\* The counters and the sessions stay in their types (smtp.go:30-76).
THEOREM SmtpTyping == Spec => []TypeOK
<1>1. SmtpInv => TypeOK BY DEF SmtpInv
<1> QED BY <1>1, SmtpInvariance, PTL

\* No path of Accept, Close or a rejection leaks or frees a session slot or a
\* rejection goroutine twice, under any limits (smtp.go:115-179).
THEOREM Slots == Spec => []SlotsExact
<1>1. SmtpInv => SlotsExact BY DEF SmtpInv
<1> QED BY <1>1, SmtpInvariance, PTL

\* The map of sources holds exactly the admitted connections of each source,
\* within the limit, and no entry without one (smtp.go:181-199).
THEOREM SourceCounts == Spec => []SourcesExact
<1>1. SmtpInv => SourcesExact BY DEF SmtpInv
<1> QED BY <1>1, SmtpInvariance, PTL

\* A delivery that is in Save still holds its slot, whatever its client does,
\* until the server closes (smtp.go:148-158, 280).
THEOREM DeliveryHoldsSlot == Spec => []SaveHoldsSlot
<1>1. SmtpInv => SaveHoldsSlot BY DEF SmtpInv, LiveHeld, SaveHoldsSlot
<1> QED BY <1>1, SmtpInvariance, PTL

\* A 250 after DATA stands for one copy in every mailbox named since the last
\* MAIL, an error for none, and every other copy for an answer that was lost
\* (smtp.go:234-305).
THEOREM Honesty == Spec => []AnswersHonest
<1>1. ASSUME SmtpInv PROVE AnswersHonest
  <2> SUFFICES ASSUME NEW k \in Messages \X Mailboxes PROVE surplus[k] \in 0 .. unanswered[k[1]]
    BY <1>1 DEF AnswersHonest, SmtpInv, TypeHistory
  <2>1. /\ surplus[k] \in Int /\ unanswered[k[1]] \in Int
        /\ surplus[k] - Cardinality(Vouching(k)) \in
             0 .. unanswered[k[1]] - Cardinality(Transferring(k[1]))
    BY <1>1 DEF SmtpInv, TypeHistory, Answers
  <2>2. Vouching(k) \subseteq Transferring(k[1]) /\ Transferring(k[1]) \subseteq Conns
    BY DEF Vouching, Transferring, Vouches, Transfers
  <2>3. IsFiniteSet(Transferring(k[1])) BY <2>2, FS_Subset
  <2>4. /\ Cardinality(Vouching(k)) \in Nat /\ Cardinality(Transferring(k[1])) \in Nat
        /\ Cardinality(Vouching(k)) <= Cardinality(Transferring(k[1]))
    BY <2>2, <2>3, FS_Subset, FS_CardinalityType
  <2> QED BY <2>1, <2>4
<1> QED BY <1>1, SmtpInvariance, PTL
=============================================================================
