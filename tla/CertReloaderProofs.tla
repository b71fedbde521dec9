------------------------- MODULE CertReloaderProofs -------------------------
(* Theorems about CertReloader, for any number of pairs and writes. *)
EXTENDS CertReloader, TLAPS

USE ReloaderAssumption

\* The service starts with the pair it loaded and no handshake.
LEMMA InitReloader == ASSUME Init PROVE ReloaderInv
<1>1. /\ cert \in [pair : Content, write : 0 .. MaxWrites] /\ key = cert
      /\ First \in Pairs /\ served = <<First, First>> /\ state = <<0, 0>>
  BY DEF Init, Content
<1>2. TypeOK
  <2>1. \A f \in {cert, key} : f \in [pair : Pairs \cup {"partial"}, write : 0 .. MaxWrites]
    BY <1>1 DEF Content
  <2>2. served \in Pairs \X Pairs /\ state \in Nat \X Nat /\ failedState \in Nat \X Nat
    BY <1>1 DEF Init
  <2>3. hasFailed \in BOOLEAN BY Zenon DEF Init
  <2>4. now \in 0 .. MaxTime BY DEF Init
  <2> QED BY <2>1, <2>2, <2>3, <2>4 DEF Init, TypeOK
<1>3. TypeHandshake BY <1>1 DEF Init, TypeHandshake, NoHandshake, Content
<1>4. Loading BY DEF Init, Loading
<1>5. Seen(state) BY DEF Init, Seen
<1> QED BY <1>1, <1>2, <1>3, <1>4, <1>5 DEF Init, ReloaderInv

\* A look at a file sees a state that is not ahead of it.
LEMMA LookReloader ==
  ASSUME ReloaderInv, Begin \/ Stat \/ Before1 \/ Before2 \/ After1 \/ After2
  PROVE  ReloaderInv'
<1> USE DEF ReloaderInv, TypeOK, TypeHandshake, Loading, Seen, ReadSince, Complete, Look,
            files, reloader, Content
<1>1. CASE Begin BY <1>1 DEF Begin
<1>2. CASE Stat BY <1>2 DEF Stat
<1>3. CASE Before1 BY <1>3 DEF Before1
<1>4. CASE Before2 BY <1>4 DEF Before2
<1>5. CASE After1 BY <1>5 DEF After1
<1>6. CASE After2 BY <1>6 DEF After2
<1> QED BY <1>1, <1>2, <1>3, <1>4, <1>5, <1>6

\* A write of the manager is newer than every state remembered or seen.
LEMMA ReplaceReloader == ASSUME ReloaderInv, Replace PROVE ReloaderInv'
<1>1. PICK p \in Content :
        \/ cert' = [pair |-> p, write |-> Writes + 1] /\ UNCHANGED key
        \/ key' = [pair |-> p, write |-> Writes + 1] /\ UNCHANGED cert
  BY DEF Replace, Content
<1>2. /\ cert.write \in 0 .. MaxWrites /\ key.write \in 0 .. MaxWrites
      /\ cert.write < Writes + 1 /\ key.write < Writes + 1 /\ Writes + 1 \in 0 .. MaxWrites
  BY DEF ReloaderInv, TypeOK, Replace, Writes
<1>3. UNCHANGED <<reloader, pc, hs, now>> BY DEF Replace
<1>4. CASE cert' = [pair |-> p, write |-> Writes + 1] /\ UNCHANGED key
  BY <1>2, <1>3, <1>4 DEF ReloaderInv, TypeOK, TypeHandshake, Loading, Seen, ReadSince,
                          Complete, reloader, Content
<1>5. CASE key' = [pair |-> p, write |-> Writes + 1] /\ UNCHANGED cert
  BY <1>2, <1>3, <1>5 DEF ReloaderInv, TypeOK, TypeHandshake, Loading, Seen, ReadSince,
                          Complete, reloader, Content
<1> QED BY <1>1, <1>4, <1>5

\* A load keeps what it read beside what it saw before, and a handshake that
\* installs a certificate does so with the state its content had.
LEMMA NextReloader == ASSUME ReloaderInv, [Next]_vars PROVE ReloaderInv'
<1> USE DEF ReloaderInv, TypeOK, TypeHandshake, Loading, Seen, ReadSince, Complete,
            files, reloader, Content, NoHandshake
<1>1. CASE Compare BY <1>1 DEF Compare
<1>2. CASE ReadCert BY <1>2 DEF ReadCert
<1>3. CASE ReadKey BY <1>3 DEF ReadKey
<1>4. CASE Verify BY <1>4 DEF Verify, Valid
<1>5. CASE Adopt BY <1>5 DEF Adopt, LoadedUnchanged
<1>6. CASE Fail BY <1>6 DEF Fail, Remember
<1>7. CASE StatFails BY <1>7 DEF StatFails
<1>8. CASE LoadFails BY <1>8 DEF LoadFails
<1>9. CASE Tick BY <1>9 DEF Tick
<1>10. CASE UNCHANGED vars BY <1>10 DEF vars
<1> QED BY <1>1, <1>2, <1>3, <1>4, <1>5, <1>6, <1>7, <1>8, <1>9, <1>10,
           LookReloader, ReplaceReloader DEF Next, Handshake

\* The inductive invariant: what a handshake has seen and read, compared with
\* what the files hold now.
THEOREM ReloaderInvariance == Spec => []ReloaderInv
<1>1. Init => ReloaderInv BY InitReloader
<1>2. ReloaderInv /\ [Next]_vars => ReloaderInv' BY NextReloader
<1> QED BY <1>1, <1>2, PTL DEF Spec

\* However the manager's writes and the looks of a handshake interleave, the
\* remembered state is that of the files the certificate came from, and the
\* certificate goes with its key (GetCertificate, loadTLSCertificate).
THEOREM Truthful == Spec => []StateTruthful
<1>1. ReloaderInv => StateTruthful
  <2> SUFFICES ASSUME ReloaderInv PROVE StateTruthful
    OBVIOUS
  <2>1. served \in Pairs \X Pairs /\ state \in Nat \X Nat
    BY DEF ReloaderInv, TypeOK
  <2>2. ASSUME <<cert.write, key.write>> = state PROVE served = <<cert.pair, key.pair>>
    BY <2>1, <2>2 DEF ReloaderInv
  <2> QED BY <2>2 DEF ReloaderInv, StateTruthful
<1> QED BY <1>1, ReloaderInvariance, PTL

\* Every variable of the reloader keeps its type, and what is served is a
\* complete pair, whatever is in the files.
THEOREM ReloaderTyping == Spec => []TypeOK
<1>1. ReloaderInv => TypeOK BY DEF ReloaderInv
<1> QED BY <1>1, ReloaderInvariance, PTL
=============================================================================
