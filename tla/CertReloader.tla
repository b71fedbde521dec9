----------------------------- MODULE CertReloader -----------------------------
(***************************************************************************)
(* tlsCertificateReloader (internal/app/smtp.go), used for STARTTLS and    *)
(* for manual HTTPS: before each handshake it compares the state of the    *)
(* certificate file and the key file (modification time and size) with the *)
(* state it loaded and the state it failed to load, and reloads them while *)
(* a certificate manager may replace either file at any moment.            *)
(*                                                                         *)
(* The state of a file is the number of the write that produced it: every  *)
(* write is assumed to change its time or its size.  Handshakes hold the   *)
(* reloader's mutex, so one is in progress at a time.                      *)
(***************************************************************************)
EXTENDS Integers

CONSTANTS
  Pairs,         \* certificates, each with its private key
  First,         \* the pair in place when the service starts
  KeyOf,         \* the key of a pair; a renewal may keep the key
  Covers,        \* pairs whose certificate covers the server name
  NotBefore, NotAfter,
  MaxWrites,     \* bound on writes by the manager
  MaxTime        \* bound on the clock

ASSUME ReloaderAssumption ==
  /\ "partial" \notin Pairs /\ Covers \subseteq Pairs /\ First \in Covers
  /\ KeyOf \in [Pairs -> STRING]
  /\ NotBefore \in [Pairs -> Nat] /\ NotAfter \in [Pairs -> Nat]
  /\ NotBefore[First] = 0 /\ NotAfter[First] > 0
  /\ MaxWrites \in Nat /\ MaxTime \in Nat

VARIABLES
  cert, key,   \* the files: [pair, write]; a truncated file holds "partial"
  served,      \* r.cert: the pairs its certificate and its key come from
  state,       \* r.state
  failedState, hasFailed,  \* r.failedReloadState, r.hasFailedReload
  pc,          \* the handshake in progress; "idle": none
  hs,          \* its locals: states seen and contents read
  now,         \* time.Now()
  unread       \* history: states whose load met an I/O error

files == <<cert, key>>
reloader == <<served, state, failedState, hasFailed, unread>>
vars == <<cert, key, served, state, failedState, hasFailed, pc, hs, now, unread>>

NoHandshake == [state |-> <<0, 0>>, before |-> <<0, 0>>, after |-> <<0, 0>>,
                read |-> <<First, First>>]

-----------------------------------------------------------------------------
(* The certificate manager, and time.                                       *)

Writes == IF cert.write > key.write THEN cert.write ELSE key.write

Replace ==
  /\ Writes < MaxWrites
  /\ \E p \in Pairs \cup {"partial"} :
       \/ cert' = [pair |-> p, write |-> Writes + 1] /\ UNCHANGED key
       \/ key' = [pair |-> p, write |-> Writes + 1] /\ UNCHANGED cert
  /\ UNCHANGED <<reloader, pc, hs, now>>

Tick == now < MaxTime /\ now' = now + 1 /\ UNCHANGED <<files, reloader, pc, hs>>

-----------------------------------------------------------------------------
(* GetCertificate and loadTLSCertificate, one look at a file at a time.     *)

Look(from, to, field, i) ==
  /\ pc = from /\ pc' = to
  /\ hs' = [hs EXCEPT ![field][i] = IF i = 1 THEN cert.write ELSE key.write]
  /\ UNCHANGED <<files, reloader, now>>

Begin == Look("idle", "stat", "state", 1)
Stat  == Look("stat", "compare", "state", 2)

Known(s) == s = state \/ (hasFailed /\ s = failedState)

Compare ==
  /\ pc = "compare"
  /\ IF Known(hs.state) THEN pc' = "idle" /\ hs' = NoHandshake
                        ELSE pc' = "before" /\ UNCHANGED hs
  /\ UNCHANGED <<files, reloader, now>>

Before1 == Look("before", "before2", "before", 1)
Before2 == Look("before2", "read", "before", 2)

\* LoadX509KeyPair reads the certificate, then the key.
ReadCert ==
  /\ pc = "read" /\ pc' = "read2"
  /\ hs' = [hs EXCEPT !.read[1] = cert.pair]
  /\ UNCHANGED <<files, reloader, now>>
ReadKey ==
  /\ pc = "read2" /\ pc' = "verify"
  /\ hs' = [hs EXCEPT !.read[2] = key.pair]
  /\ UNCHANGED <<files, reloader, now>>

Complete == /\ hs.read[1] \in Covers /\ hs.read[2] \in Pairs
            /\ KeyOf[hs.read[1]] = KeyOf[hs.read[2]]
NotYetValid == Complete /\ now < NotBefore[hs.read[1]]
Valid == Complete /\ now >= NotBefore[hs.read[1]] /\ now < NotAfter[hs.read[1]]

Verify ==
  /\ pc = "verify"
  /\ pc' = IF Valid THEN "after" ELSE IF NotYetValid THEN "notYetValid" ELSE "failed"
  /\ UNCHANGED <<files, reloader, hs, now>>

After1 == Look("after", "after2", "after", 1)
After2 == Look("after2", "settle", "after", 2)

\* Mutant: the files may change while they are read.
LoadedAnyway == TRUE

LoadedUnchanged == hs.before = hs.after

Adopt ==
  /\ pc = "settle" /\ LoadedUnchanged
  /\ served' = hs.read /\ state' = hs.after /\ hasFailed' = FALSE
  /\ pc' = "idle" /\ hs' = NoHandshake
  /\ UNCHANGED <<files, failedState, now, unread>>

\* Mutant: a pair that is not valid yet is not looked at again.
RememberAll(why) == TRUE

\* A future-dated pair may become valid without another file change.
Remember(why) == why # "notYetValid"

\* The last valid pair stays.
Fail ==
  /\ pc \in {"failed", "notYetValid"} \/ (pc = "settle" /\ ~LoadedUnchanged)
  /\ failedState' = hs.state /\ hasFailed' = Remember(pc)
  /\ pc' = "idle" /\ hs' = NoHandshake
  /\ UNCHANGED <<files, served, state, now, unread>>

\* A stat fails before the load: nothing is remembered.
StatFails ==
  /\ pc = "stat" /\ pc' = "idle" /\ hs' = NoHandshake
  /\ UNCHANGED <<files, reloader, now>>

\* A stat or a read fails during the load.
LoadFails ==
  /\ pc \in {"before", "before2", "read", "read2", "after", "after2"}
  /\ pc' = "failed" /\ unread' = unread \cup {hs.state}
  /\ UNCHANGED <<files, served, state, failedState, hasFailed, hs, now>>

-----------------------------------------------------------------------------
Init ==
  /\ cert = [pair |-> First, write |-> 0] /\ key = cert
  /\ served = <<First, First>> /\ state = <<0, 0>>
  /\ failedState = <<0, 0>> /\ hasFailed = FALSE
  /\ pc = "idle" /\ hs = NoHandshake /\ now = 0 /\ unread = {}

Handshake == \/ Stat \/ Compare \/ Before1 \/ Before2 \/ ReadCert \/ ReadKey \/ Verify
             \/ After1 \/ After2 \/ Adopt \/ Fail
Next == Begin \/ Handshake \/ StatFails \/ LoadFails \/ Replace \/ Tick

Spec == Init /\ [][Next]_vars

\* Handshakes keep coming, and each runs to its end.
FairSpec == Spec /\ WF_vars(Begin) /\ WF_vars(Handshake)

-----------------------------------------------------------------------------
(* Properties.                                                              *)

\* Every variable stays in its type; what is served is a complete pair.
TypeOK ==
  /\ \A f \in {cert, key} : f \in [pair : Pairs \cup {"partial"}, write : 0 .. MaxWrites]
  /\ served \in Pairs \X Pairs /\ state \in Nat \X Nat
  /\ failedState \in Nat \X Nat /\ hasFailed \in BOOLEAN
  /\ pc \in {"idle", "stat", "compare", "before", "before2", "read", "read2", "verify",
             "after", "after2", "settle", "failed", "notYetValid"}
  /\ now \in 0 .. MaxTime

\* The state the reloader remembers is that of the files its certificate came
\* from: as long as they look the same, what is served is what they hold, and
\* the certificate always goes with its key.
StateTruthful ==
  /\ <<cert.write, key.write>> = state => served = <<cert.pair, key.pair>>
  /\ KeyOf[served[1]] = KeyOf[served[2]]

InPlace(p) == cert.pair = p /\ key.pair = p /\ NotBefore[p] <= now /\ now < NotAfter[p]

\* "adopts a complete valid replacement, and keeps serving the last valid pair
\* if renewal files are incomplete or invalid" (README.md): whatever was in
\* the files meanwhile, in whatever order they were replaced, and though the
\* pair may turn valid only later, a valid pair that stays in place is served
\* in the end, unless reading that very pair met an I/O error.
ReplacementAdopted ==
  <>[][~StatFails]_vars =>
    \A p \in Pairs \cap Covers :
      <>[](InPlace(p) /\ <<cert.write, key.write>> \notin unread) => <>[](served = <<p, p>>)

\* The same without the exception: stats and reads may fail at first, and
\* the replacement is adopted once they no longer do.
AdoptedOnceReadable ==
  <>[][~StatFails /\ ~LoadFails]_vars =>
    \A p \in Pairs \cap Covers : <>[]InPlace(p) => <>[](served = <<p, p>>)

-----------------------------------------------------------------------------
(* The inductive invariant behind the theorems of CertReloaderProofs.       *)

Content == Pairs \cup {"partial"}
TypeHandshake == hs \in [state : Nat \X Nat, before : Nat \X Nat, after : Nat \X Nat,
                         read : Content \X Content]

\* Writes only go up, so a state seen earlier is not ahead of the files.
Seen(s) == s[1] <= cert.write /\ s[2] <= key.write

\* What was read is what the file holds, if it has not been written since the
\* look before the load.
ReadSince(i, f) == hs.before[i] = f.write => hs.read[i] = f.pair

Loading ==
  /\ pc \in {"before2", "read", "read2", "verify", "after", "after2", "settle"} =>
       hs.before[1] <= cert.write
  /\ pc \in {"read", "read2", "verify", "after", "after2", "settle"} =>
       hs.before[2] <= key.write
  /\ pc \in {"read2", "verify", "after", "after2", "settle"} => ReadSince(1, cert)
  /\ pc \in {"verify", "after", "after2", "settle"} => ReadSince(2, key)
  /\ pc \in {"after", "after2", "settle"} => Complete
  /\ pc = "after2" => hs.after[1] <= cert.write
  /\ pc = "settle" => Seen(hs.after)

ReloaderInv ==
  /\ TypeOK /\ TypeHandshake /\ Loading
  /\ Seen(state) /\ KeyOf[served[1]] = KeyOf[served[2]]
  /\ cert.write = state[1] => served[1] = cert.pair
  /\ key.write = state[2] => served[2] = key.pair
=============================================================================
