------------------------------ MODULE Mailbox ------------------------------
(***************************************************************************)
(* What the message store promises to SMTP sessions and to readers, with   *)
(* no files, tables, locks or I/O errors: a set of readable messages that  *)
(* a delivery enters as a whole or not at all, and that a message leaves   *)
(* only by expiring or by making room for a delivery.  MailStore           *)
(* implements it.                                                          *)
(***************************************************************************)
EXTENDS Integers, FiniteSets

CONSTANTS Capacity,   \* bytes of mail kept; a delivery shared by several
                      \* recipients counts once
          Lifetime,   \* seconds a message is kept
          Fold(_)     \* the canonical form of a recipient address

VARIABLES mail,    \* id -> [rcpt, blob, size, received, expires]
          answer,  \* the delivery being handled: "none", "working",
                   \* "accepted" or "refused"
          clock

mailVars == <<mail, answer, clock>>

Bodies(m) == {<<m[i].blob, m[i].size>> : i \in DOMAIN m}
LiveBytes(m) == Cardinality(UNION {{d} \X (1 .. d[2]) : d \in Bodies(m)})

\* Whatever an earlier version of the program left behind.
MailInit == IsFiniteSet(DOMAIN mail) /\ answer = "none" /\ clock = 0

Request == answer = "none" /\ answer' = "working" /\ UNCHANGED <<mail, clock>>

\* All recipients at once, each in canonical form, under one new blob; what
\* it displaces goes in the same step, and what remains fits.
Accept ==
  /\ answer = "working" /\ answer' = "accepted"
  /\ LET new == DOMAIN mail' \ DOMAIN mail
         kept == DOMAIN mail' \cap DOMAIN mail
     IN  /\ new # {}
         /\ \A i \in kept : mail'[i] = mail[i]
         /\ \A i \in new :
              /\ mail'[i].rcpt = Fold(mail'[i].rcpt)
              /\ mail'[i].expires = mail'[i].received + Lifetime
              /\ mail'[i].received <= clock
              /\ \A j \in DOMAIN mail' : mail'[j].blob = mail'[i].blob <=> j \in new
              /\ \A j \in new : mail'[j].rcpt = mail'[i].rcpt => i = j
         /\ LiveBytes(mail') <= Capacity
  /\ UNCHANGED clock

Refuse == answer = "working" /\ answer' = "refused" /\ UNCHANGED <<mail, clock>>

Answer == answer \in {"accepted", "refused"} /\ answer' = "none" /\ UNCHANGED <<mail, clock>>

\* Only expired messages, and none altered.
Expire ==
  /\ DOMAIN mail' \subseteq DOMAIN mail
  /\ \A i \in DOMAIN mail' : mail'[i] = mail[i]
  /\ \A i \in DOMAIN mail \ DOMAIN mail' : mail[i].expires <= clock
  /\ UNCHANGED <<answer, clock>>

\* A restart folds the addresses older versions stored; a delivery under way
\* is forgotten, whether or not it was accepted.
Restart ==
  /\ mail' \in {mail, [i \in DOMAIN mail |-> [mail[i] EXCEPT !.rcpt = Fold(@)]]}
  /\ answer' = "none" /\ UNCHANGED clock

Wait == clock' = clock + 1 /\ UNCHANGED <<mail, answer>>

MailNext == Request \/ Accept \/ Refuse \/ Answer \/ Expire \/ Restart \/ Wait

MailSpec == MailInit /\ [][MailNext]_mailVars
=============================================================================
