---------------------------- MODULE MCSmtpServer ----------------------------
(* Small instances of SmtpServer. *)
EXTENDS SmtpServer

Addr(l, d) == [local |-> l, domain |-> d]
\* Two mailboxes, one spelled in capitals, and an address that is not served.
SomeAddresses == {Addr("a", "mail.test"), Addr("b", "MAIL.TEST"),
                  Addr("b", "other.test")}

\* Two connections share a source.
TwoSources == [c \in {1, 2, 3} |-> IF c = 3 THEN "other" ELSE "same"]
=============================================================================
