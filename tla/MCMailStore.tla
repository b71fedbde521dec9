---------------------------- MODULE MCMailStore ----------------------------
(* Small instances of MailStore. *)
EXTENDS MailStore

Addr(l, d) == [local |-> l, domain |-> d]
One(l, n) == [rcpts |-> <<Addr(l, "mail.test")>>, size |-> n]

\* Single recipients only, two sizes.
SingleDeliveries == {One("a", 1), One("a", 2)}
UnitDeliveries == {One("a", 1)}
\* The same mailbox twice in two spellings, and a second mailbox.
SharedDeliveries ==
  {[rcpts |-> <<Addr("b", "MAIL.TEST"), Addr("a", "mail.test"), Addr("b", "mail.test")>>,
    size |-> 1], One("a", 2)}

NoLegacy == [i \in {} |-> 0]
\* One message, accepted under a longer MESSAGE_TTL.
LegacyOne ==
  [i \in {<<11, Addr("a", "MAIL.TEST")>>} |->
     [rcpt |-> i[2], blob |-> i[1], size |-> 1, received |-> 0, expires |-> 3, rowid |-> 1]]
=============================================================================
