----------------------------- MODULE MCAutoTLS -----------------------------
(* Small instances of AutoTLS. *)
EXTENDS AutoTLS

\* A certificate that expires and a renewal, valid some time before that and
\* to the end.
TwoPeriods == <<[from |-> 0, until |-> 2], [from |-> 1, until |-> 3]>>
=============================================================================
