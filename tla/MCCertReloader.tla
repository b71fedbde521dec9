--------------------------- MODULE MCCertReloader ---------------------------
(* Small instances of CertReloader. *)
EXTENDS CertReloader

\* A pair in use, a renewal of its certificate that keeps the key and is not
\* valid yet, a pair with a new key, and one for another name.
MCPairs == {"old", "renewed", "fresh", "foreign"}
MCKeyOf == [p \in MCPairs |-> IF p = "renewed" THEN "old" ELSE p]
MCNotBefore == [p \in MCPairs |-> IF p = "renewed" THEN 1 ELSE 0]
MCNotAfter == [p \in MCPairs |-> IF p = "old" THEN 1 ELSE 2]
=============================================================================
