------------------------------ MODULE Counting ------------------------------
(* What the proofs need of the sizes of finite sets. *)
EXTENDS Integers, FiniteSets, FiniteSetTheorems, TLAPS

\* A finite set that changes at most in c changes its size by what happens to
\* c: a counter of connections, requests or queued events moves by one.
LEMMA Recount ==
  ASSUME NEW A, NEW B, NEW c, IsFiniteSet(A), A \ {c} = B \ {c}
  PROVE  /\ IsFiniteSet(B) /\ Cardinality(A) \in Nat /\ Cardinality(B) \in Nat
         /\ c \in A /\ c \notin B => Cardinality(B) = Cardinality(A) - 1
         /\ c \notin A /\ c \in B => Cardinality(B) = Cardinality(A) + 1
         /\ (c \in A <=> c \in B) => Cardinality(B) = Cardinality(A)
<1>1. Cardinality(A) \in Nat BY FS_CardinalityType
<1>2. CASE c \in A /\ c \notin B
  <2>1. B = A \ {c} BY <1>2
  <2>2. IsFiniteSet(B) /\ Cardinality(B) = Cardinality(A) - 1 BY <2>1, <1>2, FS_RemoveElement
  <2> QED BY <1>1, <1>2, <2>2, FS_CardinalityType
<1>3. CASE c \notin A /\ c \in B
  <2>1. B = A \cup {c} BY <1>3
  <2>2. IsFiniteSet(B) /\ Cardinality(B) = Cardinality(A) + 1 BY <2>1, <1>3, FS_AddElement
  <2> QED BY <1>1, <1>3, <2>2
<1>4. CASE c \in A <=> c \in B
  <2>1. A = B BY <1>4
  <2> QED BY <2>1, <1>1, <1>4
<1> QED BY <1>2, <1>3, <1>4

\* What is in a set counts.
LEMMA Member ==
  ASSUME NEW A, NEW c \in A, IsFiniteSet(A)
  PROVE  Cardinality(A) \in Nat /\ Cardinality(A) >= 1
<1>1. Cardinality(A) \in Nat /\ Cardinality(A \ {c}) = Cardinality(A) - 1
  BY FS_CardinalityType, FS_RemoveElement
<1>2. Cardinality(A \ {c}) \in Nat BY FS_RemoveElement, FS_CardinalityType
<1> QED BY <1>1, <1>2

\* Two sets without a common element share the room of the set they lie in.
LEMMA Apart ==
  ASSUME NEW S, IsFiniteSet(S), NEW A \in SUBSET S, NEW B \in SUBSET S, A \cap B = {}
  PROVE  /\ IsFiniteSet(A) /\ IsFiniteSet(B)
         /\ Cardinality(A) \in Nat /\ Cardinality(B) \in Nat /\ Cardinality(S) \in Nat
         /\ Cardinality(A) + Cardinality(B) <= Cardinality(S)
<1>1. IsFiniteSet(A) /\ IsFiniteSet(B) BY FS_Subset
<1>2. Cardinality(A) \in Nat /\ Cardinality(B) \in Nat /\ Cardinality(S) \in Nat
  BY <1>1, FS_CardinalityType
<1>3. Cardinality(A \cup B) = Cardinality(A) + Cardinality(B) - Cardinality(A \cap B)
  BY <1>1, FS_Union
<1>4. Cardinality(A \cap B) = 0 BY FS_EmptySet
<1>5. A \cup B \in SUBSET S OBVIOUS
<1>6. Cardinality(A \cup B) <= Cardinality(S) BY <1>5, FS_Subset
<1> QED BY <1>1, <1>2, <1>3, <1>4, <1>6

\* The values of a function on 1 .. n; as many as n if it repeats none.
LEMMA Values ==
  ASSUME NEW n \in Nat, NEW T, NEW f \in [1 .. n -> T], NEW V, V = {f[k] : k \in 1 .. n}
  PROVE  IsFiniteSet(V)
<1>1. IsFiniteSet(1 .. n) BY FS_Interval
<1>2. f \in Surjection(1 .. n, V) BY DEF Surjection
<1> QED BY <1>1, <1>2, FS_Surjection

LEMMA DistinctValues ==
  ASSUME NEW n \in Nat, NEW T, NEW f \in Injection(1 .. n, T), NEW V, V = {f[k] : k \in 1 .. n}
  PROVE  Cardinality(V) = n
<1>1. IsFiniteSet(1 .. n) /\ Cardinality(1 .. n) = n
  <2>1. 1 \in Int /\ n \in Int /\ (1 > n => n = 0) /\ n - 1 + 1 = n OBVIOUS
  <2> QED BY ONLY <2>1, FS_Interval
<1>2. f \in Surjection(1 .. n, V) BY DEF Surjection, Injection
<1>3. f \in Injection(1 .. n, V) BY DEF Injection, IsInjective
<1> QED BY <1>1, <1>2, <1>3, FS_Surjection
=============================================================================
