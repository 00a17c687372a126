------------------------ MODULE ThreadCountTheorems ------------------------
(***************************************************************************)
(* How moving one thread from a program point to another changes the       *)
(* number of threads at a set of points, and how a sum over the threads    *)
(* changes with the term of one of them.                                   *)
(***************************************************************************)
EXTENDS ThreadCount, FiniteSetTheorems, TLAPS

\* The threads at P are finitely many, and their number is a natural number
\* that is positive exactly when there is one.
LEMMA CountIsNat ==
    ASSUME NEW T, IsFiniteSet(T), NEW f, NEW P
    PROVE  /\ IsFiniteSet(ThreadsAt(T, f, P))
           /\ CountAt(T, f, P) \in Nat
           /\ CountAt(T, f, P) = 0 <=> ThreadsAt(T, f, P) = {}
           /\ \A t \in T : f[t] \in P => CountAt(T, f, P) > 0
<1>1. ThreadsAt(T, f, P) \in SUBSET T
  BY DEF ThreadsAt
<1>2. IsFiniteSet(ThreadsAt(T, f, P))
  BY <1>1, FS_Subset
<1>3. CountAt(T, f, P) \in Nat
  BY <1>2, FS_CardinalityType DEF CountAt
<1>4. CountAt(T, f, P) = 0 <=> ThreadsAt(T, f, P) = {}
  BY <1>2, FS_EmptySet DEF CountAt
<1>5. \A t \in T : f[t] \in P => CountAt(T, f, P) > 0
  <2> SUFFICES ASSUME NEW t \in T, f[t] \in P PROVE CountAt(T, f, P) > 0
    OBVIOUS
  <2>1. t \in ThreadsAt(T, f, P)
    BY DEF ThreadsAt
  <2> QED BY <2>1, <1>3, <1>4
<1> QED BY <1>2, <1>3, <1>4, <1>5

\* Between f and g thread t goes to p and the others stay where they are.
MovesOnly(T, f, g, t, p) == \A u \in T : g[u] = IF u = t THEN p ELSE f[u]

\* One thread moves: its old point loses one, its new point gains one.
LEMMA CountMove ==
    ASSUME NEW T, IsFiniteSet(T), NEW f, NEW g, NEW t \in T, NEW p, NEW P,
           MovesOnly(T, f, g, t, p)
    PROVE  CountAt(T, g, P) =
               CountAt(T, f, P) - Hit(f[t], P) + Hit(p, P)
<1> USE DEF MovesOnly
<1> DEFINE A == ThreadsAt(T, f, P)
           B == ThreadsAt(T, g, P)
<1>1. IsFiniteSet(A) /\ Cardinality(A) \in Nat
  BY CountIsNat DEF CountAt
<1>2. IsFiniteSet(A \ {t}) /\ Cardinality(A \ {t}) \in Nat
  BY <1>1, FS_RemoveElement, FS_CardinalityType
<1>3. Cardinality(A \ {t}) = Cardinality(A) - Hit(f[t], P)
  <2>1. CASE f[t] \in P
    <3>1. t \in A
      BY <2>1 DEF ThreadsAt
    <3>2. Hit(f[t], P) = 1
      BY <2>1 DEF Hit
    <3> QED BY <3>1, <3>2, <1>1, FS_RemoveElement
  <2>2. CASE f[t] \notin P
    <3>1. A \ {t} = A
      BY <2>2 DEF ThreadsAt
    <3>2. Hit(f[t], P) = 0
      BY <2>2 DEF Hit
    <3> HIDE DEF A
    <3> QED BY <3>1, <3>2, <1>1
  <2> QED BY <2>1, <2>2
<1>4. Cardinality(B) = Cardinality(A \ {t}) + Hit(p, P)
  <2>1. CASE p \in P
    <3>1. B = (A \ {t}) \cup {t} /\ t \notin A \ {t}
      BY <2>1 DEF ThreadsAt
    <3>2. Hit(p, P) = 1
      BY <2>1 DEF Hit
    <3> HIDE DEF A, B
    <3> QED BY <3>1, <3>2, <1>2, FS_AddElement
  <2>2. CASE p \notin P
    <3>1. B = A \ {t}
      BY <2>2 DEF ThreadsAt
    <3>2. Hit(p, P) = 0
      BY <2>2 DEF Hit
    <3> HIDE DEF A, B
    <3> QED BY <3>1, <3>2, <1>2
  <2> QED BY <2>1, <2>2
<1>5. Hit(f[t], P) \in Int /\ Hit(p, P) \in Int
  BY DEF Hit
<1> HIDE DEF A, B
<1>6. CountAt(T, g, P) = Cardinality(B) /\ CountAt(T, f, P) = Cardinality(A)
  BY DEF CountAt, A, B
<1> QED BY <1>1, <1>2, <1>3, <1>4, <1>5, <1>6

-----------------------------------------------------------------------------
\* A sum of terms that are at most k.
LEMMA TotalBound ==
    ASSUME NEW S, IsFiniteSet(S), NEW k \in Nat, NEW f, \A x \in S : f[x] \in 0 .. k
    PROVE  /\ IsFiniteSet(Tokens(S, f)) /\ Total(S, f) \in Nat
           /\ Total(S, f) <= Cardinality(S) * k
<1>1. IsFiniteSet(1 .. k) /\ Cardinality(1 .. k) = k
  <2>1. 1 \in Int /\ k \in Int
    OBVIOUS
  <2>2. IsFiniteSet(1 .. k) /\ Cardinality(1 .. k) = IF 1 > k THEN 0 ELSE k - 1 + 1
    BY <2>1, FS_Interval, Zenon
  <2> QED BY <2>2
<1>2. Tokens(S, f) \in SUBSET (S \X (1 .. k))
  BY DEF Tokens
<1>3. IsFiniteSet(S \X (1 .. k)) /\ Cardinality(S \X (1 .. k)) = Cardinality(S) * k
  BY <1>1, FS_Product
<1> QED BY <1>2, <1>3, FS_Subset, FS_CardinalityType DEF Total

\* One term and the rest.
LEMMA TotalSplit ==
    ASSUME NEW S, IsFiniteSet(S), NEW k \in Nat, NEW f, \A x \in S : f[x] \in 0 .. k,
           NEW t \in S
    PROVE  /\ Total(S, f) = Total(S \ {t}, f) + f[t]
           /\ Total(S \ {t}, f) \in Nat
           /\ Total(S \ {t}, f) <= (Cardinality(S) - 1) * k
<1>1. IsFiniteSet(S \ {t}) /\ Cardinality(S \ {t}) = Cardinality(S) - 1
  BY FS_RemoveElement
<1>2. IsFiniteSet(Tokens(S \ {t}, f)) /\ Total(S \ {t}, f) \in Nat
      /\ Total(S \ {t}, f) <= (Cardinality(S) - 1) * k
  BY <1>1, TotalBound
<1> DEFINE own == {t} \X (1 .. f[t])
<1>3. IsFiniteSet(own) /\ Cardinality(own) = f[t]
  <2>1. 1 \in Int /\ f[t] \in Int /\ f[t] \in Nat
    OBVIOUS
  <2>2. IsFiniteSet(1 .. f[t]) /\ Cardinality(1 .. f[t]) = IF 1 > f[t] THEN 0 ELSE f[t] - 1 + 1
    BY <2>1, FS_Interval, Zenon
  <2>3. IsFiniteSet({t}) /\ Cardinality({t}) = 1
    BY FS_Singleton
  <2>4. IsFiniteSet(own) /\ Cardinality(own) = 1 * Cardinality(1 .. f[t])
    BY <2>2, <2>3, FS_Product
  <2> HIDE DEF own
  <2> QED BY <2>1, <2>2, <2>4
<1>4. Tokens(S, f) = Tokens(S \ {t}, f) \cup own /\ Tokens(S \ {t}, f) \cap own = {}
  BY DEF Tokens
<1> HIDE DEF own
<1>5. Cardinality(Tokens(S, f)) = Cardinality(Tokens(S \ {t}, f)) + Cardinality(own)
  <2> DEFINE rest == Tokens(S \ {t}, f)
  <2>1. IsFiniteSet(rest) /\ Cardinality(rest) \in Nat /\ rest \cap own = {}
    BY <1>2, <1>4 DEF Total
  <2> HIDE DEF rest
  <2>2. Cardinality(rest \cup own) = Cardinality(rest) + Cardinality(own) - Cardinality(rest \cap own)
    BY <2>1, <1>3, FS_Union
  <2>3. Cardinality(rest \cap own) = 0 /\ Cardinality(own) \in Int
    BY <2>1, <1>3, FS_EmptySet
  <2> QED BY <2>1, <2>2, <2>3, <1>4 DEF rest
<1> QED BY <1>2, <1>3, <1>5 DEF Total

\* The term of t changes, the others stay.
LEMMA TotalMove ==
    ASSUME NEW S, IsFiniteSet(S), NEW k \in Nat, NEW t \in S,
           NEW f, \A x \in S : f[x] \in 0 .. k,
           NEW g, \A x \in S : g[x] \in 0 .. k,
           \A x \in S \ {t} : g[x] = f[x]
    PROVE  Total(S, g) = Total(S, f) - f[t] + g[t]
<1>1. Tokens(S \ {t}, g) = Tokens(S \ {t}, f)
  BY DEF Tokens
<1>2. Total(S \ {t}, g) = Total(S \ {t}, f)
  BY <1>1 DEF Total
<1>3. Total(S, f) = Total(S \ {t}, f) + f[t] /\ Total(S \ {t}, f) \in Nat
  BY TotalSplit
<1>4. Total(S, g) = Total(S \ {t}, g) + g[t]
  BY TotalSplit
<1> QED BY <1>2, <1>3, <1>4
=============================================================================
