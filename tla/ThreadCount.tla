---------------------------- MODULE ThreadCount ----------------------------
(***************************************************************************)
(* Counting the threads that are at one of a set of program points.  The   *)
(* modules of this project describe a multi-threaded C program by a        *)
(* function from threads to program points; a counter of the program is    *)
(* usually explained by the number of threads between two of its updates.  *)
(***************************************************************************)
EXTENDS FiniteSets, Integers

\* The threads of T that function f puts at a point of the set P.
ThreadsAt(T, f, P) == {t \in T : f[t] \in P}

\* How many they are.
CountAt(T, f, P) == Cardinality(ThreadsAt(T, f, P))

\* What a thread at p adds to the number of threads at a point of P.
Hit(p, P) == IF p \in P THEN 1 ELSE 0

\* The sum of f over S, for natural numbers: f[x] tokens for each x, counted.
Tokens(S, f) == UNION {{x} \X (1 .. f[x]) : x \in S}
Total(S, f) == Cardinality(Tokens(S, f))
=============================================================================
