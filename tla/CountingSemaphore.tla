------------------------- MODULE CountingSemaphore -------------------------
(***************************************************************************)
(* What dispatch_semaphore_t promises its callers: a counting semaphore.   *)
(* A wait takes one unit or gives up; it may give up only when the units   *)
(* available are fewer than the threads that are waiting for one, so a     *)
(* unit that was signalled is never abandoned by everybody.                *)
(***************************************************************************)
EXTENDS FiniteSets, Integers

CONSTANTS Threads,  \* the threads that call the semaphore
          Orig      \* the value it is created with

VARIABLES avail,    \* units signalled (or there from the start) and not taken
          waiting   \* threads inside a wait that was not granted at once

semVars == <<avail, waiting>>

Init == avail = Orig /\ waiting = {}

\* A unit is released.
Signal == avail' = avail + 1 /\ UNCHANGED waiting

\* A wait is granted on the spot: no waiting thread is deprived of a unit.
Acquire == /\ avail > Cardinality(waiting)
           /\ avail' = avail - 1
           /\ UNCHANGED waiting

\* A wait that found nothing to take starts waiting.
Block(t) == /\ t \notin waiting
            /\ avail <= Cardinality(waiting)
            /\ waiting' = waiting \cup {t}
            /\ UNCHANGED avail

\* A waiting thread takes a unit.
Grant(t) == /\ t \in waiting
            /\ avail > 0
            /\ avail' = avail - 1
            /\ waiting' = waiting \ {t}

\* A waiting thread gives up: there are more waiters than units.
GiveUp(t) == /\ t \in waiting
             /\ avail < Cardinality(waiting)
             /\ waiting' = waiting \ {t}
             /\ UNCHANGED avail

Next == \/ Signal
        \/ Acquire
        \/ \E t \in Threads : Block(t) \/ Grant(t) \/ GiveUp(t)

Spec == Init /\ [][Next]_semVars
=============================================================================
