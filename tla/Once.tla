-------------------------------- MODULE Once --------------------------------
(***************************************************************************)
(* What dispatch_once promises: however many threads call it, the function *)
(* runs once, and no call returns before the function has finished.        *)
(***************************************************************************)
CONSTANT Threads

VARIABLES running,  \* threads that are running the function
          done,     \* the function has been run
          inside    \* threads inside a call of dispatch_once

onceVars == <<running, done, inside>>

Init == running = {} /\ done = FALSE /\ inside = {}

\* A call comes in; the first one runs the function.
Call(t) == /\ t \notin inside
           /\ inside' = inside \cup {t}
           /\ running' = IF ~done /\ running = {} THEN {t} ELSE running
           /\ UNCHANGED done

\* The function finishes.
Finish(t) == /\ running = {t}
             /\ running' = {}
             /\ done' = TRUE
             /\ UNCHANGED inside

\* A call returns.
Return(t) == /\ t \in inside
             /\ done
             /\ inside' = inside \ {t}
             /\ UNCHANGED <<running, done>>

Next == \E t \in Threads : Call(t) \/ Finish(t) \/ Return(t)

Spec == Init /\ [][Next]_onceVars
=============================================================================
