----------------------------- MODULE WorkQueue -----------------------------
(***************************************************************************)
(* What a root queue promises to those who push items to it: each item is  *)
(* started once, by some worker, after all that were pushed before it have *)
(* been started, and ends.  Any number of items may run at a time.         *)
(***************************************************************************)
EXTENDS Integers

CONSTANT Items  \* natural numbers: items in the order in which they are pushed

VARIABLE status  \* "new", "queued", "running" or "done", of each item

Started(i) == status[i] \in {"running", "done"}

Init == status = [i \in Items |-> "new"]

\* The next item is pushed, or a list of the next two.
Push(f, l) == /\ l \in {f, f + 1}
              /\ \A i \in Items : status[i] = "new" <=> i >= f
              /\ status' = [i \in Items |-> IF i \in {f, l} THEN "queued" ELSE status[i]]

\* The first item that waits is started.
Start(i) == /\ status[i] = "queued" /\ status' = [status EXCEPT ![i] = "running"]
            /\ \A j \in Items : j < i => Started(j)

Finish(i) == status[i] = "running" /\ status' = [status EXCEPT ![i] = "done"]

Next == \/ \E f, l \in Items : Push(f, l)
        \/ \E i \in Items : Start(i) \/ Finish(i)

Spec == Init /\ [][Next]_status
=============================================================================
