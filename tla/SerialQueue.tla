---------------------------- MODULE SerialQueue ----------------------------
(***************************************************************************)
(* What a serial dispatch queue promises its clients: blocks run one at a  *)
(* time, each once; those of one client run in the order in which it       *)
(* submitted them; and dispatch_sync returns when its block has ended.     *)
(* Blocks of different clients may overtake each other, as a synchronous   *)
(* one does that finds the queue free.                                     *)
(***************************************************************************)
CONSTANTS Clients,  \* threads that submit blocks
          Blocks,   \* blocks that may be submitted
          None      \* no block, no client

VARIABLES state,   \* "new", "waiting", "running" or "done", of each block
          owner,   \* the client that submitted it
          ahead,   \* what the client had submitted before and had not ended
          sync,    \* whether the call that submitted it waits for its end
          inside   \* the block of the call each client is in

queueVars == <<state, owner, ahead, sync, inside>>

Init == /\ state = [b \in Blocks |-> "new"]
        /\ owner = [b \in Blocks |-> None]
        /\ ahead = [b \in Blocks |-> {}]
        /\ sync = [b \in Blocks |-> FALSE]
        /\ inside = [c \in Clients |-> None]

\* A call begins.
Submit(c, b, s) ==
    /\ inside[c] = None /\ inside' = [inside EXCEPT ![c] = b]
    /\ state[b] = "new" /\ state' = [state EXCEPT ![b] = "waiting"]
    /\ owner' = [owner EXCEPT ![b] = c]
    /\ ahead' = [ahead EXCEPT ![b] = {a \in Blocks : owner[a] = c /\ state[a] # "done"}]
    /\ sync' = [sync EXCEPT ![b] = s]

\* A block starts: alone, and after those its client submitted before it.
Start(b) ==
    /\ state[b] = "waiting" /\ state' = [state EXCEPT ![b] = "running"]
    /\ \A a \in Blocks : state[a] # "running"
    /\ \A a \in ahead[b] : state[a] = "done"
    /\ UNCHANGED <<owner, ahead, sync, inside>>

\* A block ends, and with it the call that waits for it.
Finish(b) ==
    /\ state[b] = "running" /\ state' = [state EXCEPT ![b] = "done"]
    /\ inside' = IF sync[b] THEN [inside EXCEPT ![owner[b]] = None] ELSE inside
    /\ UNCHANGED <<owner, ahead, sync>>

\* A call that does not wait returns, before or after its block has run.
Return(c) ==
    /\ inside[c] # None /\ inside' = [inside EXCEPT ![c] = None]
    /\ ~sync[inside[c]]
    /\ UNCHANGED <<state, owner, ahead, sync>>

Next == \/ \E c \in Clients, b \in Blocks, s \in BOOLEAN : Submit(c, b, s)
        \/ \E b \in Blocks : Start(b) \/ Finish(b)
        \/ \E c \in Clients : Return(c)

Spec == Init /\ [][Next]_queueVars
=============================================================================
