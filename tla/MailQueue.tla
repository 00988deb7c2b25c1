----------------------------- MODULE MailQueue ------------------------------
(***************************************************************************)
(* What the outbox promises of each message, without drains or rows: it    *)
(* waits until somebody takes it; one taker at a time hands over at most   *)
(* one copy, then puts it back, closes it, or dies and abandons it.        *)
(* Closed and abandoned messages stay as they are.                         *)
(***************************************************************************)
EXTENDS Naturals

CONSTANT Messages

VARIABLES
    state,   \* where each message is
    handed   \* whether its present taker has handed over a copy

vars == <<state, handed>>

Init ==
    /\ state = [m \in Messages |-> "none"]
    /\ handed = [m \in Messages |-> FALSE]

Move(m, from, to) ==
    /\ state[m] = from
    /\ state' = [state EXCEPT ![m] = to]

Take(m) == Move(m, "waiting", "taken") /\ UNCHANGED handed
HandOver(m) ==
    /\ state[m] = "taken"
    /\ ~handed[m]
    /\ handed' = [handed EXCEPT ![m] = TRUE]
    /\ UNCHANGED state
PutBack(m) == Move(m, "taken", "waiting") /\ handed' = [handed EXCEPT ![m] = FALSE]
Close(m) == Move(m, "taken", "closed") /\ handed' = [handed EXCEPT ![m] = FALSE]
\* The taker dies; nobody will take the message again.
Abandon(m) == Move(m, "taken", "abandoned") /\ handed' = [handed EXCEPT ![m] = FALSE]

\* Several messages may be enqueued or withdrawn at once.
EnqueueMany(ms) ==
    /\ \A m \in ms : state[m] = "none"
    /\ state' = [m \in Messages |-> IF m \in ms THEN "waiting" ELSE state[m]]
    /\ UNCHANGED handed
WithdrawMany(ms) ==
    /\ \A m \in ms : state[m] = "waiting"
    /\ state' = [m \in Messages |-> IF m \in ms THEN "closed" ELSE state[m]]
    /\ UNCHANGED handed

Next ==
    \/ \E ms \in SUBSET Messages : EnqueueMany(ms) \/ WithdrawMany(ms)
    \/ \E m \in Messages :
         Take(m) \/ HandOver(m) \/ PutBack(m) \/ Close(m) \/ Abandon(m)

Spec == Init /\ [][Next]_vars
=============================================================================
