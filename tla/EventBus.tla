------------------------------ MODULE EventBus ------------------------------
(***************************************************************************)
(* What the event queue of PikaPython promises, without the ring buffer,   *)
(* the lock and the threads: events are accepted while there is room,      *)
(* handled in the order of their acceptance, at most Width at a time, once *)
(* each, and every accepted event is handled in the end.                   *)
(***************************************************************************)
EXTENDS Naturals, Sequences, FiniteSets

CONSTANTS Event, Capacity, Width

VARIABLES pending,   \* accepted and not handled yet, oldest first
          running,   \* those whose handler runs
          handled    \* those that are through

vars == <<pending, running, handled>>

Known == running \cup handled \cup {pending[k] : k \in DOMAIN pending}

Init == pending = << >> /\ running = {} /\ handled = {}

Accept(e) ==
    /\ e \notin Known
    /\ Len(pending) < Capacity
    /\ pending' = Append(pending, e)
    /\ UNCHANGED <<running, handled>>

Start ==
    /\ pending # << >>
    /\ Cardinality(running) < Width
    /\ running' = running \cup {Head(pending)}
    /\ pending' = Tail(pending)
    /\ UNCHANGED handled

Finish(e) ==
    /\ e \in running
    /\ running' = running \ {e}
    /\ handled' = handled \cup {e}
    /\ UNCHANGED pending

Next == Start \/ \E e \in Event : Accept(e) \/ Finish(e)

Spec == Init /\ [][Next]_vars

\* An event that waits is handled, and a handler that runs ends.
Live == WF_vars(Start) /\ \A e \in Event : WF_vars(Finish(e))
=============================================================================
