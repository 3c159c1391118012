----------------------------- MODULE FrameQueue -----------------------------
(***************************************************************************)
(* What a descriptor ring promises, without the descriptors: frames leave  *)
(* in the order they came, none twice, none but those that came.  A frame  *)
(* that waits is passed on, or, where the ring is Lossy, may be dropped.   *)
(***************************************************************************)
EXTENDS Naturals, Sequences

CONSTANTS Frame, Capacity, Lossy

VARIABLES queue,   \* the frames that wait, oldest first
          out      \* the one passed on last

vars == <<queue, out>>

Put(f) ==
    /\ Len(queue) < Capacity
    /\ \A k \in DOMAIN queue : queue[k] # f
    /\ queue' = Append(queue, f)
    /\ UNCHANGED out

Take == queue # << >> /\ out' = Head(queue) /\ queue' = Tail(queue)
Drop == Lossy /\ queue # << >> /\ queue' = Tail(queue) /\ UNCHANGED out

Next == Take \/ Drop \/ \E f \in Frame : Put(f)

Init == queue = << >>

Spec == Init /\ [][Next]_vars
Fair == WF_vars(Take)
=============================================================================
