----------------------------- MODULE RpcChannel -----------------------------
(***************************************************************************)
(* What a client of remote procedure calls is promised: every request is   *)
(* executed once and in the order the requests were made, and a request    *)
(* that waits for an answer gets its own.  How the requests travel is not  *)
(* said.  RpmsgLink implements this module.                                *)
(***************************************************************************)
EXTENDS Naturals, Sequences

CONSTANTS SeqNos,   \* the numbers of the requests are 0 .. SeqNos - 1
          Nothing

VARIABLES requests, \* requests made and not executed yet, oldest first
          answer,   \* the number of the request whose answer is on its way
          waiting   \* the number of the request the client waits for

rpcvars == <<requests, answer, waiting>>

Request == [seq : 0 .. SeqNos - 1, oneway : BOOLEAN]

Init == requests = <<>> /\ answer = Nothing /\ waiting = Nothing

\* The client makes a request, and waits unless the request is one-way.
Ask(r) ==
    /\ waiting = Nothing
    /\ requests' = Append(requests, r)
    /\ waiting' = IF r.oneway THEN Nothing ELSE r.seq
    /\ UNCHANGED answer

\* The server executes the oldest request.
Serve ==
    /\ requests # <<>>
    /\ requests' = Tail(requests)
    /\ answer' = IF Head(requests).oneway THEN answer ELSE Head(requests).seq
    /\ UNCHANGED waiting

\* The client has its answer.
Return ==
    /\ waiting # Nothing
    /\ answer = waiting
    /\ answer' = Nothing /\ waiting' = Nothing
    /\ UNCHANGED requests

Next == Serve \/ Return \/ \E r \in Request : Ask(r)

Spec == Init /\ [][Next]_rpcvars

\* The server executes what it is asked, and an answer reaches the client.
Live == WF_rpcvars(Serve) /\ WF_rpcvars(Return)
=============================================================================
