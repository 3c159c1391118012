----------------------------- MODULE PikaEvents -----------------------------
(***************************************************************************)
(* The event queue of PikaPython (pikascript-core/PikaVM.c, PikaObj.c) and *)
(* the global interpreter lock around it, from the moment a script has     *)
(* started a thread: the lock is a mutex then, and the first event sent    *)
(* starts the event thread.                                                *)
(*                                                                         *)
(* Scripts run in interpreter tasks and hold the lock except while they    *)
(* sleep or wait for the user.  Tasks written in C send events.  An event  *)
(* is handled by a callback written in Python, in the event thread, or in  *)
(* its sender if no virtual machine runs.  What a task does under the lock *)
(* without letting go of it is one step.                                   *)
(*                                                                         *)
(* The result of a callback is represented by the event it handled.        *)
(***************************************************************************)
EXTENDS Naturals, FiniteSets

CONSTANTS
    Interp,         \* the tasks that run scripts
    Sender,         \* the tasks that send events
    EventThread,    \* _thread_event
    ListSize,       \* PIKA_EVENT_LIST_SIZE
    PickupMax,      \* PIKA_EVENT_PICKUP_MAX
    MaxSends,       \* bound: events per sender
    Failing,        \* the senders whose events bring no result
    Null,           \* NULL, and the owner of a free lock
    Solo            \* does nobody else use the queue while a caller awaits

Place  == 0 .. ListSize - 1
Event  == Sender \X (1 .. MaxSends)
Thread == Interp \cup Sender \cup {EventThread}

ASSUME PikaAssumption ==
    /\ IsFiniteSet(Interp) /\ IsFiniteSet(Sender)
    /\ ListSize \in Nat /\ ListSize >= 2
    /\ {PickupMax, MaxSends} \subseteq Nat \ {0}
    /\ Interp \cap Sender = {} /\ EventThread \notin Interp \cup Sender
    /\ Null \notin Thread \cup Event \cup Place
    /\ Failing \subseteq Sender
    /\ Solo \in BOOLEAN

VARIABLES
    gil,                 \* the holder of g_pikaGIL
    head, tail, id, res, \* the ring buffer g_PikaVMSignal.cq
    vm_cnt,              \* virtual machines between start and end
    event_pickup_cnt,    \* handlers between start and end
    event_thread,        \* has the event thread been created
    pc,                  \* what each thread is doing
    job,                 \* the event a thread handles
    slot,                \* and its place in the ring
    sent,                \* how many events a sender has sent
    await,               \* the place whose result it waits for, if it does
    got,                 \* the result it was given
    handled              \* history: the events that are through

cq      == <<head, tail, id, res>>
counts  == <<vm_cnt, event_pickup_cnt>>
work    == <<job, slot, handled>>
senders == <<sent, await, got>>
vars    == <<gil, cq, counts, event_thread, pc, work, senders>>

\* A mutant: the ring does not wrap.
AfterNoWrap(k) == k + 1
After(k) == (k + 1) % ListSize

IsEmpty == head = tail
\* A mutant: the ring is never full.
IsFullNever == tail # tail
IsFull == After(tail) = head

Mine(t) == <<t, sent[t]>>

\* A script has just started the first thread and taken the lock with it.
Init ==
    /\ gil \in Interp
    /\ pc = [u \in Thread |-> IF u = gil THEN "script"
                              ELSE IF u \in Interp THEN "shell" ELSE "free"]
    /\ head = 0 /\ tail = 0
    /\ id = [k \in Place |-> Null] /\ res = [k \in Place |-> Null]
    /\ vm_cnt = 1 /\ event_pickup_cnt = 0
    /\ event_thread = FALSE
    /\ job = [t \in Thread |-> Null] /\ slot = [t \in Thread |-> Null]
    /\ sent = [t \in Sender |-> 0]
    /\ await = [t \in Sender |-> Null] /\ got = [t \in Sender |-> Null]
    /\ handled = {}
-----------------------------------------------------------------------------
\* pika_GIL_ENTER and pika_GIL_EXIT of thread t, which goes on at p.
Enter(t, p) == gil = Null /\ gil' = t /\ pc' = [pc EXCEPT ![t] = p]
Exit(t, p)  == gil = t /\ gil' = Null /\ pc' = [pc EXCEPT ![t] = p]

\* The shell has read a line and runs it; the line is through and the shell
\* waits for the next one (_await_getchar).
ScriptRuns(t) ==
    /\ pc[t] = "shell"
    /\ Enter(t, "script")
    /\ vm_cnt' = vm_cnt + 1
    /\ UNCHANGED <<cq, event_pickup_cnt, event_thread, work, senders>>

ScriptEnds(t) ==
    /\ pc[t] = "script"
    /\ Exit(t, "shell")
    /\ vm_cnt' = vm_cnt - 1
    /\ UNCHANGED <<cq, event_pickup_cnt, event_thread, work, senders>>

\* A script or a callback sleeps (_time_sleep_ms), and goes on.
Naps(t) ==
    /\ pc[t] \in {"script", "handler"}
    /\ Exit(t, "nap")
    /\ UNCHANGED <<cq, counts, event_thread, work, senders>>

Wakes(t) ==
    /\ pc[t] = "nap"
    /\ Enter(t, IF job[t] = Null THEN "script" ELSE "handler")
    /\ UNCHANGED <<cq, counts, event_thread, work, senders>>
-----------------------------------------------------------------------------
\* pika_eventListener_sendSignal, and pika_eventListener_sendSignalAwaitResult,
\* which first reads cq.tail without the lock.
Quiet(t) ==
    /\ IsEmpty /\ event_pickup_cnt = 0
    /\ t \notin Failing
    /\ \A u \in Sender \ {t} : pc[u] = "free"

Call(t) ==
    /\ pc[t] = "free" /\ sent[t] < MaxSends
    /\ sent' = [sent EXCEPT ![t] = @ + 1]
    /\ got' = [got EXCEPT ![t] = Null]
    /\ pc' = [pc EXCEPT ![t] = "send"]
    /\ UNCHANGED <<gil, cq, counts, event_thread, work>>

Send(t) ==
    /\ Solo => \A u \in Sender : await[u] = Null
    /\ Call(t)
    /\ UNCHANGED await

SendAwait(t) ==
    /\ Solo => Quiet(t)
    /\ Call(t)
    /\ await' = [await EXCEPT ![t] = tail]

\* Where a thread is when it has pushed, or handled an event.
Rest(t) == IF t \in Sender /\ await[t] # Null THEN "poll" ELSE "free"

\* A mutant: the old result stays.
ClearNothing == res' = res
ClearResult  == res' = [res EXCEPT ![tail] = Null]

\* _do_pika_eventListener_send with __eventListener_pushEvent.  The sender
\* keeps the lock if it is to pick up an event itself; a full queue drops the
\* event, and the caller is told nothing.
Accepts(t) ==
    /\ ClearResult
    /\ id' = [id EXCEPT ![tail] = Mine(t)]
    /\ tail' = After(tail)
    /\ IF vm_cnt = 0
         THEN gil' = t   /\ pc' = [pc EXCEPT ![t] = "pick"]
         ELSE gil' = gil /\ pc' = [pc EXCEPT ![t] = Rest(t)]

Refuses(t) ==
    /\ pc' = [pc EXCEPT ![t] = Rest(t)]
    /\ UNCHANGED <<gil, tail, id, res>>

Push(t) ==
    /\ pc[t] = "send" /\ gil = Null
    /\ event_thread' = TRUE
    /\ IF IsFull THEN Refuses(t) ELSE Accepts(t)
    /\ UNCHANGED <<head, counts, work, senders>>

\* The result is read without the lock.
Poll(t) ==
    /\ pc[t] = "poll"
    /\ res[await[t]] # Null
    /\ got' = [got EXCEPT ![t] = res[await[t]]]
    /\ await' = [await EXCEPT ![t] = Null]
    /\ pc' = [pc EXCEPT ![t] = "free"]
    /\ UNCHANGED <<gil, cq, counts, event_thread, work, sent>>
-----------------------------------------------------------------------------
\* A mutant: the last event stays in the ring.
MayPickUpNotLast == event_pickup_cnt < PickupMax /\ ~IsEmpty /\ After(head) # tail
\* __VMEvent_pickupEvent, in the thread that holds the lock: the oldest event
\* leaves the ring and its callback starts.
MayPickUp == event_pickup_cnt < PickupMax /\ ~IsEmpty

PickUp(t) ==
    /\ head' = After(head)
    /\ job' = [job EXCEPT ![t] = id[head]]
    /\ slot' = [slot EXCEPT ![t] = head]
    /\ event_pickup_cnt' = event_pickup_cnt + 1
    /\ vm_cnt' = vm_cnt + 1
    /\ UNCHANGED <<tail, id, res, event_thread, handled, senders>>

\* _thread_event; a turn that finds nothing to do changes nothing.
ThreadPicks ==
    /\ event_thread /\ pc[EventThread] = "free"
    /\ MayPickUp
    /\ Enter(EventThread, "handler")
    /\ PickUp(EventThread)

SenderPicks(t) ==
    /\ pc[t] = "pick"
    /\ IF MayPickUp
         THEN PickUp(t) /\ pc' = [pc EXCEPT ![t] = "handler"] /\ gil' = gil
         ELSE Exit(t, Rest(t)) /\ UNCHANGED <<cq, counts, event_thread, work, senders>>

\* Mutants: the result goes to the place that is at the head by now; the
\* count is not taken back.
Result(t) == IF job[t][1] \in Failing THEN Null ELSE job[t]
ResultAtHead(t) == [res EXCEPT ![head] = Result(t)]
ResultOf(t) == [res EXCEPT ![slot[t]] = Result(t)]
CountStays == event_pickup_cnt' = event_pickup_cnt
CountDown  == event_pickup_cnt' = event_pickup_cnt - 1

\* The callback returns: __eventListener_runEvent hands back its result, or
\* NULL, and the lock is let go.
HandlerEnds(t) ==
    /\ pc[t] = "handler"
    /\ Exit(t, Rest(t))
    /\ res' = ResultOf(t)
    /\ CountDown
    /\ vm_cnt' = vm_cnt - 1
    /\ handled' = handled \cup {job[t]}
    /\ job' = [job EXCEPT ![t] = Null] /\ slot' = [slot EXCEPT ![t] = Null]
    /\ UNCHANGED <<head, tail, id, event_thread, senders>>
-----------------------------------------------------------------------------
Next ==
    \/ \E t \in Interp : ScriptRuns(t) \/ ScriptEnds(t)
    \/ \E t \in Sender : Send(t) \/ SendAwait(t) \/ Push(t) \/ Poll(t) \/ SenderPicks(t)
    \/ ThreadPicks
    \/ \E t \in Thread : Naps(t) \/ Wakes(t) \/ HandlerEnds(t)

Spec == Init /\ [][Next]_vars

\* A script sleeps or ends sooner or later, and a callback that is run again
\* and again ends; whoever waits for the lock gets it, as the mutex of
\* FreeRTOS gives it to the longest waiter among equals.
Fairness ==
    /\ \A t \in Interp : WF_vars(pc[t] = "script" /\ (Naps(t) \/ ScriptEnds(t)))
    /\ \A t \in Thread : SF_vars(Wakes(t)) /\ SF_vars(HandlerEnds(t))
    /\ \A t \in Sender : SF_vars(Push(t)) /\ WF_vars(Poll(t)) /\ WF_vars(SenderPicks(t))
    /\ SF_vars(ThreadPicks)

FairSpec == Spec /\ Fairness
-----------------------------------------------------------------------------
\* PROPERTIES

Holding == {"script", "handler", "pick"}

\* The type invariant of the lock, the ring and the threads.
TypeOK ==
    /\ gil \in Thread \cup {Null}
    /\ head \in Place /\ tail \in Place
    /\ id \in [Place -> Event \cup {Null}]
    /\ res \in [Place -> Event \cup {Null}]
    /\ vm_cnt \in Nat /\ event_pickup_cnt \in Nat
    /\ event_thread \in BOOLEAN
    /\ pc \in [Thread -> {"shell", "script", "nap", "free", "send", "pick", "poll", "handler"}]
    /\ job \in [Thread -> Event \cup {Null}]
    /\ slot \in [Thread -> Place \cup {Null}]
    /\ sent \in [Sender -> 0 .. MaxSends]
    /\ await \in [Sender -> Place \cup {Null}]
    /\ got \in [Sender -> Event \cup {Null}]
    /\ handled \subseteq Event

\* Both counters say what they are read for: vm_cnt how many scripts and
\* callbacks are under way, asleep or not (so a sender that finds none may
\* run a callback itself), event_pickup_cnt how many callbacks, never more
\* than PIKA_EVENT_PICKUP_MAX.
CountsExact ==
    /\ vm_cnt = Cardinality({t \in Thread : pc[t] \in {"script", "handler", "nap"}})
    /\ event_pickup_cnt = Cardinality({t \in Thread : job[t] # Null})
    /\ event_pickup_cnt <= PickupMax

\* A caller that awaits the result of its event gets the result of that
\* event, not of another or of an earlier one.
AwaitGetsOwn == \A t \in Sender : got[t] # Null => got[t] = Mine(t)

\* It does get one.
AwaitReturns == \A t \in Sender : pc[t] = "poll" ~> pc[t] = "free"

\* The ring, the counters and the threads implement the event bus: no event
\* that was accepted is dropped, overtaken or handled twice ...
Waiting == (tail + ListSize - head) % ListSize
Bus == INSTANCE EventBus WITH
    Capacity <- ListSize - 1,
    Width    <- PickupMax,
    pending  <- [k \in 1 .. Waiting |-> id[(head + k - 1) % ListSize]],
    running  <- {job[t] : t \in {u \in Thread : job[u] # Null}}
RefinesBus == Bus!Spec

\* ... nor left behind: it is handled in the end.
EventsEnd == Bus!Live
=============================================================================
