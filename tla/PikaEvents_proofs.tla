-------------------------- MODULE PikaEvents_proofs --------------------------
(***************************************************************************)
(* Proofs about PikaEvents for any number of tasks, any size of the ring   *)
(* and any bound on nested callbacks.                                      *)
(***************************************************************************)
EXTENDS PikaEvents, Multiples, FiniteSetTheorems, SequenceTheorems

\* The lock is held by exactly the thread that runs Python, or that has just
\* pushed an event and goes on to pick one up.
Exclusive == \A t \in Thread : pc[t] \in Holding <=> gil = t

\* Who runs what: scripts in the interpreter tasks, callbacks elsewhere.
Roles ==
    /\ \A t \in Interp : pc[t] \in {"shell", "script", "nap"} /\ job[t] = Null
    /\ \A t \in Thread \ Interp :
        /\ pc[t] \notin {"shell", "script"}
        /\ job[t] # Null <=> pc[t] \in {"handler", "nap"}
    /\ \A t \in Sender : /\ pc[t] = "poll" => await[t] # Null
                         /\ pc[t] = "send" => sent[t] # 0

\* A place of the ring that was never written lies outside head .. tail.
RingOK == \A k \in Place : id[k] = Null => tail <= k /\ head <= tail

IInv == TypeOK /\ Exclusive /\ Roles /\ RingOK /\ CountsExact

VM   == {t \in Thread : pc[t] \in {"script", "handler", "nap"}}
Jobs == {t \in Thread : job[t] # Null}
-----------------------------------------------------------------------------
LEMMA ConstantFacts ==
    /\ IsFiniteSet(Thread)
    /\ ListSize \in Nat /\ ListSize >= 2 /\ PickupMax \in Nat /\ MaxSends \in Nat
    /\ Interp \subseteq Thread /\ Sender \subseteq Thread \ Interp
    /\ EventThread \in Thread \ (Interp \cup Sender)
    /\ Null \notin Thread /\ Null \notin Event /\ Null \notin Place
  <1>1. IsFiniteSet(Interp \cup Sender)
    BY PikaAssumption, FS_Union DEF PikaAssumption
  <1>2. IsFiniteSet(Thread)
    BY <1>1, FS_AddElement DEF Thread
  <1> QED BY <1>2, PikaAssumption DEF PikaAssumption, Thread

LEMMA AfterFacts ==
    ASSUME NEW k \in Place
    PROVE  /\ After(k) \in Place
           /\ k < ListSize - 1 => After(k) = k + 1
           /\ k = ListSize - 1 => After(k) = 0
  BY ConstantFacts DEF After, Place

LEMMA VMFinite ==
    /\ IsFiniteSet(VM) /\ Cardinality(VM) \in Nat
    /\ IsFiniteSet(Jobs) /\ Cardinality(Jobs) \in Nat
  BY ConstantFacts, FS_Subset, FS_CardinalityType DEF VM, Jobs

LEMMA InitInv == Init => IInv
  <1> SUFFICES ASSUME Init PROVE IInv
    OBVIOUS
  <1> USE ConstantFacts
  <1>1. gil \in Interp /\ gil \in Thread /\ gil # Null
    BY DEF Init
  <1>2. TypeOK
    <2>1. gil \in Thread \cup {Null} /\ head \in Place /\ tail \in Place
      BY <1>1 DEF Init, Place
    <2>2. id \in [Place -> Event \cup {Null}] /\ res \in [Place -> Event \cup {Null}]
      BY DEF Init
    <2>3. pc \in [Thread -> {"shell", "script", "nap", "free", "send", "pick", "poll", "handler"}]
      BY DEF Init
    <2>4. /\ job \in [Thread -> Event \cup {Null}]
          /\ slot \in [Thread -> Place \cup {Null}]
      BY DEF Init
    <2>5. /\ sent \in [Sender -> 0 .. MaxSends]
          /\ await \in [Sender -> Place \cup {Null}]
          /\ got \in [Sender -> Event \cup {Null}]
      BY DEF Init
    <2>6. /\ vm_cnt \in Nat /\ event_pickup_cnt \in Nat /\ event_thread \in BOOLEAN
          /\ handled \subseteq Event
      BY DEF Init
    <2> QED BY <2>1, <2>2, <2>3, <2>4, <2>5, <2>6 DEF TypeOK
  <1>3. Exclusive
    BY <1>1 DEF Init, Exclusive, Holding
  <1>4. Roles
    BY <1>1 DEF Init, Roles
  <1>5. RingOK
    BY DEF Init, RingOK, Place
  <1>6. VM = {gil}
    BY <1>1 DEF Init, VM
  <1>7. Jobs = {}
    BY DEF Init, Jobs
  <1>8. Cardinality(VM) = 1 /\ Cardinality(Jobs) = 0
    BY <1>6, <1>7, FS_Singleton, FS_EmptySet
  <1>9. CountsExact
    BY <1>8, PikaAssumption DEF Init, CountsExact, VM, Jobs, PikaAssumption
  <1> QED BY <1>2, <1>3, <1>4, <1>5, <1>9 DEF IInv

\* The disjuncts of the next-state relation, one case each.
Cases == 
    \/ \E t \in Interp : ScriptRuns(t)
    \/ \E t \in Interp : ScriptEnds(t)
    \/ \E t \in Sender : Send(t)
    \/ \E t \in Sender : SendAwait(t)
    \/ \E t \in Sender : Push(t)
    \/ \E t \in Sender : Poll(t)
    \/ \E t \in Sender : SenderPicks(t)
    \/ ThreadPicks
    \/ \E t \in Thread : Naps(t)
    \/ \E t \in Thread : Wakes(t)
    \/ \E t \in Thread : HandlerEnds(t)
    \/ UNCHANGED vars

LEMMA NextCases == [Next]_vars => Cases
  BY DEF Next, Cases

\* The senders' callers rest at "free" or "poll".
LEMMA RestFacts ==
    ASSUME NEW t \in Thread
    PROVE  /\ Rest(t) \in {"free", "poll"}
           /\ Rest(t) = "poll" => t \in Sender /\ await[t] # Null
  BY DEF Rest

\* What a sender pushes is an event.
LEMMA SentEvent ==
    ASSUME IInv, NEW t \in Sender, pc[t] = "send"
    PROVE  Mine(t) \in Event /\ Mine(t) # Null
  <1>1. sent[t] \in 1 .. MaxSends
    BY ConstantFacts DEF IInv, TypeOK, Roles
  <1> QED BY <1>1, ConstantFacts DEF Mine, Event

\* What a pick-up takes from the ring is an event.
LEMMA PickedEvent ==
    ASSUME IInv, MayPickUp
    PROVE  id[head] \in Event /\ id[head] # Null
  <1> USE ConstantFacts DEF IInv, TypeOK
  <1>1. head \in Place /\ tail \in Place /\ head # tail
    BY DEF MayPickUp, IsEmpty
  <1>2. head \in Int /\ tail \in Int
    BY <1>1 DEF Place
  <1>3. id[head] # Null
    BY <1>1, <1>2 DEF RingOK
  <1> QED BY <1>1, <1>3

\* A thread that runs Python, or sleeps in it, is counted.
LEMMA Counted ==
    ASSUME IInv
    PROVE  /\ \A t \in Thread : pc[t] \in {"script", "handler", "nap"} => vm_cnt - 1 \in Nat
           /\ \A t \in Thread : job[t] # Null => event_pickup_cnt - 1 \in Nat
  <1>1. IsFiniteSet(VM) /\ vm_cnt = Cardinality(VM) /\ vm_cnt \in Nat
    BY VMFinite DEF IInv, CountsExact, VM
  <1>2. IsFiniteSet(Jobs) /\ event_pickup_cnt = Cardinality(Jobs) /\ event_pickup_cnt \in Nat
    BY VMFinite DEF IInv, CountsExact, Jobs
  <1>3. ASSUME NEW t \in Thread, pc[t] \in {"script", "handler", "nap"}
        PROVE  vm_cnt - 1 \in Nat
    <2>1. VM # {}
      BY <1>3 DEF VM
    <2>2. vm_cnt # 0
      BY <1>1, <2>1, FS_EmptySet
    <2> QED BY <1>1, <2>2
  <1>4. ASSUME NEW t \in Thread, job[t] # Null
        PROVE  event_pickup_cnt - 1 \in Nat
    <2>1. Jobs # {}
      BY <1>4 DEF Jobs
    <2>2. event_pickup_cnt # 0
      BY <1>2, <2>1, FS_EmptySet
    <2> QED BY <1>2, <2>2
  <1> QED BY <1>3, <1>4
LEMMA ExclusiveStep ==
    ASSUME IInv, [Next]_vars
    PROVE  Exclusive'
  <1> USE ConstantFacts DEF IInv, TypeOK, Exclusive, Holding, cq, counts, work, senders
  <1>1. ASSUME NEW t \in Interp, ScriptRuns(t) PROVE Exclusive'
    BY <1>1 DEF ScriptRuns, Enter
  <1>2. ASSUME NEW t \in Interp, ScriptEnds(t) PROVE Exclusive'
    BY <1>2 DEF ScriptEnds, Exit
  <1>3. ASSUME NEW t \in Sender, Send(t) PROVE Exclusive'
    BY <1>3 DEF Send, Call
  <1>4. ASSUME NEW t \in Sender, SendAwait(t) PROVE Exclusive'
    BY <1>4 DEF SendAwait, Call
  <1>5. ASSUME NEW t \in Sender, Push(t) PROVE Exclusive'
    BY <1>5, RestFacts DEF Push, Accepts, Refuses
  <1>6. ASSUME NEW t \in Sender, Poll(t) PROVE Exclusive'
    BY <1>6 DEF Poll
  <1>7. ASSUME NEW t \in Sender, SenderPicks(t) PROVE Exclusive'
    BY <1>7, RestFacts DEF SenderPicks, PickUp, Exit
  <1>8. ASSUME ThreadPicks PROVE Exclusive'
    BY <1>8 DEF ThreadPicks, PickUp, Enter
  <1>9. ASSUME NEW t \in Thread, Naps(t) PROVE Exclusive'
    BY <1>9 DEF Naps, Exit
  <1>10. ASSUME NEW t \in Thread, Wakes(t) PROVE Exclusive'
    BY <1>10 DEF Wakes, Enter
  <1>11. ASSUME NEW t \in Thread, HandlerEnds(t) PROVE Exclusive'
    BY <1>11, RestFacts DEF HandlerEnds, Exit, CountDown, ResultOf
  <1>12. CASE UNCHANGED vars
    BY <1>12 DEF vars, cq, counts, work, senders
  <1> QED BY NextCases, <1>1, <1>2, <1>3, <1>4, <1>5, <1>6, <1>7, <1>8, <1>9, <1>10, <1>11, <1>12 DEF Cases

LEMMA RolesStep ==
    ASSUME IInv, [Next]_vars
    PROVE  Roles'
  <1> USE ConstantFacts DEF IInv, TypeOK, Roles, Exclusive, Holding, cq, counts, work, senders
  <1>1. ASSUME NEW t \in Interp, ScriptRuns(t) PROVE Roles'
    BY <1>1 DEF ScriptRuns, Enter
  <1>2. ASSUME NEW t \in Interp, ScriptEnds(t) PROVE Roles'
    BY <1>2 DEF ScriptEnds, Exit
  <1>3. ASSUME NEW t \in Sender, Send(t) PROVE Roles'
    BY <1>3 DEF Send, Call
  <1>4. ASSUME NEW t \in Sender, SendAwait(t) PROVE Roles'
    BY <1>4 DEF SendAwait, Call
  <1>5. ASSUME NEW t \in Sender, Push(t) PROVE Roles'
    BY <1>5, RestFacts DEF Push, Accepts, Refuses
  <1>6. ASSUME NEW t \in Sender, Poll(t) PROVE Roles'
    BY <1>6 DEF Poll
  <1>7. ASSUME NEW t \in Sender, SenderPicks(t) PROVE Roles'
    BY <1>7, RestFacts, PickedEvent DEF SenderPicks, PickUp, Exit
  <1>8. ASSUME ThreadPicks PROVE Roles'
    BY <1>8, PickedEvent DEF ThreadPicks, PickUp, Enter
  <1>9. ASSUME NEW t \in Thread, Naps(t) PROVE Roles'
    BY <1>9 DEF Naps, Exit
  <1>10. ASSUME NEW t \in Thread, Wakes(t) PROVE Roles'
    BY <1>10 DEF Wakes, Enter
  <1>11. ASSUME NEW t \in Thread, HandlerEnds(t) PROVE Roles'
    BY <1>11, RestFacts DEF HandlerEnds, Exit, CountDown, ResultOf
  <1>12. CASE UNCHANGED vars
    BY <1>12 DEF vars, cq, counts, work, senders
  <1> QED BY NextCases, <1>1, <1>2, <1>3, <1>4, <1>5, <1>6, <1>7, <1>8, <1>9, <1>10, <1>11, <1>12 DEF Cases

LEMMA RingStep ==
    ASSUME IInv, [Next]_vars
    PROVE  RingOK'
  <1> USE ConstantFacts DEF IInv, TypeOK, RingOK, cq, counts, work, senders
  <1>1. ASSUME NEW t \in Interp, ScriptRuns(t) PROVE RingOK'
    BY <1>1 DEF ScriptRuns, Enter
  <1>2. ASSUME NEW t \in Interp, ScriptEnds(t) PROVE RingOK'
    BY <1>2 DEF ScriptEnds, Exit
  <1>3. ASSUME NEW t \in Sender, Send(t) PROVE RingOK'
    BY <1>3 DEF Send, Call
  <1>4. ASSUME NEW t \in Sender, SendAwait(t) PROVE RingOK'
    BY <1>4 DEF SendAwait, Call
  <1>5. ASSUME NEW t \in Sender, Push(t) PROVE RingOK'
    <2>1. CASE IsFull
      BY <1>5, <2>1 DEF Push, Refuses
    <2>2. CASE ~IsFull
      <3>1. /\ id' = [id EXCEPT ![tail] = Mine(t)] /\ tail' = After(tail) /\ head' = head
        BY <1>5, <2>2 DEF Push, Accepts
      <3>2. Mine(t) # Null
        BY <1>5, SentEvent DEF Push
      <3>3. head \in Place /\ tail \in Place /\ id \in [Place -> Event \cup {Null}]
        OBVIOUS
      <3> SUFFICES ASSUME NEW k \in Place, id'[k] = Null PROVE tail' <= k /\ head' <= tail'
        BY DEF RingOK
      <3>4. k # tail /\ id[k] = Null
        BY <3>1, <3>2, <3>3
      <3>5. tail <= k /\ head <= tail
        BY <3>4 DEF RingOK
      <3>6. tail < ListSize - 1
        BY <3>3, <3>4, <3>5 DEF Place
      <3>7. tail' = tail + 1
        BY <3>1, <3>3, <3>6, AfterFacts
      <3> QED BY <3>1, <3>3, <3>4, <3>5, <3>7 DEF Place
    <2> QED BY <2>1, <2>2
  <1>6. ASSUME NEW t \in Sender, Poll(t) PROVE RingOK'
    BY <1>6 DEF Poll
  <1>7. ASSUME NEW t \in Sender, SenderPicks(t) PROVE RingOK'
    <2>1. CASE MayPickUp
      BY <1>7, <2>1, AfterFacts, SMTT(20) DEF SenderPicks, PickUp, MayPickUp, IsEmpty, Place
    <2>2. CASE ~MayPickUp
      BY <1>7, <2>2 DEF SenderPicks
    <2> QED BY <2>1, <2>2
  <1>8. ASSUME ThreadPicks PROVE RingOK'
    BY <1>8, AfterFacts DEF ThreadPicks, PickUp, Enter, MayPickUp, IsEmpty, Place
  <1>9. ASSUME NEW t \in Thread, Naps(t) PROVE RingOK'
    BY <1>9 DEF Naps, Exit
  <1>10. ASSUME NEW t \in Thread, Wakes(t) PROVE RingOK'
    BY <1>10 DEF Wakes, Enter
  <1>11. ASSUME NEW t \in Thread, HandlerEnds(t) PROVE RingOK'
    BY <1>11 DEF HandlerEnds, Exit, CountDown, ResultOf
  <1>12. CASE UNCHANGED vars
    BY <1>12 DEF vars, cq, counts, work, senders
  <1> QED BY NextCases, <1>1, <1>2, <1>3, <1>4, <1>5, <1>6, <1>7, <1>8, <1>9, <1>10, <1>11, <1>12 DEF Cases

LEMMA TypeStep ==
    ASSUME IInv, [Next]_vars
    PROVE  TypeOK'
  <1> USE ConstantFacts DEF IInv, TypeOK, cq, counts, work, senders
  <1>1. ASSUME NEW t \in Interp, ScriptRuns(t) PROVE TypeOK'
    BY <1>1 DEF ScriptRuns, Enter
  <1>2. ASSUME NEW t \in Interp, ScriptEnds(t) PROVE TypeOK'
    BY <1>2, Counted DEF ScriptEnds, Exit
  <1>3. ASSUME NEW t \in Sender, Send(t) PROVE TypeOK'
    BY <1>3 DEF Send, Call
  <1>4. ASSUME NEW t \in Sender, SendAwait(t) PROVE TypeOK'
    BY <1>4 DEF SendAwait, Call
  <1>5. ASSUME NEW t \in Sender, Push(t) PROVE TypeOK'
    BY <1>5, RestFacts, AfterFacts, SentEvent DEF Push, Accepts, Refuses, ClearResult
  <1>6. ASSUME NEW t \in Sender, Poll(t) PROVE TypeOK'
    BY <1>6 DEF Poll, Roles
  <1>7. ASSUME NEW t \in Sender, SenderPicks(t) PROVE TypeOK'
    BY <1>7, RestFacts, AfterFacts, PickedEvent DEF SenderPicks, PickUp, Exit
  <1>8. ASSUME ThreadPicks PROVE TypeOK'
    BY <1>8, AfterFacts, PickedEvent DEF ThreadPicks, PickUp, Enter
  <1>9. ASSUME NEW t \in Thread, Naps(t) PROVE TypeOK'
    BY <1>9 DEF Naps, Exit
  <1>10. ASSUME NEW t \in Thread, Wakes(t) PROVE TypeOK'
    BY <1>10 DEF Wakes, Enter
  <1>11. ASSUME NEW t \in Thread, HandlerEnds(t) PROVE TypeOK'
    <2>1. t \notin Interp /\ job[t] \in Event /\ job[t] # Null
      BY <1>11 DEF HandlerEnds, Roles
    <2>2. vm_cnt' \in Nat /\ event_pickup_cnt' \in Nat
      BY <1>11, <2>1, Counted DEF HandlerEnds, CountDown
    <2>3. res' \in [Place -> Event \cup {Null}]
      BY <1>11, <2>1 DEF HandlerEnds, ResultOf, Result
    <2>4. Rest(t) \in {"free", "poll"}
      BY RestFacts
    <2> QED BY <1>11, <2>1, <2>2, <2>3, <2>4 DEF HandlerEnds, Exit
  <1>12. CASE UNCHANGED vars
    BY <1>12 DEF vars
  <1> QED BY NextCases, <1>1, <1>2, <1>3, <1>4, <1>5, <1>6, <1>7, <1>8, <1>9, <1>10, <1>11, <1>12 DEF Cases

\* The sets that are counted change by the thread that moves.
LEMMA SetsStep ==
    ASSUME IInv, Cases
    PROVE  \/ /\ VM' = VM /\ vm_cnt' = vm_cnt
              /\ Jobs' = Jobs /\ event_pickup_cnt' = event_pickup_cnt
           \/ \E t \in Thread : /\ t \notin VM /\ VM' = VM \cup {t} /\ vm_cnt' = vm_cnt + 1
                                /\ Jobs' = Jobs /\ event_pickup_cnt' = event_pickup_cnt
           \/ \E t \in VM : /\ VM' = VM \ {t} /\ vm_cnt' = vm_cnt - 1
                            /\ Jobs' = Jobs /\ event_pickup_cnt' = event_pickup_cnt
           \/ \E t \in Thread \ Jobs :
                /\ t \notin VM /\ VM' = VM \cup {t} /\ vm_cnt' = vm_cnt + 1
                /\ Jobs' = Jobs \cup {t} /\ event_pickup_cnt' = event_pickup_cnt + 1
                /\ event_pickup_cnt < PickupMax
           \/ \E t \in Jobs \cap VM :
                /\ VM' = VM \ {t} /\ vm_cnt' = vm_cnt - 1
                /\ Jobs' = Jobs \ {t} /\ event_pickup_cnt' = event_pickup_cnt - 1
  <1> DEFINE Same == /\ VM' = VM /\ vm_cnt' = vm_cnt
                     /\ Jobs' = Jobs /\ event_pickup_cnt' = event_pickup_cnt
             Enters(t) == /\ t \notin VM /\ VM' = VM \cup {t} /\ vm_cnt' = vm_cnt + 1
                          /\ Jobs' = Jobs /\ event_pickup_cnt' = event_pickup_cnt
             Leaves(t) == /\ VM' = VM \ {t} /\ vm_cnt' = vm_cnt - 1
                          /\ Jobs' = Jobs /\ event_pickup_cnt' = event_pickup_cnt
             Takes(t) == /\ t \notin VM /\ VM' = VM \cup {t} /\ vm_cnt' = vm_cnt + 1
                         /\ Jobs' = Jobs \cup {t} /\ event_pickup_cnt' = event_pickup_cnt + 1
                         /\ event_pickup_cnt < PickupMax
             Drops(t) == /\ VM' = VM \ {t} /\ vm_cnt' = vm_cnt - 1
                         /\ Jobs' = Jobs \ {t} /\ event_pickup_cnt' = event_pickup_cnt - 1
  <1> USE ConstantFacts DEF IInv, TypeOK, Roles, cq, counts, work, senders
  <1>1. ASSUME NEW t \in Interp, ScriptRuns(t) PROVE Enters(t)
    BY <1>1 DEF ScriptRuns, Enter, VM, Jobs
  <1>2. ASSUME NEW t \in Interp, ScriptEnds(t) PROVE t \in VM /\ Leaves(t)
    BY <1>2 DEF ScriptEnds, Exit, VM, Jobs
  <1>3. ASSUME NEW t \in Sender, Send(t) PROVE Same
    BY <1>3 DEF Send, Call, VM, Jobs
  <1>4. ASSUME NEW t \in Sender, SendAwait(t) PROVE Same
    BY <1>4 DEF SendAwait, Call, VM, Jobs
  <1>5. ASSUME NEW t \in Sender, Push(t) PROVE Same
    BY <1>5, RestFacts DEF Push, Accepts, Refuses, VM, Jobs
  <1>6. ASSUME NEW t \in Sender, Poll(t) PROVE Same
    BY <1>6 DEF Poll, VM, Jobs
  <1>7. ASSUME NEW t \in Sender, SenderPicks(t)
        PROVE  Same \/ (t \in Thread \ Jobs /\ Takes(t))
    <2>1. CASE MayPickUp
      BY <1>7, <2>1, PickedEvent DEF SenderPicks, PickUp, MayPickUp, VM, Jobs
    <2>2. CASE ~MayPickUp
      <3>1. /\ pc' = [pc EXCEPT ![t] = Rest(t)] /\ pc[t] = "pick" /\ job' = job
            /\ vm_cnt' = vm_cnt /\ event_pickup_cnt' = event_pickup_cnt
        BY <1>7, <2>2 DEF SenderPicks, Exit
      <3>2. Jobs' = Jobs
        BY <3>1 DEF Jobs
      <3>3. VM' = VM
        BY <3>1, RestFacts DEF VM
      <3> QED BY <3>1, <3>2, <3>3
    <2> QED BY <2>1, <2>2
  <1>8. ASSUME ThreadPicks
        PROVE  EventThread \in Thread \ Jobs /\ Takes(EventThread)
    BY <1>8, PickedEvent DEF ThreadPicks, PickUp, Enter, MayPickUp, VM, Jobs
  <1>9. ASSUME NEW t \in Thread, Naps(t) PROVE Same
    BY <1>9 DEF Naps, Exit, VM, Jobs
  <1>10. ASSUME NEW t \in Thread, Wakes(t) PROVE Same
    BY <1>10 DEF Wakes, Enter, VM, Jobs
  <1>11. ASSUME NEW t \in Thread, HandlerEnds(t) PROVE t \in Jobs \cap VM /\ Drops(t)
    <2>1. t \in Thread \ Interp /\ job[t] # Null
      BY <1>11 DEF HandlerEnds
    <2> QED BY <1>11, <2>1, RestFacts DEF HandlerEnds, Exit, CountDown, VM, Jobs
  <1>12. ASSUME UNCHANGED vars PROVE Same
    BY <1>12 DEF vars, VM, Jobs
  <1>13. Interp \subseteq Thread /\ Sender \subseteq Thread /\ VM \subseteq Thread
    BY DEF VM
  <1> HIDE DEF Same, Enters, Leaves, Takes, Drops
  <1>14. \/ Same
         \/ \E t \in Thread : Enters(t)
         \/ \E t \in VM : Leaves(t)
         \/ \E t \in Thread \ Jobs : Takes(t)
         \/ \E t \in Jobs \cap VM : Drops(t)
    BY <1>1, <1>2, <1>3, <1>4, <1>5, <1>6, <1>7, <1>8, <1>9, <1>10, <1>11, <1>12,
       <1>13 DEF Cases
  <1> QED BY <1>14 DEF Same, Enters, Leaves, Takes, Drops

LEMMA CountsStep ==
    ASSUME IInv, [Next]_vars, TypeOK'
    PROVE  CountsExact'
  <1>1. /\ IsFiniteSet(VM) /\ vm_cnt = Cardinality(VM)
        /\ IsFiniteSet(Jobs) /\ event_pickup_cnt = Cardinality(Jobs)
        /\ event_pickup_cnt <= PickupMax
        /\ event_pickup_cnt \in Nat /\ PickupMax \in Nat
    BY VMFinite, ConstantFacts DEF IInv, TypeOK, CountsExact, VM, Jobs
  <1>2. \A t : /\ Cardinality(VM \cup {t}) = IF t \in VM THEN Cardinality(VM) ELSE Cardinality(VM) + 1
               /\ Cardinality(VM \ {t}) = IF t \in VM THEN Cardinality(VM) - 1 ELSE Cardinality(VM)
               /\ Cardinality(Jobs \cup {t}) = IF t \in Jobs THEN Cardinality(Jobs) ELSE Cardinality(Jobs) + 1
               /\ Cardinality(Jobs \ {t}) = IF t \in Jobs THEN Cardinality(Jobs) - 1 ELSE Cardinality(Jobs)
    BY <1>1, FS_AddElement, FS_RemoveElement
  <1>3. /\ vm_cnt' = Cardinality(VM')
        /\ event_pickup_cnt' = Cardinality(Jobs')
        /\ event_pickup_cnt' <= PickupMax
    BY <1>1, <1>2, SetsStep, NextCases
  <1> QED BY <1>3 DEF CountsExact, VM, Jobs

LEMMA StepInv == IInv /\ [Next]_vars => IInv'
  <1> SUFFICES ASSUME IInv, [Next]_vars PROVE IInv'
    OBVIOUS
  <1>1. TypeOK' /\ Exclusive' /\ Roles' /\ RingOK'
    BY TypeStep, ExclusiveStep, RolesStep, RingStep
  <1>2. CountsExact'
    BY <1>1, CountsStep
  <1> QED BY <1>1, <1>2 DEF IInv
-----------------------------------------------------------------------------
\* Lock, ring and threads are always well formed, for any number of tasks
\* and any size of the ring (PikaVM.c l.234-315).
THEOREM TypeCorrect == Spec => []TypeOK
  <1>1. IInv => TypeOK
    BY DEF IInv
  <1> QED BY InitInv, StepInv, <1>1, PTL DEF Spec

\* The counters by which a sender decides to run a callback itself are exact
\* whoever sleeps in the middle of what (PikaVM.c l.4184, 4242, 306, 312).
THEOREM CountsCorrect == Spec => []CountsExact
  <1>1. IInv => CountsExact
    BY DEF IInv
  <1> QED BY InitInv, StepInv, <1>1, PTL DEF Spec

\* Never do two threads run Python at once, though scripts and callbacks let
\* go of the lock in their middle: pika_assert(lock_times == 1) of l.88 holds.
THEOREM LockExclusive == Spec => []Exclusive
  <1>1. IInv => Exclusive
    BY DEF IInv
  <1> QED BY InitInv, StepInv, <1>1, PTL DEF Spec
-----------------------------------------------------------------------------
(* Whose result a caller gets.  A call that awaits its result and is alone  *)
(* with the queue finds its event in the place it has read the tail of: the *)
(* only event in the ring, then the only one under way.                     *)

AwaitOK(t) ==
    await[t] # Null =>
        /\ t \notin Failing /\ got[t] = Null
        /\ pc[t] \in {"send", "pick", "poll", "handler", "nap"}
        /\ \A u \in Sender \ {t} : pc[u] = "free"
        /\ pc[t] = "send" =>
               /\ head = tail /\ await[t] = tail
               /\ \A v \in Thread : job[v] = Null
        /\ pc[t] # "send" =>
               /\ \A v \in Thread : job[v] # Null => job[v] = Mine(t) /\ slot[v] = await[t]
               /\ \/ head = tail
                  \/ head = await[t] /\ tail = After(head) /\ id[head] = Mine(t)
               /\ res[await[t]] \in {Null, Mine(t)}

GotOK(t) == got[t] # Null => got[t] = Mine(t)

Alone == \A t \in Sender : AwaitOK(t) /\ GotOK(t)

\* A step that leaves a sender and the ring alone, and starts no callback.
LEMMA AwaitRests ==
    ASSUME NEW t \in Sender, AwaitOK(t), GotOK(t),
           UNCHANGED <<head, tail, id, res>>,
           sent'[t] = sent[t], await'[t] = await[t], got'[t] = got[t],
           \A u \in Sender \ {t} : pc[u] = "free" => pc'[u] = "free",
           pc'[t] = pc[t] \/ (pc[t] # "send" /\ pc'[t] \in {"pick", "poll", "handler", "nap"}),
           \A v \in Thread : job'[v] # Null => job'[v] = job[v] /\ slot'[v] = slot[v]
    PROVE  AwaitOK(t)' /\ GotOK(t)'
  BY DEF AwaitOK, GotOK, Mine, After

\* A callback is started: it is that of the awaited event.
LEMMA AwaitPicks ==
    ASSUME IInv, NEW t \in Sender, AwaitOK(t), GotOK(t), NEW v \in Thread,
           MayPickUp, PickUp(v), pc' = [pc EXCEPT ![v] = "handler"],
           v \in Sender => pc[v] = "pick"
    PROVE  AwaitOK(t)' /\ GotOK(t)'
  <1> USE ConstantFacts DEF IInv, TypeOK, work, senders
  <1>1. /\ head' = After(head) /\ UNCHANGED <<tail, id, res, sent, await, got>>
        /\ job' = [job EXCEPT ![v] = id[head]] /\ slot' = [slot EXCEPT ![v] = head]
        /\ head # tail
    BY DEF PickUp, MayPickUp, IsEmpty
  <1>2. GotOK(t)'
    BY <1>1 DEF GotOK, Mine
  <1>3. CASE await[t] = Null
    BY <1>1, <1>2, <1>3 DEF AwaitOK
  <1>4. CASE await[t] # Null
    <2>1. pc[t] # "send" /\ head = await[t] /\ tail = After(head) /\ id[head] = Mine(t)
      BY <1>1, <1>4 DEF AwaitOK
    <2>2. \A u \in Sender \ {t} : pc'[u] = "free"
      BY <1>4 DEF AwaitOK
    <2>3. pc'[t] # "send" /\ pc'[t] \in {"pick", "poll", "handler", "nap"}
      BY <1>4, <2>1 DEF AwaitOK
    <2>4. \A w \in Thread : job'[w] # Null => job'[w] = Mine(t) /\ slot'[w] = await[t]
      BY <1>1, <1>4, <2>1 DEF AwaitOK
    <2> QED BY <1>1, <1>2, <1>4, <2>1, <2>2, <2>3, <2>4 DEF AwaitOK, Mine
  <1> QED BY <1>3, <1>4

LEMMA AloneStep ==
    ASSUME Solo, IInv, Alone, [Next]_vars
    PROVE  Alone'
  <1> SUFFICES ASSUME NEW u \in Sender PROVE AwaitOK(u)' /\ GotOK(u)'
    BY DEF Alone
  <1> USE ConstantFacts DEF IInv, TypeOK, cq, counts, work, senders
  <1>0. AwaitOK(u) /\ GotOK(u)
    BY DEF Alone
  <1>1. ASSUME NEW t \in Interp, ScriptRuns(t) \/ ScriptEnds(t) PROVE AwaitOK(u)' /\ GotOK(u)'
    BY <1>0, <1>1, AwaitRests DEF ScriptRuns, ScriptEnds, Enter, Exit
  <1>2. ASSUME NEW t \in Sender, Send(t) PROVE AwaitOK(u)' /\ GotOK(u)'
    <2>1. await' = await /\ await[u] = Null
      BY <1>2 DEF Send
    <2>2. GotOK(u)'
      <3>1. CASE u = t BY <1>2, <3>1 DEF Send, Call, GotOK
      <3>2. CASE u # t BY <1>0, <1>2, <3>2 DEF Send, Call, GotOK, Mine
      <3> QED BY <3>1, <3>2
    <2> QED BY <2>1, <2>2 DEF AwaitOK
  <1>3. ASSUME NEW t \in Sender, SendAwait(t) PROVE AwaitOK(u)' /\ GotOK(u)'
    <2>1. /\ UNCHANGED <<head, tail, id, res, job, slot>>
          /\ pc[t] = "free" /\ pc' = [pc EXCEPT ![t] = "send"]
          /\ got' = [got EXCEPT ![t] = Null] /\ await' = [await EXCEPT ![t] = tail]
          /\ sent' = [sent EXCEPT ![t] = @ + 1]
          /\ Quiet(t)
      BY <1>3 DEF SendAwait, Call
    <2>2. CASE u = t
      <3>1. Jobs = {}
        BY <2>1, VMFinite, FS_EmptySet DEF Quiet, CountsExact, Jobs
      <3> QED BY <2>1, <2>2, <3>1 DEF AwaitOK, GotOK, Quiet, IsEmpty, Jobs
    <2>3. CASE u # t
      <3>1. await[u] = Null
        BY <1>0, <2>1, <2>3 DEF AwaitOK, Quiet
      <3> QED BY <1>0, <2>1, <2>3, <3>1 DEF AwaitOK, GotOK, Mine
    <2> QED BY <2>2, <2>3
  <1>4. ASSUME NEW t \in Sender, Push(t) PROVE AwaitOK(u)' /\ GotOK(u)'
    <2>1. /\ UNCHANGED <<head, job, slot, sent, await, got>> /\ pc[t] = "send"
      BY <1>4 DEF Push
    <2>2. GotOK(u)'
      BY <1>0, <2>1 DEF GotOK, Mine
    <2>3. CASE await[u] = Null
      BY <2>1, <2>2, <2>3 DEF AwaitOK
    <2>4. CASE await[u] # Null
      <3>1. u = t
        BY <1>0, <2>1, <2>4 DEF AwaitOK
      <3>2. /\ head = tail /\ await[u] = tail /\ \A v \in Thread : job[v] = Null
            /\ u \notin Failing /\ got[u] = Null /\ \A w \in Sender \ {u} : pc[w] = "free"
        BY <1>0, <2>1, <2>4, <3>1 DEF AwaitOK
      <3>3. tail \in Place /\ tail \in 0 .. ListSize - 1
        BY DEF Place
      <3>4. After(tail) # head
        BY <3>2, <3>3, AfterFacts
      <3>5. Accepts(u)
        BY <1>4, <3>1, <3>4 DEF Push, IsFull
      <3>6. /\ tail' = After(tail) /\ id'[head'] = Mine(u) /\ res'[tail] = Null
        BY <2>1, <3>2, <3>3, <3>5 DEF Accepts, ClearResult
      <3>7. pc'[u] \in {"pick", "poll"} /\ \A w \in Sender \ {u} : pc'[w] = pc[w]
        BY <2>4, <3>5, RestFacts DEF Accepts, Rest
      <3> QED BY <2>1, <2>2, <2>4, <3>2, <3>6, <3>7 DEF AwaitOK, Mine, After
    <2> QED BY <2>3, <2>4
  <1>5. ASSUME NEW t \in Sender, Poll(t) PROVE AwaitOK(u)' /\ GotOK(u)'
    <2>1. /\ UNCHANGED <<head, tail, id, res, job, slot, sent>>
          /\ pc[t] = "poll" /\ pc' = [pc EXCEPT ![t] = "free"] /\ await[t] # Null
          /\ got' = [got EXCEPT ![t] = res[await[t]]]
          /\ await' = [await EXCEPT ![t] = Null]
      BY <1>5 DEF Poll, Roles
    <2>2. CASE u = t
      BY <1>0, <2>1, <2>2 DEF AwaitOK, GotOK, Mine
    <2>3. CASE u # t
      BY <1>0, <2>1, <2>3 DEF AwaitOK, GotOK, Mine
    <2> QED BY <2>2, <2>3
  <1>6. ASSUME NEW t \in Sender, SenderPicks(t) PROVE AwaitOK(u)' /\ GotOK(u)'
    <2>1. CASE MayPickUp
      BY <1>0, <1>6, <2>1, AwaitPicks DEF SenderPicks
    <2>2. CASE ~MayPickUp
      <3>1. /\ UNCHANGED <<head, tail, id, res, job, slot, sent, await, got>>
            /\ pc[t] = "pick" /\ pc' = [pc EXCEPT ![t] = Rest(t)]
        BY <1>6, <2>2 DEF SenderPicks, Exit
      <3>2. CASE await[u] = Null
        BY <1>0, <3>1, <3>2 DEF AwaitOK, GotOK, Mine
      <3>3. CASE await[u] # Null
        <4>1. u = t /\ pc'[u] = "poll"
          BY <1>0, <3>1, <3>3 DEF AwaitOK, Rest
        <4> QED BY <1>0, <3>1, <4>1, AwaitRests
      <3> QED BY <3>2, <3>3
    <2> QED BY <2>1, <2>2
  <1>7. ASSUME ThreadPicks PROVE AwaitOK(u)' /\ GotOK(u)'
    BY <1>0, <1>7, AwaitPicks DEF ThreadPicks, Enter
  <1>8. ASSUME NEW t \in Thread, Naps(t) \/ Wakes(t) PROVE AwaitOK(u)' /\ GotOK(u)'
    <2>1. /\ UNCHANGED <<head, tail, id, res, job, slot, sent, await, got>>
          /\ pc[t] \in {"script", "handler", "nap"}
          /\ \E p \in {"script", "handler", "nap"} : pc' = [pc EXCEPT ![t] = p]
          /\ t \in Sender => pc'[t] \in {"handler", "nap"}
      BY <1>8 DEF Naps, Wakes, Enter, Exit, Roles
    <2> QED BY <1>0, <2>1, AwaitRests
  <1>9. ASSUME NEW t \in Thread, HandlerEnds(t) PROVE AwaitOK(u)' /\ GotOK(u)'
    <2>1. /\ UNCHANGED <<head, tail, id, sent, await, got>>
          /\ pc[t] = "handler" /\ pc' = [pc EXCEPT ![t] = Rest(t)]
          /\ job' = [job EXCEPT ![t] = Null] /\ slot' = [slot EXCEPT ![t] = Null]
          /\ res' = [res EXCEPT ![slot[t]] = Result(t)]
          /\ job[t] # Null
      BY <1>9 DEF HandlerEnds, Exit, ResultOf, Roles
    <2>2. CASE await[u] = Null
      BY <1>0, <2>1, <2>2 DEF AwaitOK, GotOK, Mine
    <2>3. CASE await[u] # Null
      <3>1. pc[u] # "send" /\ job[t] = Mine(u) /\ slot[t] = await[u] /\ u \notin Failing
        BY <1>0, <2>1, <2>3 DEF AwaitOK
      <3>2. Result(t) = Mine(u)
        BY <3>1 DEF Result, Mine
      <3>3. await[u] \in Place /\ res'[await[u]] = Mine(u)
        BY <2>1, <2>3, <3>1, <3>2
      <3>4. pc'[u] = pc[u] \/ pc'[u] = "poll"
        BY <2>1, <2>3 DEF Rest
      <3>5. \A w \in Sender \ {u} : pc'[w] = "free"
        BY <1>0, <2>1, <2>3 DEF AwaitOK
      <3>6. \A v \in Thread : job'[v] # Null => job'[v] = job[v] /\ slot'[v] = slot[v]
        BY <2>1
      <3> QED BY <1>0, <2>1, <2>3, <3>1, <3>3, <3>4, <3>5, <3>6 DEF AwaitOK, GotOK, Mine, After
    <2> QED BY <2>2, <2>3
  <1>10. CASE UNCHANGED vars
    BY <1>0, <1>10, AwaitRests DEF vars
  <1> QED BY NextCases, <1>1, <1>2, <1>3, <1>4, <1>5, <1>6, <1>7, <1>8, <1>9, <1>10 DEF Cases

\* A caller that awaits its result gets that of its own event, for any number
\* of tasks and any size of the ring, if nobody else uses the queue while it
\* waits and its callback has a result (PikaObj.c l.2850-2889); the run
\* pika_await shows what happens otherwise.
THEOREM AwaitCorrect ==
    ASSUME Solo PROVE Spec => []AwaitGetsOwn
  <1>1. Init => Alone
    BY DEF Init, Alone, AwaitOK, GotOK
  <1>2. IInv /\ Alone /\ [Next]_vars => Alone'
    BY AloneStep
  <1>3. Alone => AwaitGetsOwn
    BY DEF Alone, GotOK, AwaitGetsOwn
  <1> QED BY InitInv, StepInv, <1>1, <1>2, <1>3, PTL DEF Spec
-----------------------------------------------------------------------------
(* The ring is a queue: what the bus calls pending.                        *)

\* The place of the k-th event of a ring whose oldest is at h.
Cell(h, k) == (h + k - 1) % ListSize
Pending == [k \in 1 .. Waiting |-> id[Cell(head, k)]]
Running == {job[t] : t \in {u \in Thread : job[u] # Null}}

LEMMA CellIs ==
    ASSUME NEW h \in Place, NEW k \in 1 .. ListSize
    PROVE  /\ Cell(h, k) \in Place
           /\ h + k <= ListSize => Cell(h, k) = h + k - 1
           /\ h + k > ListSize => Cell(h, k) = h + k - 1 - ListSize
  <1> USE ConstantFacts DEF Place
  <1>1. CASE h + k <= ListSize
    <2>1. (h + k - 1) % ListSize = h + k - 1
      BY <1>1, RemainderIs
    <2> QED BY <1>1, <2>1 DEF Cell
  <1>2. CASE h + k > ListSize
    <2>1. (h + k - 1) % ListSize = h + k - 1 - ListSize
      BY <1>2, RemainderIs
    <2> QED BY <1>2, <2>1 DEF Cell
  <1> QED BY <1>1, <1>2

\* How many events wait from h on before e.
Span(h, e) == (e + ListSize - h) % ListSize

LEMMA SpanIs ==
    ASSUME NEW h \in Place, NEW e \in Place
    PROVE  /\ Span(h, e) \in 0 .. ListSize - 1 /\ Span(h, e) \in Int
           /\ e >= h => Span(h, e) = e - h
           /\ e < h => Span(h, e) = e - h + ListSize
  <1> USE ConstantFacts DEF Place
  <1>1. CASE e >= h
    <2>1. (e + ListSize - h) % ListSize = e - h
      BY <1>1, RemainderIs
    <2> QED BY <1>1, <2>1 DEF Span
  <1>2. CASE e < h
    <2>1. (e + ListSize - h) % ListSize = e - h + ListSize
      BY <1>2, RemainderIs
    <2> QED BY <1>2, <2>1 DEF Span
  <1> QED BY <1>1, <1>2

LEMMA SpanGrows ==
    ASSUME NEW h \in Place, NEW e \in Place, After(e) # h
    PROVE  Span(h, e) + 1 < ListSize /\ Span(h, After(e)) = Span(h, e) + 1
           /\ Cell(h, Span(h, e) + 1) = e
  <1> USE ConstantFacts DEF Place
  <1>1. PICK a \in Place, m \in Int, n \in Int :
           /\ a = After(e) /\ m = Span(h, e) /\ n = Span(h, a)
           /\ e < ListSize - 1 => a = e + 1
           /\ e = ListSize - 1 => a = 0
           /\ e >= h => m = e - h
           /\ e < h => m = e - h + ListSize
           /\ a >= h => n = a - h
           /\ a < h => n = a - h + ListSize
    <2>1. After(e) \in Place /\ Span(h, e) \in Int
      BY AfterFacts, SpanIs
    <2> HIDE DEF Place
    <2>2. /\ Span(h, After(e)) \in Int
          /\ After(e) >= h => Span(h, After(e)) = After(e) - h
          /\ After(e) < h => Span(h, After(e)) = After(e) - h + ListSize
      BY <2>1, SpanIs, Zenon
    <2>3. /\ e < ListSize - 1 => After(e) = e + 1
          /\ e = ListSize - 1 => After(e) = 0
          /\ e >= h => Span(h, e) = e - h
          /\ e < h => Span(h, e) = e - h + ListSize
      BY SpanIs, AfterFacts
    <2> QED BY <2>1, <2>2, <2>3
  <1>2. m + 1 \in 1 .. ListSize - 1 /\ n = m + 1
    BY <1>1
  <1>3. /\ h + (m + 1) <= ListSize => Cell(h, m + 1) = h + (m + 1) - 1
        /\ h + (m + 1) > ListSize => Cell(h, m + 1) = h + (m + 1) - 1 - ListSize
    BY <1>2, CellIs
  <1>4. Cell(h, m + 1) = e
    BY <1>1, <1>2, <1>3
  <1> QED BY <1>1, <1>2, <1>4

LEMMA SpanShrinks ==
    ASSUME NEW h \in Place, NEW e \in Place, h # e
    PROVE  /\ Span(h, e) \in Nat \ {0} /\ Span(After(h), e) = Span(h, e) - 1
           /\ \A k \in 1 .. ListSize - 1 : Cell(After(h), k) = Cell(h, k + 1)
           /\ Cell(h, 1) = h
  <1> USE ConstantFacts DEF Place
  <1>1. PICK a \in Place, m \in Int, n \in Int :
           /\ a = After(h) /\ m = Span(h, e) /\ n = Span(a, e)
           /\ h < ListSize - 1 => a = h + 1
           /\ h = ListSize - 1 => a = 0
           /\ e >= h => m = e - h
           /\ e < h => m = e - h + ListSize
           /\ e >= a => n = e - a
           /\ e < a => n = e - a + ListSize
    <2>1. After(h) \in Place /\ Span(h, e) \in Int
      BY AfterFacts, SpanIs
    <2> HIDE DEF Place
    <2>2. /\ Span(After(h), e) \in Int
          /\ e >= After(h) => Span(After(h), e) = e - After(h)
          /\ e < After(h) => Span(After(h), e) = e - After(h) + ListSize
      BY <2>1, SpanIs, Zenon
    <2>3. /\ h < ListSize - 1 => After(h) = h + 1
          /\ h = ListSize - 1 => After(h) = 0
          /\ e >= h => Span(h, e) = e - h
          /\ e < h => Span(h, e) = e - h + ListSize
      BY SpanIs, AfterFacts
    <2> QED BY <2>1, <2>2, <2>3
  <1>2. m \in Nat \ {0} /\ n = m - 1
    BY <1>1
  <1>3. ASSUME NEW k \in 1 .. ListSize - 1 PROVE Cell(a, k) = Cell(h, k + 1)
    <2>1. k \in 1 .. ListSize /\ k + 1 \in 1 .. ListSize
      OBVIOUS
    <2>2. /\ a + k <= ListSize => Cell(a, k) = a + k - 1
          /\ a + k > ListSize => Cell(a, k) = a + k - 1 - ListSize
          /\ h + (k + 1) <= ListSize => Cell(h, k + 1) = h + (k + 1) - 1
          /\ h + (k + 1) > ListSize => Cell(h, k + 1) = h + (k + 1) - 1 - ListSize
      BY <2>1, CellIs
    <2> QED BY <1>1, <2>2
  <1>4. Cell(h, 1) = h
    BY CellIs
  <1> QED BY <1>1, <1>2, <1>3, <1>4

LEMMA WaitingIs ==
    ASSUME head \in Place, tail \in Place
    PROVE  /\ Waiting = Span(head, tail) /\ Waiting \in 0 .. ListSize - 1
           /\ tail >= head => Waiting = tail - head
           /\ tail < head => Waiting = tail - head + ListSize
  BY SpanIs DEF Waiting, Span

\* The places of the events that wait are apart, and none of them is the tail.
LEMMA CellsApart ==
    ASSUME head \in Place, tail \in Place, NEW k \in 1 .. Waiting
    PROVE  /\ k \in 1 .. ListSize /\ Cell(head, k) \in Place /\ Cell(head, k) # tail
           /\ \A l \in 1 .. Waiting : l # k => Cell(head, l) # Cell(head, k)
  <1> USE ConstantFacts DEF Place
  <1>1. k \in 1 .. ListSize /\ \A l \in 1 .. Waiting : l \in 1 .. ListSize
    BY WaitingIs
  <1>2. Cell(head, k) \in Place /\ Cell(head, k) # tail
    BY <1>1, WaitingIs, CellIs
  <1>3. ASSUME NEW l \in 1 .. Waiting, l # k PROVE Cell(head, l) # Cell(head, k)
    <2>1. PICK a \in Int :
             /\ a = Cell(head, k)
             /\ head + k <= ListSize => a = head + k - 1
             /\ head + k > ListSize => a = head + k - 1 - ListSize
      BY <1>1, CellIs
    <2>2. PICK b \in Int :
             /\ b = Cell(head, l)
             /\ head + l <= ListSize => b = head + l - 1
             /\ head + l > ListSize => b = head + l - 1 - ListSize
      BY <1>1, CellIs
    <2>3. k \in 1 .. ListSize - 1 /\ l \in 1 .. ListSize - 1
      BY WaitingIs
    <2>4. a # b
      BY <1>3, <2>1, <2>2, <2>3
    <2> QED BY <2>1, <2>2, <2>4
  <1> QED BY <1>1, <1>2, <1>3

\* Event e has been pushed: a sender that is about to push has a new one.
Issued(e) == e[2] <= sent[e[1]] /\ (pc[e[1]] = "send" => e[2] # sent[e[1]])

\* An event is in one place at a time, and no event is new twice.
Once ==
    /\ \A k, l \in 1 .. Waiting : k # l => Pending[k] # Pending[l]
    /\ \A k \in 1 .. Waiting, t \in Thread : Pending[k] # job[t]
    /\ \A s, t \in Thread : job[s] # Null /\ s # t => job[s] # job[t]
    /\ \A k \in 1 .. Waiting : Issued(Pending[k])
    /\ \A e \in Running \cup handled : Issued(e)

\* What a step is to the bus: nothing, or an event pushed, picked up or through.
Unseen ==
    /\ UNCHANGED <<head, tail, id, job, handled>>
    /\ \A e \in Event : Issued(e) => Issued(e)'
Pushed(t) ==
    /\ pc[t] = "send" /\ pc'[t] # "send" /\ ~IsFull
    /\ tail' = After(tail) /\ id' = [id EXCEPT ![tail] = Mine(t)]
    /\ UNCHANGED <<head, job, handled, sent>>
    /\ \A u \in Sender : pc'[u] = "send" => pc[u] = "send"
Picked(t) ==
    /\ MayPickUp /\ head' = After(head)
    /\ job[t] = Null /\ job' = [job EXCEPT ![t] = id[head]]
    /\ UNCHANGED <<tail, id, handled, sent>>
    /\ \A u \in Sender : pc'[u] = "send" => pc[u] = "send"
Ended(t) ==
    /\ job[t] # Null /\ job' = [job EXCEPT ![t] = Null]
    /\ handled' = handled \cup {job[t]}
    /\ UNCHANGED <<head, tail, id, sent>>
    /\ \A u \in Sender : pc'[u] = "send" => pc[u] = "send"
Kinds == \/ Unseen
         \/ \E t \in Sender : Pushed(t)
         \/ \E t \in Thread : Picked(t) \/ Ended(t)

LEMMA IssuedStays ==
    ASSUME UNCHANGED sent, \A u \in Sender : pc'[u] = "send" => pc[u] = "send"
    PROVE  \A e \in Event : Issued(e) => Issued(e)'
  BY DEF Issued, Event

LEMMA StepKinds ==
    ASSUME IInv, [Next]_vars
    PROVE  Kinds
  <1> USE ConstantFacts DEF IInv, TypeOK, Roles, cq, counts, work, senders
  <1>1. ASSUME NEW t \in Interp, ScriptRuns(t) \/ ScriptEnds(t) PROVE Unseen
    BY <1>1, IssuedStays DEF ScriptRuns, ScriptEnds, Enter, Exit, Unseen
  <1>2. ASSUME NEW t \in Sender, Send(t) \/ SendAwait(t) PROVE Unseen
    <2>1. /\ UNCHANGED <<head, tail, id, job, handled>>
          /\ sent' = [sent EXCEPT ![t] = @ + 1] /\ pc' = [pc EXCEPT ![t] = "send"]
      BY <1>2 DEF Send, SendAwait, Call
    <2>2. ASSUME NEW e \in Event, Issued(e) PROVE Issued(e)'
      <3>1. e[1] \in Sender /\ e[2] \in Nat /\ e[2] <= sent[e[1]] /\ sent[e[1]] \in Nat
        BY <2>2 DEF Issued, Event
      <3>2. CASE e[1] = t
        <4>1. sent'[e[1]] = sent[e[1]] + 1
          BY <2>1, <3>1, <3>2
        <4> QED BY <3>1, <4>1 DEF Issued
      <3>3. CASE e[1] # t
        BY <2>1, <2>2, <3>1, <3>3 DEF Issued
      <3> QED BY <3>2, <3>3
    <2> QED BY <2>1, <2>2 DEF Unseen
  <1>3. ASSUME NEW t \in Sender, Push(t) PROVE Unseen \/ Pushed(t)
    <2>1. CASE IsFull
      BY <1>3, <2>1, RestFacts, IssuedStays DEF Push, Refuses, Unseen
    <2>2. CASE ~IsFull
      BY <1>3, <2>2, RestFacts DEF Push, Accepts, Pushed
    <2> QED BY <2>1, <2>2
  <1>4. ASSUME NEW t \in Sender, Poll(t) PROVE Unseen
    BY <1>4, IssuedStays DEF Poll, Unseen
  <1>5. ASSUME NEW t \in Sender, SenderPicks(t) PROVE Unseen \/ Picked(t)
    <2>1. CASE MayPickUp
      BY <1>5, <2>1 DEF SenderPicks, PickUp, Picked
    <2>2. CASE ~MayPickUp
      BY <1>5, <2>2, RestFacts, IssuedStays DEF SenderPicks, Exit, Unseen
    <2> QED BY <2>1, <2>2
  <1>6. ASSUME ThreadPicks PROVE Picked(EventThread)
    BY <1>6 DEF ThreadPicks, PickUp, Enter, Picked
  <1>7. ASSUME NEW t \in Thread, Naps(t) \/ Wakes(t) PROVE Unseen
    BY <1>7, IssuedStays DEF Naps, Wakes, Enter, Exit, Unseen
  <1>8. ASSUME NEW t \in Thread, HandlerEnds(t) PROVE Ended(t)
    BY <1>8, RestFacts DEF HandlerEnds, Exit, Ended
  <1>9. ASSUME UNCHANGED vars PROVE Unseen
    BY <1>9, IssuedStays DEF vars, Unseen
  <1> QED BY NextCases, <1>1, <1>2, <1>3, <1>4, <1>5, <1>6, <1>7, <1>8, <1>9 DEF Cases, Kinds
-----------------------------------------------------------------------------
(* The queue of the events that wait.                                      *)

LEMMA PendingIs ==
    ASSUME IInv
    PROVE  /\ Pending \in Seq(Event) /\ Len(Pending) = Waiting /\ DOMAIN Pending = 1 .. Waiting
           /\ Waiting \in 0 .. ListSize - 1
           /\ \A k \in 1 .. Waiting : Pending[k] = id[Cell(head, k)] /\ Pending[k] \in Event
  <1> USE ConstantFacts DEF IInv, TypeOK
  <1>1. Waiting \in Nat /\ Waiting \in 0 .. ListSize - 1
    BY WaitingIs
  <1>2. ASSUME NEW k \in 1 .. Waiting PROVE id[Cell(head, k)] \in Event
    <2>1. Cell(head, k) \in Place /\ Cell(head, k) # tail
      BY CellsApart
    <2>2. Cell(head, k) \in Int /\ head \in Int /\ tail \in Int
      BY <2>1 DEF Place
    <2>3. ~(tail <= Cell(head, k) /\ head <= tail)
      <3>1. k \in 1 .. ListSize
        BY <1>1
      <3>2. head <= tail => head + k <= ListSize /\ Cell(head, k) < tail
        <4>1. PICK c \in Int, w \in Int :
                 /\ c = Cell(head, k) /\ w = Waiting /\ k <= w
                 /\ head + k <= ListSize => c = head + k - 1
                 /\ tail >= head => w = tail - head
          BY <1>1, <2>2, <3>1, WaitingIs, CellIs
        <4>2. head <= tail => head + k <= ListSize /\ c < tail
          BY <2>2, <3>1, <4>1 DEF Place
        <4> QED BY <4>1, <4>2
      <3> QED BY <2>2, <3>2
    <2> QED BY <2>1, <2>3 DEF RingOK
  <1>3. \A k \in 1 .. Waiting : Pending[k] = id[Cell(head, k)] /\ Pending[k] \in Event
    BY <1>2 DEF Pending
  <1>4. Pending \in [1 .. Waiting -> Event]
    BY <1>2 DEF Pending
  <1>5. Pending \in Seq(Event) /\ Len(Pending) = Waiting
    BY <1>1, <1>4
  <1> QED BY <1>1, <1>3, <1>4, <1>5

LEMMA PendingStays ==
    ASSUME UNCHANGED <<head, tail, id>>
    PROVE  Waiting' = Waiting /\ Pending' = Pending
  BY DEF Waiting, Pending, Cell

LEMMA PendingGrows ==
    ASSUME IInv, NEW t \in Sender, Pushed(t)
    PROVE  Waiting + 1 < ListSize /\ Waiting' = Waiting + 1 /\ Pending' = Append(Pending, Mine(t))
  <1> USE ConstantFacts DEF IInv, TypeOK
  <1>1. /\ head' = head /\ tail' = After(tail) /\ id' = [id EXCEPT ![tail] = Mine(t)]
        /\ After(tail) # head
    BY DEF Pushed, IsFull
  <1>2. /\ Waiting = Span(head, tail) /\ Waiting' = Span(head', tail')
    BY DEF Waiting, Span
  <1>3. Waiting + 1 < ListSize /\ Waiting' = Waiting + 1 /\ Cell(head, Waiting + 1) = tail
    BY <1>1, <1>2, SpanGrows
  <1>4. Waiting \in Nat /\ Len(Pending) = Waiting /\ Pending \in Seq(Event) /\ Mine(t) \in Event
    BY PendingIs, SentEvent DEF Pushed
  <1>5. Pending' = [k \in 1 .. Waiting + 1 |-> id'[Cell(head, k)]]
    BY <1>1, <1>3 DEF Pending
  <1>6. /\ \A k \in 1 .. Waiting : id'[Cell(head, k)] = Pending[k]
        /\ id'[Cell(head, Waiting + 1)] = Mine(t)
    BY <1>1, <1>3, CellsApart, PendingIs
  <1>7. \A k \in 1 .. Waiting + 1 : id'[Cell(head, k)] = Append(Pending, Mine(t))[k]
    <2>1. \A k \in 1 .. Waiting + 1 : k \in 1 .. Waiting \/ k = Waiting + 1
      BY <1>4
    <2> QED BY <1>4, <1>6, <2>1, AppendProperties
  <1>8. Append(Pending, Mine(t)) \in Seq(Event) /\ Len(Append(Pending, Mine(t))) = Waiting + 1
    BY <1>4, AppendProperties
  <1>9. \A k \in 1 .. Waiting + 1 : Append(Pending, Mine(t))[k] \in Event
    BY <1>8, ElementOfSeq
  <1>10. Pending' \in [1 .. Waiting + 1 -> Event]
    BY <1>5, <1>7, <1>9
  <1>11. Pending' \in Seq(Event) /\ Len(Pending') = Waiting + 1
    BY <1>4, <1>10
  <1>12. Pending' = Append(Pending, Mine(t))
    BY <1>5, <1>7, <1>8, <1>11, SeqEqual
  <1> QED BY <1>3, <1>12

LEMMA PendingShrinks ==
    ASSUME IInv, NEW t \in Thread, Picked(t)
    PROVE  /\ Waiting \in Nat \ {0} /\ Waiting' = Waiting - 1
           /\ Pending[1] = id[head] /\ Pending # << >> /\ Head(Pending) = id[head]
           /\ Pending' = Tail(Pending)
           /\ \A k \in 1 .. Waiting' : k + 1 \in 1 .. Waiting /\ Pending'[k] = Pending[k + 1]
  <1> USE ConstantFacts DEF IInv, TypeOK
  <1>1. head' = After(head) /\ head # tail /\ UNCHANGED <<tail, id>>
    BY DEF Picked, MayPickUp, IsEmpty
  <1>2. /\ Waiting = Span(head, tail) /\ Waiting' = Span(head', tail')
    BY DEF Waiting, Span
  <1>3. /\ Waiting \in Nat \ {0} /\ Waiting' = Waiting - 1 /\ Cell(head, 1) = head
        /\ \A k \in 1 .. ListSize - 1 : Cell(head', k) = Cell(head, k + 1)
    BY <1>1, <1>2, SpanShrinks
  <1>4. /\ Len(Pending) = Waiting /\ Pending \in Seq(Event) /\ Pending[1] = id[head]
        /\ Waiting <= ListSize - 1 /\ \A k \in 1 .. Waiting : Pending[k] = id[Cell(head, k)]
    <2>1. /\ Len(Pending) = Waiting /\ Pending \in Seq(Event) /\ Waiting \in 0 .. ListSize - 1
          /\ \A k \in 1 .. Waiting : Pending[k] = id[Cell(head, k)]
      BY PendingIs
    <2>2. 1 \in 1 .. Waiting /\ Waiting <= ListSize - 1
      BY <1>3, <2>1
    <2> QED BY <1>3, <2>1, <2>2
  <1>5. Pending' = [k \in 1 .. Waiting - 1 |-> id[Cell(head', k)]]
    BY <1>1, <1>3 DEF Pending
  <1>6. \A k \in 1 .. Waiting - 1 : k + 1 \in 1 .. Waiting /\ id[Cell(head', k)] = Pending[k + 1]
    <2>1. \A k \in 1 .. Waiting - 1 : k \in 1 .. ListSize - 1 /\ k + 1 \in 1 .. Waiting
      BY <1>3, <1>4
    <2> QED BY <1>3, <1>4, <2>1
  <1>7. Pending # << >> /\ Head(Pending) = id[head]
    BY <1>3, <1>4
  <1>8. /\ Tail(Pending) \in Seq(Event) /\ Len(Tail(Pending)) = Waiting - 1
        /\ \A k \in 1 .. Waiting - 1 : Tail(Pending)[k] = Pending[k + 1]
    BY <1>4, <1>7, HeadTailProperties
  <1>9. \A k \in 1 .. Waiting - 1 : Pending[k + 1] \in Event
    BY <1>4, <1>6, ElementOfSeq
  <1>10. Pending' \in [1 .. Waiting - 1 -> Event]
    BY <1>5, <1>6, <1>9
  <1>11. Pending' \in Seq(Event) /\ Len(Pending') = Waiting - 1
    BY <1>3, <1>10
  <1>12. Pending' = Tail(Pending)
    BY <1>5, <1>6, <1>8, <1>11, SeqEqual
  <1> QED BY <1>3, <1>4, <1>5, <1>6, <1>7, <1>12
-----------------------------------------------------------------------------
LEMMA InitOnce == Init => Once
  <1> SUFFICES ASSUME Init PROVE Once
    OBVIOUS
  <1> USE ConstantFacts
  <1>1. head \in Place /\ tail \in Place /\ head = tail
    BY DEF Init, Place
  <1>2. Waiting = 0
    BY <1>1, WaitingIs DEF Place
  <1>3. Running = {} /\ handled = {}
    BY DEF Init, Running
  <1>4. \A t \in Thread : job[t] = Null
    BY DEF Init
  <1> QED BY <1>2, <1>3, <1>4 DEF Once

LEMMA RunningIs ==
    \A e : e \in Running <=> \E t \in Thread : job[t] # Null /\ e = job[t]
  BY DEF Running

\* What is known of the events after a step, from what was known before it.
LEMMA OnceStep ==
    ASSUME IInv, Once, [Next]_vars
    PROVE  Once'
  <1> USE ConstantFacts DEF IInv, TypeOK
  <1>1. CASE Unseen
    <2>1. Waiting' = Waiting /\ Pending' = Pending /\ job' = job /\ handled' = handled
      BY <1>1, PendingStays DEF Unseen
    <2>2. Running' = Running
      BY <2>1 DEF Running
    <2>3. \A e \in Running \cup handled : e \in Event
      BY RunningIs
    <2>4. \A k \in 1 .. Waiting : Issued(Pending[k])'
      BY <1>1, <2>1, PendingIs DEF Once, Unseen
    <2>5. \A e \in Running \cup handled : Issued(e)'
      BY <1>1, <2>3 DEF Once, Unseen
    <2> QED BY <2>1, <2>2, <2>4, <2>5 DEF Once
  <1>2. ASSUME NEW t \in Sender, Pushed(t) PROVE Once'
    <2>1. /\ Waiting' = Waiting + 1 /\ Pending' = Append(Pending, Mine(t))
          /\ Waiting \in Nat /\ Len(Pending) = Waiting /\ Pending \in Seq(Event)
      BY <1>2, PendingGrows, PendingIs
    <2>2. Mine(t) \in Event /\ Mine(t) # Null
      BY <1>2, SentEvent DEF Pushed
    <2>3. /\ \A k \in 1 .. Waiting : Pending'[k] = Pending[k]
          /\ Pending'[Waiting + 1] = Mine(t)
      BY <2>1, <2>2, AppendProperties
    <2>4. /\ \A e : Issued(e) => e # Mine(t)
          /\ \A e \in Event : Issued(e) => Issued(e)'
          /\ Issued(Mine(t))'
      <3>1. \A e : Issued(e) => e # Mine(t)
        BY <1>2 DEF Issued, Mine, Pushed
      <3>2. \A e \in Event : Issued(e) => Issued(e)'
        BY <1>2, IssuedStays DEF Pushed
      <3>3. sent[t] \in Nat /\ sent' = sent /\ pc'[t] # "send"
        BY <1>2 DEF Pushed
      <3>4. Issued(Mine(t))'
        BY <3>3 DEF Issued, Mine
      <3> QED BY <3>1, <3>2, <3>4
    <2>5. job' = job /\ handled' = handled /\ Running' = Running
      BY <1>2 DEF Pushed, Running
    <2>6. \A u \in Thread : job[u] # Mine(t)
      BY <2>2, <2>4, RunningIs DEF Once
    <2>7. \A k \in 1 .. Waiting : Pending[k] # Mine(t)
      BY <2>4, PendingIs DEF Once
    <2>8. \A k \in 1 .. Waiting' : k \in 1 .. Waiting \/ k = Waiting + 1
      BY <2>1
    <2>9. \A e \in Running \cup handled : Issued(e)'
      BY <2>4, RunningIs DEF Once
    <2>10. \A k, l \in 1 .. Waiting' : k # l => Pending'[k] # Pending'[l]
      BY <2>3, <2>7, <2>8 DEF Once
    <2>11. \A k \in 1 .. Waiting', u \in Thread : Pending'[k] # job'[u]
      BY <2>3, <2>5, <2>6, <2>8 DEF Once
    <2>12. \A k \in 1 .. Waiting' : Issued(Pending[k])'
      <3>1. ASSUME NEW k \in 1 .. Waiting', NEW e, e = Pending'[k] PROVE Issued(e)'
        <4>1. CASE k \in 1 .. Waiting
          BY <2>3, <2>4, <3>1, <4>1, PendingIs DEF Once
        <4>2. CASE k = Waiting + 1
          <5>1. e = Mine(t)
            BY <2>3, <3>1, <4>2
          <5> QED BY <1>2, <2>2, <5>1 DEF Issued, Mine, Pushed
        <4> QED BY <2>8, <4>1, <4>2
      <3> QED BY <3>1
    <2>13. \A u, v \in Thread : job'[u] # Null /\ u # v => job'[u] # job'[v]
      BY <2>5 DEF Once
    <2> QED BY <2>5, <2>9, <2>10, <2>11, <2>12, <2>13 DEF Once
  <1>3. ASSUME NEW t \in Thread, Picked(t) PROVE Once'
    <2>1. /\ Waiting \in Nat \ {0} /\ Waiting' = Waiting - 1 /\ Pending[1] = id[head]
          /\ \A k \in 1 .. Waiting' : k + 1 \in 1 .. Waiting /\ Pending'[k] = Pending[k + 1]
      BY <1>3, PendingShrinks
    <2>2. 1 \in 1 .. Waiting /\ id[head] \in Event
      BY <2>1, PendingIs
    <2>3. /\ job' = [job EXCEPT ![t] = Pending[1]] /\ handled' = handled /\ job[t] = Null
          /\ \A e \in Event : Issued(e) => Issued(e)'
      BY <1>3, <2>1, IssuedStays DEF Picked
    <2>4. \A k, l \in 1 .. Waiting' : k # l => Pending'[k] # Pending'[l]
      <3>1. \A k, l \in 1 .. Waiting' : k # l => k + 1 # l + 1
        OBVIOUS
      <3> QED BY <2>1, <3>1 DEF Once
    <2>5. \A k \in 1 .. Waiting' : k + 1 # 1
      BY <2>1
    <2>6. \A k \in 1 .. Waiting', u \in Thread : Pending'[k] # job'[u]
      BY <2>1, <2>2, <2>3, <2>5 DEF Once
    <2>7. \A u, v \in Thread : job'[u] # Null /\ u # v => job'[u] # job'[v]
      BY <2>2, <2>3 DEF Once
    <2>8. \A k \in 1 .. Waiting' : Issued(Pending[k])'
      BY <2>1, <2>3, PendingIs DEF Once
    <2>9. \A e \in Running' : e \in Running \/ e = Pending[1]
      BY <2>3 DEF Running
    <2>10. \A e \in Running \cup handled \cup {Pending[1]} : e \in Event /\ Issued(e)
      BY <2>1, <2>2, RunningIs DEF Once
    <2>11. \A e \in Running' \cup handled' : Issued(e)'
      BY <2>3, <2>9, <2>10
    <2> QED BY <2>4, <2>6, <2>7, <2>8, <2>11 DEF Once
  <1>4. ASSUME NEW t \in Thread, Ended(t) PROVE Once'
    <2>1. /\ Waiting' = Waiting /\ Pending' = Pending
          /\ job' = [job EXCEPT ![t] = Null] /\ handled' = handled \cup {job[t]}
          /\ job[t] \in Event /\ job[t] # Null
          /\ \A e \in Event : Issued(e) => Issued(e)'
      BY <1>4, PendingStays, IssuedStays DEF Ended
    <2>2. \A k \in 1 .. Waiting : Pending[k] \in Event /\ Pending[k] # Null
      BY PendingIs
    <2>3. \A u \in Thread : job'[u] \in {job[u], Null}
      BY <2>1
    <2>4. \A e \in Running' \cup handled' : e \in Running \cup handled
      BY <2>1 DEF Running
    <2>5. \A e \in Running \cup handled : e \in Event /\ Issued(e)
      BY RunningIs DEF Once
    <2>6. \A e \in Running' \cup handled' : Issued(e)'
      BY <2>1, <2>4, <2>5
    <2>7. \A k \in 1 .. Waiting' : Issued(Pending[k])'
      BY <2>1, <2>2 DEF Once
    <2>8. \A k \in 1 .. Waiting', u \in Thread : Pending'[k] # job'[u]
      BY <2>1, <2>2, <2>3 DEF Once
    <2>9. \A u, v \in Thread : job'[u] # Null /\ u # v => job'[u] # job'[v]
      BY <2>1 DEF Once
    <2>10. \A k, l \in 1 .. Waiting' : k # l => Pending'[k] # Pending'[l]
      BY <2>1 DEF Once
    <2> QED BY <2>6, <2>7, <2>8, <2>9, <2>10 DEF Once
  <1> QED BY StepKinds, <1>1, <1>2, <1>3, <1>4 DEF Kinds
-----------------------------------------------------------------------------
(* The bus.                                                                *)

\* No more callbacks are under way than the bus lets run.
LEMMA RunningFew ==
    ASSUME IInv
    PROVE  Cardinality(Running) \in Nat /\ Cardinality(Running) <= event_pickup_cnt
  <1>1. Running = {job[t] : t \in Jobs}
    BY DEF Running, Jobs
  <1>2. IsFiniteSet(Jobs) /\ event_pickup_cnt = Cardinality(Jobs)
    BY VMFinite DEF IInv, CountsExact, Jobs
  <1>3. IsFiniteSet(Running) /\ Cardinality(Running) <= Cardinality(Jobs)
    <2>1. [t \in Jobs |-> job[t]] \in Surjection(Jobs, Running)
      BY <1>1 DEF Surjection
    <2> QED BY <1>2, <2>1, FS_Surjection
  <1> QED BY <1>2, <1>3, FS_CardinalityType

LEMMA BusCounts == ASSUME NEW S PROVE Bus!Cardinality(S) = Cardinality(S)
  BY DEF Bus!Cardinality, Cardinality

LEMMA BusInit == Init => Bus!Init
  <1> SUFFICES ASSUME Init PROVE Bus!Init
    OBVIOUS
  <1>1. head \in Place /\ tail \in Place /\ head = tail
    BY ConstantFacts DEF Init, Place
  <1>2. Waiting = 0
    BY <1>1, WaitingIs, ConstantFacts DEF Place
  <1>3. Pending = << >>
    BY <1>2 DEF Pending
  <1>4. Running = {} /\ handled = {}
    BY DEF Init, Running
  <1> QED BY <1>3, <1>4 DEF Bus!Init, Pending, Running, Cell

LEMMA BusStep ==
    ASSUME IInv, Once, [Next]_vars
    PROVE  [Bus!Next]_(Bus!vars)
  <1> USE ConstantFacts DEF IInv, TypeOK
  <1>1. CASE Unseen
    <2>1. Pending' = Pending /\ Running' = Running /\ handled' = handled
      BY <1>1, PendingStays DEF Unseen, Running
    <2> QED BY <2>1 DEF Bus!vars, Pending, Running, Cell
  <1>2. ASSUME NEW t \in Sender, Pushed(t) PROVE Bus!Next
    <2>1. /\ Pending' = Append(Pending, Mine(t)) /\ Waiting + 1 < ListSize
          /\ Waiting \in Nat /\ Len(Pending) = Waiting /\ DOMAIN Pending = 1 .. Waiting
      BY <1>2, PendingGrows, PendingIs
    <2>2. Mine(t) \in Event
      BY <1>2, SentEvent DEF Pushed
    <2>3. Running' = Running /\ handled' = handled
      BY <1>2 DEF Pushed, Running
    <2>4. \A e : Issued(e) => e # Mine(t)
      BY <1>2 DEF Issued, Mine, Pushed
    <2>5. Mine(t) \notin Running \cup handled \cup {Pending[k] : k \in DOMAIN Pending}
      BY <2>1, <2>4 DEF Once
    <2>6. Len(Pending) < ListSize - 1
      BY <2>1
    <2>7. PICK e \in Event : e = Mine(t)
      BY <2>2
    <2>8. Bus!Accept(e)
      BY <2>1, <2>3, <2>5, <2>6, <2>7 DEF Bus!Accept, Bus!Known, Pending, Running, Cell
    <2> QED BY <2>8 DEF Bus!Next
  <1>3. ASSUME NEW t \in Thread, Picked(t) PROVE Bus!Next
    <2>1. /\ Pending # << >> /\ Head(Pending) = id[head] /\ Pending' = Tail(Pending)
      BY <1>3, PendingShrinks
    <2>2. id[head] \in Event /\ id[head] # Null
      BY <1>3, PickedEvent DEF Picked
    <2>3. Running' = Running \cup {Head(Pending)} /\ handled' = handled
      <3>1. /\ job' = [job EXCEPT ![t] = id[head]] /\ job[t] = Null /\ handled' = handled
        BY <1>3 DEF Picked
      <3>2. \A e : e \in Running' <=> e \in Running \/ e = id[head]
        BY <2>2, <3>1 DEF Running
      <3> QED BY <2>1, <3>1, <3>2
    <2>4. Cardinality(Running) < PickupMax
      BY <1>3, RunningFew DEF Picked, MayPickUp
    <2>5. Bus!Start
      BY <2>1, <2>3, <2>4, BusCounts DEF Bus!Start, Pending, Running, Cell
    <2> QED BY <2>5 DEF Bus!Next
  <1>4. ASSUME NEW t \in Thread, Ended(t) PROVE Bus!Next
    <2>1. /\ job' = [job EXCEPT ![t] = Null] /\ handled' = handled \cup {job[t]}
          /\ job[t] \in Event /\ job[t] # Null /\ job[t] \in Running /\ Pending' = Pending
      BY <1>4, PendingStays DEF Ended, Running
    <2>2. Running' = Running \ {job[t]}
      <3>1. \A e : e \in Running' <=> \E u \in Thread : u # t /\ job[u] # Null /\ e = job[u]
        BY <2>1 DEF Running
      <3>2. \A u \in Thread : u # t /\ job[u] # Null => job[u] # job[t]
        BY DEF Once
      <3> QED BY <3>1, <3>2, RunningIs
    <2>3. PICK e \in Event : e = job[t]
      BY <2>1
    <2>4. Bus!Finish(e)
      BY <2>1, <2>2, <2>3 DEF Bus!Finish, Pending, Running, Cell
    <2> QED BY <2>4 DEF Bus!Next
  <1> QED BY StepKinds, <1>1, <1>2, <1>3, <1>4 DEF Kinds

\* The ring, the counters and the lock implement the bus, for any number of
\* senders and threads, any size of the ring and any limit of callbacks: an
\* event that was accepted is neither dropped nor overtaken nor handled
\* twice, whoever sleeps in the middle of what (PikaVM.c l.234-315).
THEOREM BusImplemented == Spec => RefinesBus
  <1>1. IInv /\ Once /\ [Next]_vars => Once'
    BY OnceStep
  <1>2. IInv /\ Once /\ [Next]_vars => [Bus!Next]_(Bus!vars)
    BY BusStep
  <1> QED BY InitInv, StepInv, InitOnce, BusInit, <1>1, <1>2, PTL DEF Spec, RefinesBus, Bus!Spec
=============================================================================
