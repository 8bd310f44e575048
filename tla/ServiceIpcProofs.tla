------------------------- MODULE ServiceIpcProofs -------------------------
(***************************************************************************)
(* Proofs about ServiceIpc for every number of events and every load of    *)
(* the TCP send queues.                                                    *)
(***************************************************************************)
EXTENDS ServiceIpc, SequenceTheorems, TLAPS

(* While a handler runs, a post waits only if a further event does: that   *)
(* is why the turn that removes the last event leaves no post behind.      *)
PostInHandler == event # NoEvent => (posted = 1 => Len(queue) > 1)

IInv ==
    /\ TypeOK
    /\ NoLostWakeup
    /\ EventIsHead
    /\ NothingLost
    /\ PostInHandler

-----------------------------------------------------------------------------
(* Removing the first occurrence of the head of a sequence leaves its      *)
(* tail: what LL_DELETE does to the list at the end of a turn.             *)
LEMMA UnlinkHead ==
    ASSUME NEW S, NEW q \in Seq(S), q # <<>>
    PROVE  Unlink(q, Head(q)) = Tail(q)
PROOF
<1> DEFINE I == {i \in 1..Len(q) : q[i] = Head(q)}
<1>1. Len(q) \in Nat /\ Len(q) >= 1 /\ Head(q) = q[1]
  OBVIOUS
<1>2. 1 \in I /\ \A i \in I : i \in Nat /\ 1 <= i
  BY <1>1
<1> DEFINE k == Min(I)
<1>3. k = 1
  <2>1. \A x \in I : (x \in I /\ \A y \in I : x <= y) => x = 1
    BY <1>2
  <2> QED  BY <1>2, <2>1 DEF Min
<1>4. Unlink(q, Head(q)) = SubSeq(q, 1, k - 1) \o SubSeq(q, k + 1, Len(q))
  BY <1>1, <1>2 DEF Unlink, RemoveFirst, RemoveAt, SelectInSeq
<1> HIDE DEF k, I
<1>5. Unlink(q, Head(q)) = SubSeq(q, 1, 0) \o SubSeq(q, 2, Len(q))
  BY <1>3, <1>4
<1>6. /\ SubSeq(q, 1, 0) = <<>>
      /\ SubSeq(q, 2, Len(q)) = Tail(q)
      /\ Tail(q) \in Seq(S)
  BY <1>1, TailIsSubSeq
<1> QED  BY <1>5, <1>6, ConcatEmptySeq

-----------------------------------------------------------------------------
LEMMA InitIInv == Init => IInv
PROOF
  BY MaxSendLenAssumption
  DEF Init, IInv, TypeOK, NoLostWakeup, EventIsHead, NothingLost, Handled,
      PostInHandler, ETS_QUEUE_LEN

(* A new event goes to the end of the list, whether a handler runs or not. *)
LEMMA SendKeepsIInv ==
    ASSUME IInv, NEW t \in EventType, Send(t)
    PROVE  IInv'
PROOF
<1> DEFINE e == [type |-> t, id |-> Len(accepted) + 1]
<1> USE DEF IInv
<1>1. e \in Event /\ Len(accepted) \in Nat /\ Len(queue) \in Nat
  BY MaxAcceptedAssumption DEF Send, Event, TypeOK
<1>2. /\ queue' = Append(queue, e) /\ accepted' = Append(accepted, e)
      /\ posted' = Post(posted)
      /\ UNCHANGED <<event, sendLen, delivered>>
  BY DEF Send, Enqueue
<1> HIDE DEF e
<1>3. /\ queue' \in Seq(Event) /\ queue' # <<>> /\ Len(queue') = Len(queue) + 1
      /\ \A i \in 1..Len(queue) : queue'[i] = queue[i]
      /\ queue'[Len(queue) + 1] = e
  BY <1>1, <1>2, AppendProperties DEF TypeOK
<1>4. /\ accepted' \in Seq(Event) /\ Len(accepted') = Len(accepted) + 1
      /\ \A i \in 1..Len(accepted) : accepted'[i] = accepted[i]
      /\ accepted'[Len(accepted) + 1] = e
  BY <1>1, <1>2, AppendProperties DEF TypeOK
<1>5. posted' = 1 /\ (event = NoEvent => posted' = 1)
  BY <1>2 DEF Post, TypeOK, ETS_QUEUE_LEN
<1>6. TypeOK'
  BY <1>2, <1>3, <1>4, <1>5 DEF TypeOK, ETS_QUEUE_LEN
<1>7. NoLostWakeup'
  BY <1>3, <1>5 DEF NoLostWakeup
<1>8. EventIsHead'
  BY <1>1, <1>2, <1>3 DEF EventIsHead, TypeOK
<1>9. PostInHandler'
  BY <1>1, <1>2, <1>3 DEF PostInHandler, EventIsHead, TypeOK
<1>10. NothingLost'
  <2>1. \A i \in 1..Len(queue') :
          queue'[i] = accepted'[Len(accepted') - Len(queue') + i]
    <3>1. TAKE i \in 1..Len(queue')
    <3>2. CASE i \in 1..Len(queue)
      <4>1. queue[i] = accepted[Len(accepted) - Len(queue) + i]
        BY <3>2 DEF NothingLost
      <4>2. Len(accepted) - Len(queue) + i \in 1..Len(accepted)
        BY <1>1, <3>2 DEF NothingLost
      <4>3. Len(accepted') - Len(queue') + i = Len(accepted) - Len(queue) + i
        BY <1>1, <1>3, <1>4, <3>2
      <4> QED  BY <1>3, <1>4, <3>2, <4>1, <4>2, <4>3
    <3>3. CASE i = Len(queue) + 1
      <4>1. Len(accepted') - Len(queue') + i = Len(accepted) + 1
        BY <1>1, <1>3, <1>4, <3>3
      <4> QED  BY <1>3, <1>4, <3>3, <4>1
    <3> QED  BY <1>1, <1>3, <3>1, <3>2, <3>3
  <2>2. Len(delivered') + Len(queue') = Len(accepted') + Handled'
    <3>1. Len(delivered) + Len(queue) = Len(accepted) + Handled
      BY DEF NothingLost
    <3>2. Handled' = Handled /\ Handled \in Nat /\ Len(delivered) \in Nat
      BY <1>2 DEF Handled, TypeOK
    <3> QED  BY <1>1, <1>2, <1>3, <1>4, <3>1, <3>2
  <2>3. Len(queue') <= Len(accepted')
    BY <1>1, <1>3, <1>4 DEF NothingLost
  <2> QED  BY <2>1, <2>2, <2>3 DEF NothingLost
<1> QED  BY <1>6, <1>7, <1>8, <1>9, <1>10

(* Taking the head for handling leaves it in the list and consumes the     *)
(* post that woke the task.                                                *)
LEMMA TaskBeginKeepsIInv ==
    ASSUME IInv, TaskBegin
    PROVE  IInv'
PROOF
<1> USE DEF IInv
<1>1. /\ queue # <<>> /\ Head(queue) \in Event /\ Head(queue) = queue[1]
      /\ Len(queue) \in Nat /\ Len(queue) >= 1 /\ Len(accepted) \in Nat
      /\ Len(delivered) \in Nat /\ posted' = 0
  BY DEF TaskBegin, TaskTurn, TypeOK, ETS_QUEUE_LEN
<1>2. Head(queue) # NoEvent
  BY <1>1 DEF Event, EventType, NoEvent
<1>3. /\ delivered' \in Seq(Event)
      /\ Len(delivered') = Len(delivered) + 1
  BY <1>1, AppendProperties DEF TaskBegin, TypeOK
<1>4. TypeOK'
  BY <1>1, <1>3 DEF TypeOK, TaskBegin, ETS_QUEUE_LEN
<1>5. NoLostWakeup' /\ EventIsHead' /\ PostInHandler'
  BY <1>1, <1>2 DEF NoLostWakeup, EventIsHead, PostInHandler, TaskBegin
<1>6. NothingLost'
  <2>1. UNCHANGED <<queue, accepted>> /\ event = NoEvent /\ event' # NoEvent
    BY <1>2 DEF TaskBegin, TaskTurn
  <2>2. Len(delivered') + Len(queue') = Len(accepted') + 1
    <3>1. Len(delivered) + Len(queue) = Len(accepted)
      BY <1>1, <2>1 DEF NothingLost, Handled
    <3> QED  BY <1>1, <1>3, <2>1, <3>1
  <2> QED  BY <2>1, <2>2 DEF NothingLost, Handled
<1> QED  BY <1>4, <1>5, <1>6

(* The turn ends: the list loses its head, and a post is left exactly when *)
(* the list is not empty.                                                  *)
LEMMA TaskEndKeepsIInv ==
    ASSUME IInv, TaskEnd
    PROVE  IInv'
PROOF
<1> USE DEF IInv
<1>1. /\ queue \in Seq(Event) /\ queue # <<>> /\ Head(queue) = event
      /\ Len(queue) \in Nat /\ Len(queue) >= 1 /\ Len(accepted) \in Nat
  BY DEF TaskEnd, EventIsHead, TypeOK
<1>2. queue' = Tail(queue)
  BY <1>1, UnlinkHead DEF TaskEnd
<1>3. /\ queue' \in Seq(Event)
      /\ Len(queue') = Len(queue) - 1
      /\ \A i \in 1..Len(queue') : queue'[i] = queue[i + 1]
      /\ queue' = <<>> <=> Len(queue) = 1
  <2>1. queue' \in Seq(Event) /\ Len(queue') = Len(queue) - 1
    BY <1>1, <1>2, HeadTailProperties
  <2>2. \A i \in 1..Len(queue') : queue'[i] = queue[i + 1]
    BY <1>1, <1>2, <2>1
  <2> QED  BY <1>1, <2>1, <2>2, EmptySeq
<1>4. posted' = IF queue' # <<>> THEN 1 ELSE 0
  BY <1>3 DEF TaskEnd, Repost, Post, PostInHandler, TypeOK, ETS_QUEUE_LEN
<1>5. TypeOK'
  BY <1>3, <1>4 DEF TypeOK, TaskEnd, ETS_QUEUE_LEN
<1>6. NoLostWakeup' /\ EventIsHead' /\ PostInHandler'
  BY <1>4 DEF NoLostWakeup, EventIsHead, PostInHandler, TaskEnd
<1>7. NothingLost'
  BY <1>1, <1>3 DEF NothingLost, Handled, TaskEnd, TypeOK
<1> QED  BY <1>5, <1>6, <1>7

(* A turn that returns early gives its post back if an event is waiting.   *)
LEMMA EarlyReturnKeepsIInv ==
    ASSUME IInv, TaskReturnsEarly
    PROVE  IInv'
PROOF
<1> USE DEF IInv
<1>1. UNCHANGED <<queue, event, sendLen, accepted, delivered, posted>>
  BY DEF TaskReturnsEarly, TaskTurn, Post, NoLostWakeup, TypeOK, ETS_QUEUE_LEN
<1> QED  BY <1>1 DEF TypeOK, NoLostWakeup, EventIsHead, NothingLost, Handled,
                     PostInHandler

LEMMA NextKeepsIInv == IInv /\ [Next]_vars => IInv'
PROOF
<1> SUFFICES ASSUME IInv, [Next]_vars
             PROVE  IInv'
  OBVIOUS
<1>1. CASE send_app_to_core
  BY <1>1, SendKeepsIInv DEF send_app_to_core, EventType
<1>2. CASE send_core_to_app
  BY <1>2, SendKeepsIInv DEF send_core_to_app, EventType
<1>3. CASE Task
  BY <1>3, EarlyReturnKeepsIInv, TaskBeginKeepsIInv, TaskEndKeepsIInv DEF Task
<1>4. CASE SendQueueChanges
  BY <1>4 DEF SendQueueChanges, ipcVars, IInv, TypeOK, NoLostWakeup,
              EventIsHead, NothingLost, Handled, PostInHandler
<1>5. CASE UNCHANGED vars
  BY <1>5 DEF vars, IInv, TypeOK, NoLostWakeup, EventIsHead, NothingLost,
              Handled, PostInHandler
<1> QED  BY <1>1, <1>2, <1>3, <1>4, <1>5 DEF Next

-----------------------------------------------------------------------------
(* The inductive invariant holds in every behaviour of service_icp.c.      *)
THEOREM Invariant == Spec => []IInv
PROOF
  BY InitIInv, NextKeepsIInv, PTL DEF Spec

(* Type correctness, in particular: the single ETS slot never overflows.   *)
THEOREM TypeCorrect == Spec => []TypeOK
PROOF
<1>1. IInv => TypeOK  BY DEF IInv
<1> QED  BY <1>1, Invariant, PTL

(* No wake-up is lost, whatever the number of events and refused posts.    *)
THEOREM WakeupNeverLost == Spec => []NoLostWakeup
PROOF
<1>1. IInv => NoLostWakeup  BY DEF IInv
<1> QED  BY <1>1, Invariant, PTL

(* The event the task will unlink and free is the head of the list.        *)
THEOREM EventStaysHead == Spec => []EventIsHead
PROOF
<1>1. IInv => EventIsHead  BY DEF IInv
<1> QED  BY <1>1, Invariant, PTL

(* Every accepted event is either handled or still in the list, in order.  *)
THEOREM NeverLosesEvent == Spec => []NothingLost
PROOF
<1>1. IInv => NothingLost  BY DEF IInv
<1> QED  BY <1>1, Invariant, PTL

-----------------------------------------------------------------------------
(* The IPC layer implements the ordered channel: a send is an Accept, the  *)
(* beginning of a handler is a Deliver, every other step is invisible.     *)
THEOREM Refinement == Spec => ImplementsChannel
PROOF
<1>1. Init => Channel!Init
  BY DEF Init, Channel!Init
<1>2. IInv /\ [Next]_vars => [Channel!Next]_(Channel!vars)
  <2> SUFFICES ASSUME IInv, [Next]_vars
               PROVE  [Channel!Next]_(Channel!vars)
    OBVIOUS
  <2> USE DEF Channel!vars
  <2>1. ASSUME NEW t \in EventType, Send(t)
        PROVE  Channel!Next
    <3>1. [type |-> t, id |-> Len(accepted) + 1] \in Event
      BY <2>1, MaxAcceptedAssumption DEF Send, Event, IInv, TypeOK
    <3> QED  BY <2>1, <3>1 DEF Send, Channel!Next, Channel!Accept
  <2>2. CASE TaskBegin
    <3>1. /\ Head(queue) = queue[1] /\ Len(queue) \in Nat /\ Len(queue) >= 1
          /\ Len(accepted) \in Nat /\ Len(delivered) \in Nat
      BY <2>2 DEF TaskBegin, IInv, TypeOK
    <3>2. /\ Len(delivered) = Len(accepted) - Len(queue)
          /\ queue[1] = accepted[Len(accepted) - Len(queue) + 1]
      BY <2>2, <3>1 DEF TaskBegin, TaskTurn, IInv, NothingLost, Handled
    <3>3. /\ Len(delivered) < Len(accepted)
          /\ Head(queue) = accepted[Len(delivered) + 1]
      BY <3>1, <3>2
    <3> QED  BY <2>2, <3>3 DEF TaskBegin, Channel!Next, Channel!Deliver
  <2>3. CASE TaskReturnsEarly \/ TaskEnd \/ SendQueueChanges \/ UNCHANGED vars
    BY <2>3 DEF TaskReturnsEarly, TaskEnd, SendQueueChanges, ipcVars, vars
  <2> QED
    BY <2>1, <2>2, <2>3
    DEF Next, Task, send_app_to_core, send_core_to_app, EventType
<1> QED
  BY <1>1, <1>2, Invariant, PTL DEF Spec, ImplementsChannel, Channel!Spec
=============================================================================
