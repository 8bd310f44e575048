---------------------------- MODULE ServiceIpc ----------------------------
(***************************************************************************)
(* port/esp8266/service_icp.c: the asynchronous calls between the Wish     *)
(* core and the app that runs on the same chip.  A call is an event in a   *)
(* linked list; one ETS task takes the events one by one.  The task is     *)
(* woken through an ETS queue with room for a single post, and it defers   *)
(* its work while a TCP connection still has data to send.                 *)
(*                                                                         *)
(* An ETS task is not preempted by another task, so what happens between   *)
(* the beginning and the end of the task is what its handler itself does:  *)
(* it sends further events.  The model cuts the task there.                *)
(***************************************************************************)
EXTENDS Naturals, SequencesExt

CONSTANTS
    MaxAccepted,   \* bound: events accepted in a behaviour
    MaxSendLen     \* bound: data items waiting in the TCP send FIFOs

ASSUME MaxAcceptedAssumption == MaxAccepted \in Nat
ASSUME MaxSendLenAssumption == MaxSendLen \in Nat

VARIABLES
    queue,         \* ipc_event_queue
    posted,        \* posts waiting in the task's ETS queue
    event,         \* the event being handled, NoEvent outside the task
    sendLen,       \* what user_get_send_queue_len() returns
    accepted,      \* history: every event appended to the queue
    delivered      \* history: every event whose handler was called

ipcVars == <<queue, posted, event, accepted, delivered>>
vars == <<queue, posted, event, sendLen, accepted, delivered>>

EventType == {"APP_TO_CORE", "CORE_TO_APP"}

(* Events are told apart by their number: the pointer of the C code. *)
Event == [type : EventType, id : 1..MaxAccepted]

NoEvent == [type |-> "UNKNOWN", id |-> 0]

(* system_os_task(..., 1): one slot.  A post to a full queue is refused. *)
ETS_QUEUE_LEN == 1
Post(n) == IF n < ETS_QUEUE_LEN THEN n + 1 ELSE n

TypeOK ==
    /\ queue \in Seq(Event)
    /\ posted \in 0..ETS_QUEUE_LEN
    /\ event \in Event \cup {NoEvent}
    /\ sendLen \in 0..MaxSendLen
    /\ accepted \in Seq(Event)
    /\ delivered \in Seq(Event)

Init ==
    /\ queue = <<>>
    /\ posted = 0
    /\ event = NoEvent
    /\ sendLen = 0
    /\ accepted = <<>>
    /\ delivered = <<>>

-----------------------------------------------------------------------------
EnqueueFirst(q, e) == Cons(e, q)      \* mutant: LL_PREPEND for LL_APPEND
Enqueue(q, e) == Append(q, e)

(* send_app_to_core, send_core_to_app: the sender may be the handler of    *)
(* the running task, or any other task or timer while the task is idle.    *)
(* When an os_malloc fails the call is lost and nothing but the heap       *)
(* changes, which is a stuttering step here.                               *)
Send(t) ==
    LET e == [type |-> t, id |-> Len(accepted) + 1]
    IN  /\ Len(accepted) < MaxAccepted
        /\ queue' = Enqueue(queue, e)
        /\ accepted' = Append(accepted, e)
        /\ posted' = Post(posted)
        /\ UNCHANGED <<event, sendLen, delivered>>

send_app_to_core == Send("APP_TO_CORE")
send_core_to_app == Send("CORE_TO_APP")

(* ETS takes the post out of the task's queue, then calls the task. *)
TaskTurn ==
    /\ event = NoEvent
    /\ posted > 0

DeferWithoutPost ==                   \* mutant: the deferred turn is not posted
    /\ TaskTurn
    /\ queue = <<>> \/ sendLen > 0
    /\ posted' = posted - 1
    /\ UNCHANGED <<queue, event, sendLen, accepted, delivered>>

(* An empty list is reported as unexpected and ends the turn.  While TCP   *)
(* data waits to be sent, the task posts itself again and does no more.    *)
TaskReturnsEarly ==
    /\ TaskTurn
    /\ queue = <<>> \/ sendLen > 0
    /\ posted' = IF queue = <<>> THEN posted - 1 ELSE Post(posted - 1)
    /\ UNCHANGED <<queue, event, sendLen, accepted, delivered>>

(* The handler of the first event is called; the event stays in the list. *)
TaskBegin ==
    /\ TaskTurn
    /\ queue # <<>>
    /\ sendLen = 0
    /\ posted' = posted - 1
    /\ event' = Head(queue)
    /\ delivered' = Append(delivered, event')
    /\ UNCHANGED <<queue, sendLen, accepted>>

UnlinkNothing(q, e) == q              \* mutant: LL_DELETE forgotten
Unlink(q, e) == RemoveFirst(q, e)

RepostNever(q, n) == n                \* mutant: no post at the end of a turn
Repost(q, n) == IF q # <<>> THEN Post(n) ELSE n

(* The handler has returned: free the event, post again for the others. *)
TaskEnd ==
    /\ event # NoEvent
    /\ queue' = Unlink(queue, event)
    /\ event' = NoEvent
    /\ posted' = Repost(queue', posted)
    /\ UNCHANGED <<sendLen, accepted, delivered>>

(* The TCP layer queues and sends data, from the handler or from its own   *)
(* callbacks.  Module Port replaces this action by the TCP layer's own.    *)
SendQueueChanges ==
    /\ sendLen' \in (0..MaxSendLen) \ {sendLen}
    /\ UNCHANGED ipcVars

Task == TaskReturnsEarly \/ TaskBegin \/ TaskEnd

Next ==
    \/ send_app_to_core
    \/ send_core_to_app
    \/ Task
    \/ SendQueueChanges

Spec == Init /\ [][Next]_vars

(* ETS runs a task that has a post, and a handler returns. *)
Fairness == WF_vars(TaskReturnsEarly \/ TaskBegin) /\ WF_vars(TaskEnd)

FairSpec == Spec /\ Fairness

-----------------------------------------------------------------------------
(* Between two turns of the task, a post is waiting exactly when an event  *)
(* is: the single ETS slot loses no wake-up although most posts are        *)
(* refused, and no turn finds the list empty (service_icp.c:56-59, 94-97). *)
NoLostWakeup == event = NoEvent => (queue # <<>> <=> posted = 1)

(* The event the task holds a pointer to stays the head of the list while  *)
(* its handler sends others, so the task frees what it handled and nothing *)
(* else (service_icp.c:54, 86-88).                                         *)
EventIsHead == event # NoEvent => queue # <<>> /\ Head(queue) = event

(* An event is in the list until it is handled, and nowhere else: none is  *)
(* lost, handled twice or overtaken (service_icp.c:86, 130, 168).          *)
Handled == IF event = NoEvent THEN 0 ELSE 1
NothingLost ==
    /\ Len(queue) <= Len(accepted)
    /\ Len(delivered) + Len(queue) = Len(accepted) + Handled
    /\ \A i \in 1..Len(queue) :
          queue[i] = accepted[Len(accepted) - Len(queue) + i]

(* The IPC layer is an ordered channel from the senders to the handlers.   *)
Channel == INSTANCE FifoChannel WITH Msg <- Event
ImplementsChannel == Channel!Spec

(* If the TCP layer drains its send queues for good, every event accepted  *)
(* is handled: deferring never strands one (service_icp.c:61-66, 94-97).   *)
EveryEventHandled ==
    <>[](sendLen = 0) =>
        \A n \in 1..MaxAccepted : Len(accepted) >= n ~> Len(delivered) >= n
=============================================================================
