-------------------------------- MODULE Port --------------------------------
(***************************************************************************)
(* The TCP layer (TcpConn) and the IPC layer (ServiceIpc) on one chip.     *)
(* They meet in three places: the IPC task waits for the TCP send FIFOs to *)
(* be empty; the core, called by an IPC handler, opens, closes and sends;  *)
(* and the IPC task, of priority 1, goes before the message processor, of  *)
(* priority 0 (user_task.h).  Callbacks of the SDK and timers run between  *)
(* two turns of the tasks.                                                 *)
(***************************************************************************)
EXTENDS TcpConn

CONSTANT MaxAccepted     \* bound: IPC events accepted in a behaviour

VARIABLES
    queue, posted, event,      \* the state of ServiceIpc, see there
    ipcAccepted, delivered

Ipc == INSTANCE ServiceIpc WITH
    MaxSendLen <- MaxData * Cardinality(Esp),
    sendLen <- user_get_send_queue_len,
    accepted <- ipcAccepted

ipcVars == <<queue, posted, event, ipcAccepted, delivered>>
portVars == <<vars, ipcVars>>

PortInit == Init /\ Ipc!Init

(* No task runs: SDK callbacks and timers have the processor. *)
NoTask == event = Ipc!NoEvent

(* The code of the core runs: in an IPC handler of an event from the app,  *)
(* or called by a timer or by the message processor.                       *)
InCore == NoTask \/ event.type = "APP_TO_CORE"

TcpCallback(e) == NoTask /\ Callback(e) /\ UNCHANGED ipcVars
TcpCall(c) == InCore /\ CoreCall(c) /\ UNCHANGED ipcVars
TimePasses(c) == CloseTimesOut(c) /\ UNCHANGED ipcVars

(* The message processor runs when no task of higher priority has a post. *)
MessageProcessorTurn ==
    /\ NoTask /\ posted = 0
    /\ MessageProcessor
    /\ UNCHANGED ipcVars

IpcSend == UNCHANGED vars /\ (Ipc!send_app_to_core \/ Ipc!send_core_to_app)
IpcTurn == UNCHANGED vars /\ (Ipc!TaskReturnsEarly \/ Ipc!TaskBegin)
IpcReturn == UNCHANGED vars /\ Ipc!TaskEnd

PortNext ==
    /\ ~crashed
    /\ \/ \E e \in Esp : TcpCallback(e)
       \/ \E c \in Ctx : TcpCall(c) \/ TimePasses(c)
       \/ MessageProcessorTurn
       \/ IpcSend \/ IpcTurn \/ IpcReturn

(* As in the two modules: ETS runs the tasks, a handler returns, the SDK   *)
(* reports what it has sent, and the systick timer makes the core retry.   *)
PortFairness ==
    /\ WF_portVars(~crashed /\ IpcTurn) /\ WF_portVars(~crashed /\ IpcReturn)
    /\ WF_portVars(~crashed /\ MessageProcessorTurn)
    /\ \A c \in Ctx :
          /\ WF_portVars(~crashed /\ NoTask /\ Retry(c) /\ UNCHANGED ipcVars)
          /\ WF_portVars(~crashed /\ TimePasses(c))
    /\ \A e \in Esp :
          WF_portVars(~crashed /\ NoTask /\ user_tcp_sent_cb(e) /\ UNCHANGED ipcVars)

PortSpec == PortInit /\ [][PortNext]_portVars /\ PortFairness

-----------------------------------------------------------------------------
(* Waiting for the TCP layer delays an IPC event and never loses it: the   *)
(* FIFOs are drained by callbacks, which wait for no task, and a dead      *)
(* connection is cleaned up by a timer.  The exception is a send the SDK   *)
(* has refused: nothing of the port tries it again (user_tcp.c:177), and   *)
(* if the core does not, the IPC task waits until the connection is closed *)
(* (service_icp.c:61-66).  Nothing else makes it wait for good.            *)
IpcEventsHandled ==
    \/ \A n \in 1..MaxAccepted :
          Len(ipcAccepted) >= n ~> Len(delivered) >= n \/ crashed
    \/ <>[]Stalled

(* The IPC task, which posts itself again and again while it waits, does   *)
(* not keep the message processor from its events for ever, except when it *)
(* waits for a refused send with an event of its own.                      *)
EventsProcessed ==
    <>[](evq # <<>> /\ ~crashed) =>
        []<><<MessageProcessorTurn>>_portVars \/ <>[](Stalled /\ queue # <<>>)
=============================================================================
