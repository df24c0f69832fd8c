------------------------------ MODULE WsStream ------------------------------
(***************************************************************************)
(* What the WebSocket client promises to the one who reads Events(): a     *)
(* bounded FIFO in which connection attempts follow a fixed grammar,       *)
(* domain events appear only inside an established connection, and nothing *)
(* follows the end of the stream.  Only a cancelled client may leave       *)
(* events out.  How a connection is dialled, kept alive and lost is the    *)
(* business of WsClient, which implements this specification.              *)
(***************************************************************************)
EXTENDS WsEvents, Sequences

VARIABLES
    phase,      \* where the producer is in the grammar
    queue,      \* events put and not yet received
    cancelled   \* Close has been called

vars == <<phase, queue, cancelled>>

Phases == {"idle", "connecting", "connected", "closed"}

TypeOK ==
    /\ phase \in Phases
    /\ queue \in Seq(Events)
    /\ Len(queue) <= Cap
    /\ cancelled \in BOOLEAN

Init ==
    /\ phase = "idle"
    /\ queue = <<>>
    /\ cancelled = FALSE

(* A put waits for room; a cancelled producer need not wait, and may then
   leave the event out. *)
Put(e) ==
    \/ Len(queue) < Cap /\ queue' = Append(queue, e)
    \/ cancelled /\ UNCHANGED queue

Attempt ==
    /\ phase = "idle"
    /\ Put(Connecting)
    /\ phase' = "connecting"
    /\ UNCHANGED cancelled

Establish ==
    /\ phase \in {"connecting", "connected"}
    /\ Put(Connected)
    /\ phase' = "connected"
    /\ UNCHANGED cancelled

Deliver(i) ==
    /\ phase = "connected"
    /\ Put(Message(i))
    /\ UNCHANGED <<phase, cancelled>>

(* A connection that had been established starts the schedule over, so the
   delay announced with its loss is the first one. *)
Lose(d) ==
    /\ phase \in {"connecting", "connected"}
    /\ phase = "connected" => d = 0
    /\ Put(Disconnected(d))
    /\ phase' = "idle"
    /\ UNCHANGED cancelled

Receive ==
    /\ queue # <<>>
    /\ queue' = Tail(queue)
    /\ UNCHANGED <<phase, cancelled>>

Cancel ==
    /\ ~cancelled
    /\ cancelled' = TRUE
    /\ UNCHANGED <<phase, queue>>

End ==
    /\ cancelled
    /\ phase # "closed"
    /\ phase' = "closed"
    /\ UNCHANGED <<queue, cancelled>>

Next ==
    \/ Attempt
    \/ Establish
    \/ \E i \in Positions : Deliver(i)
    \/ \E d \in Delays : Lose(d)
    \/ Receive
    \/ Cancel
    \/ End

Spec == Init /\ [][Next]_vars

-----------------------------------------------------------------------------

(* May event f directly follow event e? *)
Follows(e, f) ==
    \/ e.type = "connecting" /\ f.type \in {"connected", "disconnected"}
    \/ e.type \in {"connected", "message"} /\ f.type \in {"connected", "message"}
    \/ e.type \in {"connected", "message"} /\ f = Disconnected(0)
    \/ e.type = "disconnected" /\ f.type = "connecting"

(* The reader of Events() sees attempts in the order of the grammar: an
   attempt is announced before its outcome, domain events arrive only
   between "connected" and the next "disconnected", and the loss of an
   established connection announces the first delay of the schedule
   (client.go:133-159, 183-209).  The UI's connection state
   (wsevents.go:55-70) is a fold over this stream and means what it says
   only because of this order. *)
Grammar ==
    ~cancelled =>
        \A i \in 1..(Len(queue) - 1) : Follows(queue[i], queue[i + 1])
=============================================================================
