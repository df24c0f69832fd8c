------------------------------ MODULE WsEvents ------------------------------
(***************************************************************************)
(* The values that travel on the channel between the WebSocket client      *)
(* (internal/ws/client.go) and the UI: connection-state changes and domain *)
(* events (internal/ws/events.go).  Of a domain event only its position in *)
(* the server's own history matters here, so it is a number.               *)
(***************************************************************************)
EXTENDS Naturals

CONSTANTS
    Cap,         \* capacity of the events channel (client.go:79 uses 64)
    MaxEvents,   \* bound: domain events the server produces
    BackoffLen   \* number of delays in the reconnect schedule

ASSUME CapAssumption == Cap \in Nat \ {0}
ASSUME MaxEventsAssumption == MaxEvents \in Nat

(* client.go:148 indexes the schedule with min(attempt, len-1): an empty
   schedule is not a usable client. *)
ASSUME BackoffAssumption == BackoffLen \in Nat \ {0}

Positions == 1..MaxEvents
Delays == 0..(BackoffLen - 1)

Connecting == [type |-> "connecting", n |-> 0]
Connected == [type |-> "connected", n |-> 0]
Disconnected(d) == [type |-> "disconnected", n |-> d]
Message(i) == [type |-> "message", n |-> i]

Lifecycle == {Connecting, Connected} \cup {Disconnected(d) : d \in Delays}
Messages == {Message(i) : i \in Positions}
Events == Lifecycle \cup Messages
=============================================================================
