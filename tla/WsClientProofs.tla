--------------------------- MODULE WsClientProofs ---------------------------
(***************************************************************************)
(* The WebSocket client is well-typed, implements the stream it promises,  *)
(* and never hides a gap from the UI: for every channel capacity, schedule *)
(* and bound on the environment.                                           *)
(***************************************************************************)
EXTENDS WsClient, TLAPS

LEMMA ConstantTypes ==
    /\ Cap \in Nat /\ Cap > 0 /\ WireCap \in Nat /\ WireCap > 0
    /\ MaxFaults \in Nat /\ MaxSets \in Nat /\ MaxEvents \in Nat
    /\ BackoffLen \in Nat /\ BackoffLen > 0
  BY CapAssumption, BoundsAssumption, MaxEventsAssumption, BackoffAssumption

LEMMA EventTypes ==
    /\ Connecting \in Events
    /\ Connected \in Events
    /\ \A d \in Delays : Disconnected(d) \in Events
    /\ \A i \in Positions : Message(i) \in Events /\ Message(i) \in Frames
    /\ ReadyFrame \in Frames /\ AckFrame \in Frames
    /\ \A f \in Messages : f.n \in Positions
    /\ ReadyFrame \notin Messages /\ ReadyFrame # AckFrame
<1>1. /\ Connecting \in Events
      /\ Connected \in Events
      /\ \A d \in Delays : Disconnected(d) \in Events
  BY DEF Events, Lifecycle
<1>2. \A i \in Positions : Message(i) \in Events /\ Message(i) \in Frames
  BY DEF Events, Messages, Frames
<1>3. ReadyFrame \in Frames /\ AckFrame \in Frames
  BY DEF Frames
<1>4. \A f \in Messages : f.n \in Positions /\ f.type = "message"
  BY DEF Messages, Message
<1>5. ReadyFrame \notin Messages /\ ReadyFrame # AckFrame
  <2>1. ReadyFrame.type = "ready" /\ AckFrame.type = "ack"
    BY DEF ReadyFrame, AckFrame
  <2>2. QED
    BY <2>1, <1>4
<1>6. QED
  BY <1>1, <1>2, <1>3, <1>4, <1>5

(* An emit keeps the channel well-typed and within its capacity. *)
LEMMA EmitType ==
    ASSUME TypeOK, NEW e \in Events, Emit(e)
    PROVE  events' \in Seq(Events) /\ Len(events') <= Cap
<1>1. events \in Seq(Events) /\ Len(events) <= Cap
  BY DEF TypeOK
<1>2. QED
  BY <1>1, ConstantTypes DEF Emit

(* So does reading a frame from the wire. *)
LEMMA ReadType ==
    ASSUME TypeOK, toClient # <<>>
    PROVE  /\ Head(toClient) \in Frames
           /\ Tail(toClient) \in Seq(Frames) /\ Len(Tail(toClient)) <= WireCap
<1>1. toClient \in Seq(Frames) /\ Len(toClient) <= WireCap
  BY DEF TypeOK
<1>2. QED
  BY <1>1, ConstantTypes

(* And so does putting a frame or a set on a wire with room. *)
LEMMA WireType ==
    ASSUME TypeOK
    PROVE  /\ \A f \in Frames : Len(toClient) < WireCap =>
                  /\ Append(toClient, f) \in Seq(Frames)
                  /\ Len(Append(toClient, f)) <= WireCap
           /\ \A x \in Sets : Len(toServer) < WireCap =>
                  /\ Append(toServer, x) \in Seq(Sets)
                  /\ Len(Append(toServer, x)) <= WireCap
<1>1. /\ toClient \in Seq(Frames) /\ Len(toClient) <= WireCap
      /\ toServer \in Seq(Sets) /\ Len(toServer) <= WireCap
  BY DEF TypeOK
<1>2. QED
  BY <1>1, ConstantTypes

LEMMA TypeInit == Init => TypeOK
<1> SUFFICES ASSUME Init PROVE TypeOK
  OBVIOUS
<1>1. /\ events \in Seq(Events) /\ Len(events) = 0
      /\ toClient \in Seq(Frames) /\ Len(toClient) = 0
      /\ toServer \in Seq(Sets) /\ Len(toServer) = 0
  BY DEF Init
<1>2. /\ pc \in Points /\ pc # "forward" /\ connected \in BOOLEAN
      /\ eventsClosed \in BOOLEAN /\ doneClosed \in BOOLEAN
      /\ retryCh \in BOOLEAN /\ ctxDone \in BOOLEAN /\ conn \in BOOLEAN
      /\ marked \in BOOLEAN /\ everConnected \in BOOLEAN
      /\ greeted \in BOOLEAN /\ owed \in BOOLEAN
      /\ uiConn \in {"unknown", "connecting", "connected", "disconnected"}
      /\ writer \in {"idle", "live", "stale"}
      /\ closer \in {"idle", "waiting", "returned"}
      /\ link \in {"none", "up", "broken", "silent", "closed"}
  BY DEF Init, Points, InSession
<1>3. /\ attempt \in 0..BackoffLen /\ held \in 0..MaxEvents /\ ids \in Sets
      /\ chatIDs \in Sets /\ lastSeen \in 0..MaxEvents
      /\ srvSet \in Sets \cup {NoSet} /\ produced \in 0..MaxEvents
      /\ faults \in 0..MaxFaults
  BY ConstantTypes DEF Init, Sets, NoSet
<1>4. QED
  BY <1>1, <1>2, <1>3, ConstantTypes DEF TypeOK

(* The wires after a session's end are empty. *)
LEMMA EmptyWires ==
    ASSUME TypeOK, Teardown
    PROVE  /\ toClient' \in Seq(Frames) /\ Len(toClient') <= WireCap
           /\ toServer' \in Seq(Sets) /\ Len(toServer') <= WireCap
           /\ conn' \in BOOLEAN /\ greeted' \in BOOLEAN
           /\ link' \in {"none", "up", "broken", "silent", "closed"}
           /\ srvSet' \in Sets \cup {NoSet}
           /\ writer' \in {"idle", "live", "stale"}
<1>1. /\ toClient' \in Seq(Frames) /\ Len(toClient') = 0
      /\ toServer' \in Seq(Sets) /\ Len(toServer') = 0
  BY DEF Teardown
<1>2. /\ conn' \in BOOLEAN /\ greeted' \in BOOLEAN
      /\ link' \in {"none", "up", "broken", "silent", "closed"}
      /\ srvSet' \in Sets \cup {NoSet}
      /\ writer' \in {"idle", "live", "stale"}
  BY DEF Teardown, TypeOK
<1>3. QED
  BY <1>1, <1>2, ConstantTypes

LEMMA RunType == TypeOK /\ Run => TypeOK'
<1> SUFFICES ASSUME TypeOK, Run PROVE TypeOK'
  OBVIOUS
<1> USE DEF runVars, closeVars, uiVars, setVars, netVars, Points, InSession
<1>1. CASE Announce
  BY <1>1, EmitType, EventTypes DEF Announce, TypeOK
<1>2. CASE DialSucceeds
  BY <1>2 DEF DialSucceeds, TypeOK
<1>3. CASE DialFails
  BY <1>3, ConstantTypes DEF DialFails, SessionReturns, TypeOK
<1>4. CASE ReadFails
  BY <1>4, EmptyWires, ConstantTypes DEF ReadFails, SessionReturns, TypeOK
<1>5. CASE ReadReady
  BY <1>5, ReadType DEF ReadReady, TypeOK
<1>6. CASE ReadIgnored
  BY <1>6, ReadType DEF ReadIgnored, TypeOK
<1>7. CASE ReadEvent
  BY <1>7, ReadType, EventTypes, ConstantTypes DEF ReadEvent, TypeOK, Positions
<1>8. CASE SubscribeWritten
  <2>1. toServer' \in Seq(Sets) /\ Len(toServer') <= WireCap
    <3>1. toServer \in Seq(Sets) /\ Len(toServer) <= WireCap /\ ids \in Sets
      BY DEF TypeOK
    <3>2. QED
      BY <1>8, <3>1, WireType DEF SubscribeWritten
  <2>2. QED
    BY <1>8, <2>1 DEF SubscribeWritten, TypeOK
<1>9. CASE SubscribeFails
  BY <1>9, EmptyWires, ConstantTypes DEF SubscribeFails, SessionReturns, TypeOK
<1>10. CASE EmitConnected
  BY <1>10, EmitType, EventTypes DEF EmitConnected, TypeOK
<1>11. CASE EmitEvent
  BY <1>11, EmitType, EventTypes, ConstantTypes DEF EmitEvent, TypeOK
<1>12. CASE Report
  <2>1. /\ Least(attempt, BackoffLen - 1) \in Delays
        /\ Least(attempt + 1, BackoffLen) \in 0..BackoffLen
    BY ConstantTypes DEF TypeOK, Least, Delays
  <2>2. events' \in Seq(Events) /\ Len(events') <= Cap
    BY <1>12, <2>1, EmitType, EventTypes DEF Report
  <2>3. QED
    <3>1. attempt' \in 0..BackoffLen /\ pc' \in Points /\ pc' # "forward"
      BY <1>12, <2>1 DEF Report
    <3>2. /\ connected' \in BOOLEAN
          /\ UNCHANGED <<held, ids, closeVars, retryCh, conn, uiVars, setVars, netVars,
                         owed>>
      BY <1>12 DEF Report
    <3>3. QED
      BY <2>2, <3>1, <3>2 DEF TypeOK
<1>13. CASE TimerFires
  BY <1>13 DEF TimerFires, TypeOK
<1>14. CASE TakeRetry
  <2>1. 0 \in 0..BackoffLen
    BY ConstantTypes
  <2>2. QED
    <3>1. attempt' \in 0..BackoffLen /\ pc' \in Points /\ pc' # "forward"
      BY <1>14, <2>1 DEF TakeRetry
    <3>2. /\ retryCh' \in BOOLEAN
          /\ UNCHANGED <<connected, held, ids, events, closeVars, conn, uiVars, setVars,
                         netVars, owed>>
      BY <1>14 DEF TakeRetry
    <3>3. QED
      BY <3>1, <3>2 DEF TypeOK
<1>15. CASE BackoffCancelled
  BY <1>15 DEF BackoffCancelled, TypeOK
<1>16. CASE CloseEvents
  BY <1>16 DEF CloseEvents, TypeOK
<1>17. CASE CloseDone
  BY <1>17 DEF CloseDone, TypeOK
<1>18. QED
  BY <1>1, <1>2, <1>3, <1>4, <1>5, <1>6, <1>7, <1>8, <1>9, <1>10, <1>11, <1>12, <1>13,
     <1>14, <1>15, <1>16, <1>17 DEF Run

LEMMA UIType == TypeOK /\ UI => TypeOK'
<1> SUFFICES ASSUME TypeOK, UI PROVE TypeOK'
  OBVIOUS
<1> USE DEF runVars, closeVars, uiVars, setVars, netVars
<1>1. CASE Consume
  <2>1. /\ Head(events) \in Events
        /\ Tail(events) \in Seq(Events) /\ Len(Tail(events)) <= Cap
    <3>1. events \in Seq(Events) /\ Len(events) <= Cap /\ events # <<>>
      BY <1>1 DEF TypeOK, Consume
    <3>2. QED
      BY <3>1, ConstantTypes
  <2>2. /\ Head(events).type = "message" => Head(events).n \in 0..MaxEvents
        /\ Head(events).type \in {"message", "connecting", "connected", "disconnected"}
    BY <2>1, ConstantTypes
    DEF Events, Lifecycle, Messages, Message, Connecting, Connected, Disconnected, Positions
  <2>3. Apply(Head(events))
    BY <1>1 DEF Consume
  <2>4. /\ lastSeen' \in 0..MaxEvents /\ marked' \in BOOLEAN
        /\ everConnected' \in BOOLEAN /\ owed' \in BOOLEAN
    BY <2>2, <2>3 DEF Apply, TypeOK
  <2>5. uiConn' \in {"unknown", "connecting", "connected", "disconnected"}
    BY <2>2, <2>3 DEF Apply, TypeOK
  <2>6. QED
    BY <1>1, <2>1, <2>4, <2>5 DEF Consume, TypeOK
<1>2. CASE Retry
  BY <1>2 DEF Retry, TypeOK
<1>3. CASE SetSubscriptions
  <2>1. chatIDs' \in Sets
    BY <1>3, ConstantTypes DEF SetSubscriptions, TypeOK, Sets
  <2>2. QED
    BY <1>3, <2>1 DEF SetSubscriptions, TypeOK
<1>4. CASE WriteSubscriptions
  <2>1. toServer' \in Seq(Sets) /\ Len(toServer') <= WireCap
    <3>1. toServer \in Seq(Sets) /\ Len(toServer) <= WireCap /\ chatIDs \in Sets
      BY DEF TypeOK
    <3>2. QED
      BY <1>4, <3>1, WireType DEF WriteSubscriptions
  <2>2. QED
    BY <1>4, <2>1 DEF WriteSubscriptions, TypeOK
<1>5. CASE Close
  BY <1>5 DEF Close, TypeOK
<1>6. CASE CloseReturns
  BY <1>6 DEF CloseReturns, TypeOK
<1>7. QED
  BY <1>1, <1>2, <1>3, <1>4, <1>5, <1>6 DEF UI

LEMMA EnvironmentType == TypeOK /\ (PingFails \/ Environment) => TypeOK'
<1> SUFFICES ASSUME TypeOK, PingFails \/ Environment PROVE TypeOK'
  OBVIOUS
<1> USE DEF runVars, closeVars, uiVars, setVars, netVars
<1>1. CASE PingFails
  <2>1. faults' \in 0..MaxFaults
    BY <1>1, ConstantTypes DEF PingFails, TypeOK
  <2>2. QED
    BY <1>1, <2>1 DEF PingFails, TypeOK
<1>2. CASE ServerReady
  BY <1>2, WireType, EventTypes DEF ServerReady, TypeOK
<1>3. CASE ServerSubscribes
  <2>1. /\ Head(toServer) \in Sets
        /\ Tail(toServer) \in Seq(Sets) /\ Len(Tail(toServer)) <= WireCap
    <3>1. toServer \in Seq(Sets) /\ Len(toServer) <= WireCap /\ toServer # <<>>
      BY <1>3 DEF TypeOK, ServerSubscribes
    <3>2. QED
      BY <3>1, ConstantTypes
  <2>2. QED
    BY <1>3, <2>1, WireType, EventTypes DEF ServerSubscribes, TypeOK
<1>4. CASE ServerEvent
  <2>1. produced' \in 0..MaxEvents /\ produced + 1 \in Positions
    BY <1>4, ConstantTypes DEF ServerEvent, TypeOK, Positions
  <2>2. toClient' \in Seq(Frames) /\ Len(toClient') <= WireCap
    <3>1. toClient \in Seq(Frames) /\ Len(toClient) <= WireCap
      BY DEF TypeOK
    <3>2. QED
      BY <1>4, <2>1, <3>1, WireType, EventTypes DEF ServerEvent
  <2>3. owed' \in BOOLEAN
    BY <1>4 DEF ServerEvent, RefetchAhead, TypeOK
  <2>4. QED
    BY <1>4, <2>1, <2>2, <2>3 DEF ServerEvent, TypeOK
<1>5. CASE LinkFails
  <2>1. toClient' \in Seq(Frames) /\ Len(toClient') <= WireCap
    <3>1. PICK k \in 0..Len(toClient) : toClient' = SubSeq(toClient, 1, k)
      BY <1>5 DEF LinkFails
    <3>2. toClient \in Seq(Frames) /\ Len(toClient) <= WireCap
      BY DEF TypeOK
    <3>3. QED
      BY <3>1, <3>2, ConstantTypes
  <2>2. toServer' \in Seq(Sets) /\ Len(toServer') = 0
    BY <1>5 DEF LinkFails
  <2>3. faults' \in 0..MaxFaults
    BY <1>5, ConstantTypes DEF LinkFails, TypeOK
  <2>4. QED
    BY <1>5, <2>1, <2>2, <2>3, ConstantTypes DEF LinkFails, TypeOK
<1>6. QED
  BY <1>1, <1>2, <1>3, <1>4, <1>5 DEF Environment

LEMMA TypeStep == TypeOK /\ [Next]_vars => TypeOK'
<1>1. TypeOK /\ UNCHANGED vars => TypeOK'
  BY DEF TypeOK, vars, runVars, closeVars, uiVars, setVars, netVars
<1>2. QED
  BY <1>1, RunType, UIType, EnvironmentType DEF Next

(* Every variable of the client, the UI and the network keeps its type: in
   particular the channel never exceeds its capacity (client.go:79) and the
   delay announced is one of the schedule (client.go:148). *)
THEOREM ClientTypeCorrect == Spec => []TypeOK
  BY TypeInit, TypeStep, PTL DEF Spec
-----------------------------------------------------------------------------

(* What a session knows of its connection.  The stream's phase is a function
   of pc and connected, so the refinement needs that these agree: nothing is
   connected outside a session, and no domain event can reach a session that
   is not yet connected, because on its wire the greeting comes first. *)
GreetingFirst ==
    IF toClient = <<>> THEN ~greeted \/ link # "up" ELSE Head(toClient) = ReadyFrame

SessionInv ==
    /\ pc \in {"announce", "dial", "backoff"} => ~connected
    /\ pc \notin InSession => /\ link = "none" /\ toClient = <<>>
                              /\ ~greeted /\ srvSet = NoSet
    /\ ~greeted => srvSet = NoSet
    /\ pc = "forward" => connected
    /\ pc = "read" /\ ~connected => GreetingFirst
    /\ pc \in {"exiting", "drained", "done"} => ctxDone
    /\ pc = "report" /\ connected => attempt = 0

(* A frame put behind a greeting does not hide it. *)
LEMMA GreetingKept ==
    ASSUME TypeOK, NEW f \in Frames, toClient # <<>>
    PROVE  Append(toClient, f) # <<>> /\ Head(Append(toClient, f)) = Head(toClient)
<1>1. toClient \in Seq(Frames) /\ toClient # <<>>
  BY DEF TypeOK
<1>2. QED
  BY <1>1

LEMMA SessionInit == Init => SessionInv
  BY DEF Init, SessionInv, InSession

LEMMA SessionStep == TypeOK /\ SessionInv /\ [Next]_vars => SessionInv'
<1> SUFFICES ASSUME TypeOK, SessionInv, [Next]_vars PROVE SessionInv'
  OBVIOUS
<1> USE DEF runVars, closeVars, uiVars, setVars, netVars, InSession
<1>1. CASE Announce
  BY <1>1 DEF Announce, SessionInv, GreetingFirst
<1>2. CASE DialSucceeds
  BY <1>2 DEF DialSucceeds, SessionInv, GreetingFirst
<1>3. CASE DialFails
  BY <1>3 DEF DialFails, SessionReturns, SessionInv, GreetingFirst
<1>4. CASE ReadFails
  BY <1>4 DEF ReadFails, SessionReturns, Teardown, SessionInv, GreetingFirst
<1>5. CASE ReadReady
  BY <1>5 DEF ReadReady, SessionInv, GreetingFirst
<1>6. CASE ReadIgnored
  BY <1>6, EventTypes DEF ReadIgnored, SessionInv, GreetingFirst
<1>7. CASE ReadEvent
  BY <1>7, EventTypes DEF ReadEvent, SessionInv, GreetingFirst
<1>8. CASE SubscribeWritten
  BY <1>8 DEF SubscribeWritten, SessionInv, GreetingFirst
<1>9. CASE SubscribeFails
  BY <1>9 DEF SubscribeFails, SessionReturns, Teardown, SessionInv, GreetingFirst
<1>10. CASE EmitConnected
  BY <1>10 DEF EmitConnected, SessionInv, GreetingFirst
<1>11. CASE EmitEvent
  BY <1>11 DEF EmitEvent, SessionInv, GreetingFirst
<1>12. CASE Report
  BY <1>12 DEF Report, SessionInv, GreetingFirst
<1>13. CASE TimerFires \/ TakeRetry \/ BackoffCancelled
  BY <1>13 DEF TimerFires, TakeRetry, BackoffCancelled, SessionInv, GreetingFirst
<1>14. CASE CloseEvents \/ CloseDone
  BY <1>14 DEF CloseEvents, CloseDone, SessionInv, GreetingFirst
<1>15. CASE PingFails
  BY <1>15 DEF PingFails, SessionInv, GreetingFirst
<1>16. CASE UI
  BY <1>16
  DEF UI, Consume, Retry, SetSubscriptions, WriteSubscriptions, Close, CloseReturns,
      SessionInv, GreetingFirst
<1>17. CASE ServerReady
  <2>1. toClient = <<>> => toClient' # <<>> /\ Head(toClient') = ReadyFrame
    BY <1>17 DEF ServerReady
  <2>2. QED
    BY <1>17, <2>1, GreetingKept, EventTypes DEF ServerReady, SessionInv, GreetingFirst
<1>18. CASE ServerSubscribes
  BY <1>18, GreetingKept, EventTypes DEF ServerSubscribes, SessionInv, GreetingFirst
<1>19. CASE ServerEvent
  <2>1. CASE UNCHANGED toClient
    BY <1>19, <2>1 DEF ServerEvent, SessionInv, GreetingFirst
  <2>2. CASE /\ link = "up" /\ srvSet # NoSet /\ Len(toClient) < WireCap
             /\ toClient' = Append(toClient, Message(produced + 1))
    <3>1. Message(produced + 1) \in Frames
      BY <1>19, EventTypes, ConstantTypes DEF ServerEvent, TypeOK, Positions
    <3>2. QED
      BY <1>19, <2>2, <3>1, GreetingKept DEF ServerEvent, SessionInv, GreetingFirst
  <2>3. QED
    BY <1>19, <2>1, <2>2 DEF ServerEvent
<1>20. CASE LinkFails
  <2>1. /\ link' # "up" /\ pc \in InSession
        /\ UNCHANGED <<pc, connected, greeted, srvSet, ctxDone, attempt>>
    BY <1>20 DEF LinkFails, SessionInv
  <2>2. toClient' = <<>> \/ (toClient # <<>> /\ Head(toClient') = Head(toClient))
    <3>1. PICK k \in 0..Len(toClient) : toClient' = SubSeq(toClient, 1, k)
      BY <1>20 DEF LinkFails
    <3>2. toClient \in Seq(Frames)
      BY DEF TypeOK
    <3>3. QED
      BY <3>1, <3>2
  <2>3. QED
    BY <2>1, <2>2 DEF SessionInv, GreetingFirst
<1>21. CASE UNCHANGED vars
  BY <1>21 DEF vars, SessionInv, GreetingFirst
<1>22. QED
  BY <1>1, <1>2, <1>3, <1>4, <1>5, <1>6, <1>7, <1>8, <1>9, <1>10, <1>11, <1>12, <1>13,
     <1>14, <1>15, <1>16, <1>17, <1>18, <1>19, <1>20, <1>21 DEF Next, Run, Environment

-----------------------------------------------------------------------------
(* The client implements the stream. *)

LEMMA StreamInit == Init => Stream!Init
  BY DEF Init, Stream!Init, StreamPhase

LEMMA StreamStep == TypeOK /\ SessionInv /\ [Next]_vars => [Stream!Next]_(Stream!vars)
<1> SUFFICES ASSUME TypeOK, SessionInv, [Next]_vars
             PROVE  Stream!Next \/ UNCHANGED Stream!vars
  OBVIOUS
<1> USE DEF runVars, closeVars, uiVars, setVars, netVars, InSession, StreamPhase
<1>1. CASE Announce
  <2>1. Stream!Attempt
    BY <1>1 DEF Announce, Emit, SessionInv, Stream!Attempt, Stream!Put, Connecting,
       Stream!Connecting
  <2>2. QED
    BY <2>1 DEF Stream!Next
<1>2. CASE EmitConnected
  <2>1. Stream!Establish
    BY <1>2 DEF EmitConnected, Emit, Stream!Establish, Stream!Put, Connected,
       Stream!Connected
  <2>2. QED
    BY <2>1 DEF Stream!Next
<1>3. CASE EmitEvent
  <2>1. held \in Stream!Positions
    BY <1>3 DEF EmitEvent, TypeOK, Positions, Stream!Positions
  <2>2. Stream!Deliver(held)
    BY <1>3 DEF EmitEvent, Emit, SessionInv, Stream!Deliver, Stream!Put, Message,
       Stream!Message
  <2>3. QED
    BY <2>1, <2>2 DEF Stream!Next
<1>4. CASE Report
  <2> DEFINE d == Least(attempt, BackoffLen - 1)
  <2>1. d \in Stream!Delays
    BY ConstantTypes DEF TypeOK, Least, Stream!Delays
  <2>2. connected => d = 0
    BY <1>4, ConstantTypes DEF Report, SessionInv, Least
  <2>3. Stream!Lose(d)
    BY <1>4, <2>2 DEF Report, Emit, Stream!Lose, Stream!Put, Disconnected,
       Stream!Disconnected
  <2>4. QED
    BY <2>1, <2>3 DEF Stream!Next
<1>5. CASE Consume
  <2>1. Stream!Receive
    BY <1>5 DEF Consume, Stream!Receive
  <2>2. QED
    BY <2>1 DEF Stream!Next
<1>6. CASE Close
  <2>1. Stream!Cancel \/ UNCHANGED Stream!vars
    BY <1>6 DEF Close, TypeOK, Stream!Cancel, Stream!vars
  <2>2. QED
    BY <2>1 DEF Stream!Next
<1>7. CASE DialFails \/ ReadFails \/ SubscribeFails \/ BackoffCancelled
  <2>1. Stream!End \/ UNCHANGED Stream!vars
    BY <1>7 DEF DialFails, ReadFails, SubscribeFails, BackoffCancelled, SessionReturns,
       Stream!End, Stream!vars
  <2>2. QED
    BY <2>1 DEF Stream!Next
<1>8. CASE \/ DialSucceeds \/ ReadReady \/ ReadIgnored \/ ReadEvent \/ SubscribeWritten
           \/ TimerFires \/ TakeRetry \/ CloseEvents \/ CloseDone
  BY <1>8 DEF DialSucceeds, ReadReady, ReadIgnored, ReadEvent, SubscribeWritten,
     TimerFires, TakeRetry, CloseEvents, CloseDone, Stream!vars
<1>9. CASE PingFails \/ Environment
  BY <1>9 DEF PingFails, Environment, ServerReady, ServerSubscribes, ServerEvent, LinkFails,
     Stream!vars
<1>10. CASE Retry \/ SetSubscriptions \/ WriteSubscriptions \/ CloseReturns
  BY <1>10 DEF Retry, SetSubscriptions, WriteSubscriptions, CloseReturns, Stream!vars
<1>11. CASE UNCHANGED vars
  BY <1>11 DEF vars, Stream!vars
<1>12. QED
  BY <1>1, <1>2, <1>3, <1>4, <1>5, <1>6, <1>7, <1>8, <1>9, <1>10, <1>11
  DEF Next, Run, UI

(* Every behaviour of the client is, seen from Events(), a behaviour of the
   stream it promises (client.go:93-97, 133-159, 183-209). *)
THEOREM ClientImplementsStream == Spec => ImplementsStream
<1>1. Init => Stream!Init /\ TypeOK /\ SessionInv
  BY StreamInit, TypeInit, SessionInit
<1>2. TypeOK /\ SessionInv /\ [Next]_vars => TypeOK' /\ SessionInv'
  BY TypeStep, SessionStep
<1>3. QED
  BY <1>1, <1>2, StreamStep, PTL DEF Spec, ImplementsStream, Stream!Spec

-----------------------------------------------------------------------------
(* What the promised stream keeps, whoever implements it: the proofs use only
   Stream's actions, and nothing of what StreamPhase stands for. *)

(* The event at the end of the queue is the one that led to the phase. *)
EndsIn(e, p) ==
    /\ p # "closed"
    /\ p = "idle" => e.type = "disconnected"
    /\ p = "connecting" => e.type = "connecting"
    /\ p = "connected" => e.type \in {"connected", "message"}

(* Grammar is not inductive: what may be put depends on the phase, so the
   phase must agree with the end of the queue. *)
GrammarInv ==
    /\ Stream!TypeOK
    /\ Stream!Grammar
    /\ ~ctxDone => StreamPhase # "closed"
    /\ ~ctxDone /\ events # <<>> => EndsIn(events[Len(events)], StreamPhase)

(* Each constructor yields an event, of its own type. *)
LEMMA PromisedEvents ==
    /\ Stream!Connecting \in Stream!Events /\ Stream!Connecting.type = "connecting"
    /\ Stream!Connected \in Stream!Events /\ Stream!Connected.type = "connected"
    /\ \A d \in Stream!Delays : Stream!Disconnected(d) \in Stream!Events /\ Stream!Disconnected(d).type = "disconnected"
    /\ \A i \in Stream!Positions : Stream!Message(i) \in Stream!Events /\ Stream!Message(i).type = "message"
  BY DEF Stream!Events, Stream!Lifecycle, Stream!Messages, Stream!Connecting, Stream!Connected, Stream!Disconnected, Stream!Message

(* A put keeps the queue well-typed and within its capacity. *)
LEMMA PromisedPut ==
    ASSUME Stream!TypeOK, NEW e \in Stream!Events, Stream!Put(e)
    PROVE  events' \in Seq(Stream!Events) /\ Len(events') <= Cap
  BY ConstantTypes DEF Stream!TypeOK, Stream!Put

LEMMA PromisedInit == Stream!Init => Stream!TypeOK
<1> SUFFICES ASSUME Stream!Init PROVE Stream!TypeOK
  OBVIOUS
<1>1. events \in Seq(Stream!Events) /\ Len(events) = 0
  BY DEF Stream!Init
<1>2. StreamPhase \in Stream!Phases /\ ctxDone \in BOOLEAN
  BY DEF Stream!Init, Stream!Phases
<1>3. QED
  BY <1>1, <1>2, ConstantTypes DEF Stream!TypeOK

LEMMA PromisedStep == Stream!TypeOK /\ [Stream!Next]_(Stream!vars) => Stream!TypeOK'
<1> SUFFICES ASSUME Stream!TypeOK, [Stream!Next]_(Stream!vars) PROVE Stream!TypeOK'
  OBVIOUS
<1>1. CASE Stream!Attempt
  BY <1>1, PromisedPut, PromisedEvents DEF Stream!Attempt, Stream!TypeOK, Stream!Phases
<1>2. CASE Stream!Establish
  BY <1>2, PromisedPut, PromisedEvents DEF Stream!Establish, Stream!TypeOK, Stream!Phases
<1>3. ASSUME NEW i \in Stream!Positions, Stream!Deliver(i) PROVE Stream!TypeOK'
  BY <1>3, PromisedPut, PromisedEvents DEF Stream!Deliver, Stream!TypeOK, Stream!Phases
<1>4. ASSUME NEW d \in Stream!Delays, Stream!Lose(d) PROVE Stream!TypeOK'
  BY <1>4, PromisedPut, PromisedEvents DEF Stream!Lose, Stream!TypeOK, Stream!Phases
<1>5. CASE Stream!Receive
  <2>1. Tail(events) \in Seq(Stream!Events) /\ Len(Tail(events)) = Len(events) - 1
    BY <1>5 DEF Stream!Receive, Stream!TypeOK
  <2>2. QED
    BY <1>5, <2>1, ConstantTypes DEF Stream!Receive, Stream!TypeOK, Stream!Phases
<1>6. CASE Stream!Cancel
  BY <1>6 DEF Stream!Cancel, Stream!TypeOK, Stream!Phases
<1>7. CASE Stream!End
  BY <1>7 DEF Stream!End, Stream!TypeOK, Stream!Phases
<1>8. CASE UNCHANGED Stream!vars
  BY <1>8 DEF Stream!vars, Stream!TypeOK
<1>9. QED
  BY <1>1, <1>2, <1>3, <1>4, <1>5, <1>6, <1>7, <1>8 DEF Stream!Next

(* The queue holds events only, never more than Cap of them: the bound of
   the channel made at client.go:79 and kept by every send of emit
   (client.go:251-256). *)
THEOREM StreamTypeCorrect == Stream!Spec => []Stream!TypeOK
  BY PromisedInit, PromisedStep, PTL DEF Stream!Spec

(* A put of an event that may follow the end of the queue keeps the grammar
   and leaves that event at the end. *)
LEMMA PutKeepsGrammar ==
    ASSUME Stream!TypeOK, Stream!Grammar, NEW e \in Stream!Events, Stream!Put(e), ~ctxDone,
           events # <<>> => Stream!Follows(events[Len(events)], e)
    PROVE  /\ \A i \in 1..(Len(events') - 1) : Stream!Follows(events'[i], events'[i + 1])
           /\ events' # <<>> /\ events'[Len(events')] = e
<1>1. events' = Append(events, e) /\ events \in Seq(Stream!Events)
  BY DEF Stream!Put, Stream!TypeOK
<1>2. /\ Len(events') = Len(events) + 1
      /\ events'[Len(events) + 1] = e
      /\ \A i \in 1..Len(events) : events'[i] = events[i]
  BY <1>1
<1>3. ASSUME NEW i \in 1..(Len(events') - 1) PROVE Stream!Follows(events'[i], events'[i + 1])
  <2>1. CASE i = Len(events)
    <3>1. events # <<>>
      BY <2>1, <1>2
    <3>2. QED
      BY <3>1, <2>1, <1>1, <1>2
  <2>2. CASE i # Len(events)
    <3>1. i \in 1..(Len(events) - 1) /\ i \in 1..Len(events) /\ i + 1 \in 1..Len(events)
      BY <2>2, <1>1, <1>2
    <3>2. Stream!Follows(events[i], events[i + 1])
      BY <3>1 DEF Stream!Grammar
    <3>3. QED
      BY <3>1, <3>2, <1>2
  <2>3. QED
    BY <2>1, <2>2
<1>4. QED
  BY <1>1, <1>2, <1>3

(* What the UI reads follows the grammar of attempts: announced before its
   outcome, domain events only while connected, the first delay after the
   loss of an established connection (client.go:133-159, 183-209). *)
THEOREM StreamGrammatical == Stream!Spec => []Stream!Grammar
<1>1. Stream!Init => GrammarInv
  BY PromisedInit DEF Stream!Init, GrammarInv, Stream!Grammar
<1>2. GrammarInv /\ [Stream!Next]_(Stream!vars) => GrammarInv'
  <2> SUFFICES ASSUME GrammarInv, [Stream!Next]_(Stream!vars), Stream!TypeOK' PROVE GrammarInv'
    BY PromisedStep DEF GrammarInv
  <2> USE DEF GrammarInv
  <2>1. CASE Stream!Attempt
    <3>1. ~ctxDone /\ events # <<>> => Stream!Follows(events[Len(events)], Stream!Connecting)
      BY <2>1, PromisedEvents DEF Stream!Attempt, EndsIn, Stream!Follows
    <3>2. QED
      BY <2>1, <3>1, PutKeepsGrammar, PromisedEvents DEF Stream!Attempt, Stream!Grammar, EndsIn
  <2>2. CASE Stream!Establish
    <3>1. ~ctxDone /\ events # <<>> => Stream!Follows(events[Len(events)], Stream!Connected)
      BY <2>2, PromisedEvents DEF Stream!Establish, EndsIn, Stream!Follows
    <3>2. QED
      BY <2>2, <3>1, PutKeepsGrammar, PromisedEvents DEF Stream!Establish, Stream!Grammar, EndsIn
  <2>3. ASSUME NEW i \in Stream!Positions, Stream!Deliver(i) PROVE GrammarInv'
    <3>1. ~ctxDone /\ events # <<>> => Stream!Follows(events[Len(events)], Stream!Message(i))
      BY <2>3, PromisedEvents DEF Stream!Deliver, EndsIn, Stream!Follows
    <3>2. QED
      BY <2>3, <3>1, PutKeepsGrammar, PromisedEvents DEF Stream!Deliver, Stream!Grammar, EndsIn
  <2>4. ASSUME NEW d \in Stream!Delays, Stream!Lose(d) PROVE GrammarInv'
    <3>1. ~ctxDone /\ events # <<>> => Stream!Follows(events[Len(events)], Stream!Disconnected(d))
      BY <2>4, PromisedEvents DEF Stream!Lose, EndsIn, Stream!Follows
    <3>2. QED
      BY <2>4, <3>1, PutKeepsGrammar, PromisedEvents DEF Stream!Lose, Stream!Grammar, EndsIn
  <2>5. CASE Stream!Receive
    <3>1. /\ events \in Seq(Stream!Events) /\ events # <<>> /\ events' = Tail(events)
          /\ UNCHANGED <<StreamPhase, ctxDone>>
      BY <2>5 DEF Stream!Receive, Stream!TypeOK
    <3>2. /\ Len(events') = Len(events) - 1
          /\ \A i \in 1..Len(events') : events'[i] = events[i + 1]
      BY <3>1
    <3>3. Stream!Grammar'
      <4> SUFFICES ASSUME ~ctxDone, NEW i \in 1..(Len(events') - 1)
                   PROVE  Stream!Follows(events'[i], events'[i + 1])
        BY <3>1 DEF Stream!Grammar
      <4>1. i + 1 \in 1..(Len(events) - 1) /\ i \in 1..Len(events') /\ i + 1 \in 1..Len(events')
        BY <3>1, <3>2
      <4>2. Stream!Follows(events[i + 1], events[i + 1 + 1])
        BY <4>1 DEF Stream!Grammar
      <4>3. QED
        BY <4>1, <4>2, <3>2
    <3>4. ~ctxDone /\ events' # <<>> => EndsIn(events'[Len(events')], StreamPhase')
      <4> SUFFICES ASSUME ~ctxDone, events' # <<>> PROVE EndsIn(events'[Len(events')], StreamPhase')
        OBVIOUS
      <4>1. Len(events') \in 1..Len(events')
        BY <3>1, <3>2
      <4>2. events'[Len(events')] = events[Len(events)]
        BY <4>1, <3>1, <3>2
      <4>3. QED
        BY <4>2, <3>1
    <3>5. QED
      BY <3>1, <3>3, <3>4
  <2>6. CASE Stream!Cancel
    BY <2>6 DEF Stream!Cancel, Stream!Grammar
  <2>7. CASE Stream!End
    BY <2>7 DEF Stream!End, Stream!Grammar
  <2>8. CASE UNCHANGED Stream!vars
    BY <2>8 DEF Stream!vars, Stream!Grammar, EndsIn, Stream!Follows
  <2>9. QED
    BY <2>1, <2>2, <2>3, <2>4, <2>5, <2>6, <2>7, <2>8 DEF Stream!Next
<1>3. QED
  BY <1>1, <1>2, PTL DEF Stream!Spec, GrammarInv

(* The events waiting for the UI follow the grammar of attempts: the UI's
   connection state means what it says (wsevents.go:55-70). *)
THEOREM ClientGrammatical == Spec => []StreamGrammar
  BY ClientImplementsStream, StreamGrammatical, PTL DEF ImplementsStream, StreamGrammar

-----------------------------------------------------------------------------

(* A session about to say "connected", or that has said it, has a set on its
   way to the server or in force there. *)
SubscribedInv ==
    pc = "ready" \/ (pc \in InSession /\ connected) =>
        (link = "up" => toServer # <<>> \/ srvSet # NoSet)

LEMMA SubscribedStep ==
    TypeOK /\ SessionInv /\ SubscribedInv /\ [Next]_vars => SubscribedInv'
<1> SUFFICES ASSUME TypeOK, SessionInv, SubscribedInv, [Next]_vars PROVE SubscribedInv'
  OBVIOUS
<1> USE DEF runVars, closeVars, uiVars, setVars, netVars, InSession, SubscribedInv
<1>1. CASE Announce \/ DialFails \/ ReadFails \/ SubscribeFails \/ Report
  BY <1>1 DEF Announce, DialFails, ReadFails, SubscribeFails, SessionReturns, Teardown, Report
<1>2. CASE DialSucceeds
  BY <1>2 DEF DialSucceeds, SessionInv
<1>3. CASE ReadReady \/ ReadIgnored \/ ReadEvent
  BY <1>3 DEF ReadReady, ReadIgnored, ReadEvent
<1>4. CASE SubscribeWritten
  <2>1. toServer \in Seq(Sets) /\ Append(toServer, ids) # <<>>
    BY DEF TypeOK
  <2>2. QED
    BY <1>4, <2>1 DEF SubscribeWritten
<1>5. CASE EmitConnected \/ EmitEvent
  BY <1>5 DEF EmitConnected, EmitEvent, SessionInv
<1>6. CASE TimerFires \/ TakeRetry \/ BackoffCancelled \/ CloseEvents \/ CloseDone
  BY <1>6 DEF TimerFires, TakeRetry, BackoffCancelled, CloseEvents, CloseDone
<1>7. CASE Consume \/ Retry \/ SetSubscriptions \/ Close \/ CloseReturns
  BY <1>7 DEF Consume, Retry, SetSubscriptions, Close, CloseReturns
<1>8. CASE WriteSubscriptions
  <2>1. toServer \in Seq(Sets) /\ Append(toServer, chatIDs) # <<>>
    BY DEF TypeOK
  <2>2. QED
    BY <1>8, <2>1 DEF WriteSubscriptions
<1>9. CASE ServerSubscribes
  <2>1. Head(toServer) \in Sets
    BY <1>9 DEF ServerSubscribes, TypeOK
  <2>2. Head(toServer) # NoSet
    BY <2>1, ConstantTypes DEF Sets, NoSet
  <2>3. QED
    BY <1>9, <2>2 DEF ServerSubscribes
<1>10. CASE PingFails \/ ServerReady \/ ServerEvent \/ LinkFails
  BY <1>10 DEF PingFails, ServerReady, ServerEvent, LinkFails
<1>11. CASE UNCHANGED vars
  BY <1>11 DEF vars
<1>12. QED
  BY <1>1, <1>2, <1>3, <1>4, <1>5, <1>6, <1>7, <1>8, <1>9, <1>10, <1>11
  DEF Next, Run, UI, Environment

(* The UI is never told it is connected to a healthy server that was not
   asked for events (client.go:195-200). *)
THEOREM ClientSubscribesFirst == Spec => []SubscribedBeforeConnected
<1>1. Init => SubscribedInv
  BY DEF Init, SubscribedInv, InSession
<1>2. SubscribedInv => SubscribedBeforeConnected
  BY DEF SubscribedInv, SubscribedBeforeConnected
<1>3. QED
  BY <1>1, <1>2, TypeInit, TypeStep, SessionInit, SessionStep, SubscribedStep, PTL DEF Spec

(* The order of the shutdown: the channel, then done, then Close. *)
ShutdownInv ==
    /\ closer = "returned" => doneClosed
    /\ doneClosed => pc = "done"
    /\ pc \in {"drained", "done"} => eventsClosed
    /\ pc \notin InSession => ~conn /\ link = "none"

LEMMA ShutdownStep == SessionInv /\ ShutdownInv /\ [Next]_vars => ShutdownInv'
<1> SUFFICES ASSUME SessionInv, ShutdownInv, [Next]_vars PROVE ShutdownInv'
  OBVIOUS
<1> USE DEF runVars, closeVars, uiVars, setVars, netVars, InSession, ShutdownInv
<1>1. CASE Announce \/ DialSucceeds \/ DialFails \/ Report
  BY <1>1 DEF Announce, DialSucceeds, DialFails, SessionReturns, Report
<1>2. CASE ReadFails \/ SubscribeFails
  BY <1>2 DEF ReadFails, SubscribeFails, SessionReturns, Teardown
<1>3. CASE ReadReady \/ ReadIgnored \/ ReadEvent \/ SubscribeWritten \/ EmitConnected \/ EmitEvent
  BY <1>3 DEF ReadReady, ReadIgnored, ReadEvent, SubscribeWritten, EmitConnected, EmitEvent
<1>4. CASE TimerFires \/ TakeRetry \/ BackoffCancelled \/ CloseEvents \/ CloseDone
  BY <1>4 DEF TimerFires, TakeRetry, BackoffCancelled, CloseEvents, CloseDone
<1>5. CASE UI
  BY <1>5 DEF UI, Consume, Retry, SetSubscriptions, WriteSubscriptions, Close, CloseReturns
<1>6. CASE PingFails \/ Environment
  BY <1>6 DEF PingFails, Environment, ServerReady, ServerSubscribes, ServerEvent, LinkFails
<1>7. CASE UNCHANGED vars
  BY <1>7 DEF vars
<1>8. QED
  BY <1>1, <1>2, <1>3, <1>4, <1>5, <1>6, <1>7 DEF Next, Run

(* "The Events channel is closed before Close returns" (client.go:126-127),
   and no connection is left behind. *)
THEOREM ClientClosesInOrder == Spec => []ClosedBeforeReturn
<1>1. Init => ShutdownInv
  BY DEF Init, ShutdownInv, InSession
<1>2. ShutdownInv => ClosedBeforeReturn
  BY DEF ShutdownInv, ClosedBeforeReturn, InSession
<1>3. QED
  BY <1>1, <1>2, TypeInit, TypeStep, SessionInit, SessionStep, ShutdownStep, PTL DEF Spec
-----------------------------------------------------------------------------
(* No silent gap. *)

(* The frames of C stand in B in the same order, and B has nothing relevant
   between two of its messages that C does not have between them too. *)
Moved(B, C, h) ==
    /\ h \in [Places -> Places]
    /\ \A p \in Places : Relevant(C[p]) =>
           /\ Relevant(B[h[p]])
           /\ IsMessage(C[p]) <=> IsMessage(B[h[p]])
           /\ IsMessage(C[p]) => C[p].n = B[h[p]].n
    /\ \A p, q \in Places : p < q /\ Relevant(C[p]) /\ Relevant(C[q]) => h[p] < h[q]
    /\ \A p, q, k \in Places :
           /\ p < q /\ IsMessage(C[p]) /\ IsMessage(C[q])
           /\ h[p] < k /\ k < h[q] /\ Relevant(B[k])
           => \E r \in Places : p < r /\ r < q /\ Relevant(C[r])

(* Nothing is lost at the end of B. *)
Whole(B, C, h) ==
    \A k \in Places : Relevant(B[k]) => \E p \in Places : Relevant(C[p]) /\ k <= h[p]

(* The latest relevant frame, and what it says of the server's history. *)
LatestAt(line, p) ==
    Relevant(line[p]) /\ \A q \in Places : p < q => ~Relevant(line[q])

EndsInMark(line) == \E p \in Places : LatestAt(line, p) /\ IsMark(line[p])

UpToDate(line, last) ==
    \E p \in Places : LatestAt(line, p) /\ (IsMark(line[p]) \/ line[p].n = last)

Heard(line, last) ==
    \A p \in Places : IsMessage(line[p]) => line[p].n \in Nat /\ line[p].n <= last

LEMMA PlaceTypes ==
    /\ \A p \in Places : p \in Nat /\ p <= Cap + WireCap + 2
    /\ \A p \in Nat : p <= Cap + WireCap + 2 => p \in Places
    /\ Cap \in Nat /\ Cap > 0 /\ WireCap \in Nat /\ WireCap > 0
BY ConstantTypes DEF Places

LEMMA FrameKinds ==
    /\ ~Relevant(Nothing) /\ ~Relevant(Connecting) /\ ~Relevant(AckFrame)
    /\ \A d : ~Relevant(Disconnected(d))
    /\ IsMark(Connected) /\ IsMark(ReadyFrame)
    /\ ~IsMessage(Connected) /\ ~IsMessage(ReadyFrame)
    /\ \A i : IsMessage(Message(i)) /\ ~IsMark(Message(i)) /\ Message(i).n = i
BY DEF Relevant, IsMessage, IsMark, Nothing, Connecting, AckFrame, Disconnected, Connected,
       ReadyFrame, Message

LEMMA MovedGapless ==
    ASSUME NEW B, NEW C, NEW h, Moved(B, C, h), Gapless(B)
    PROVE  Gapless(C)
<1> SUFFICES ASSUME NEW p \in Places, NEW q \in Places, p < q,
                    IsMessage(C[p]), IsMessage(C[q])
             PROVE  /\ C[p].n < C[q].n
                    /\ \/ C[q].n = C[p].n + 1
                       \/ \E k \in Places : p < k /\ k < q /\ Relevant(C[k])
  BY DEF Gapless
<1>1. Relevant(C[p]) /\ Relevant(C[q])
  BY DEF Relevant
<1>2. /\ h[p] \in Places /\ h[q] \in Places /\ h[p] < h[q]
      /\ IsMessage(B[h[p]]) /\ IsMessage(B[h[q]])
      /\ C[p].n = B[h[p]].n /\ C[q].n = B[h[q]].n
  BY <1>1 DEF Moved
<1>3. /\ B[h[p]].n < B[h[q]].n
      /\ \/ B[h[q]].n = B[h[p]].n + 1
         \/ \E k \in Places : h[p] < k /\ k < h[q] /\ Relevant(B[k])
  BY <1>2 DEF Gapless
<1>4. ASSUME NEW k \in Places, h[p] < k, k < h[q], Relevant(B[k])
      PROVE  \E r \in Places : p < r /\ r < q /\ Relevant(C[r])
  BY <1>4 DEF Moved
<1>5. QED
  BY <1>2, <1>3, <1>4

LEMMA MovedHeard ==
    ASSUME NEW B, NEW C, NEW h, Moved(B, C, h), NEW last, Heard(B, last)
    PROVE  Heard(C, last)
BY DEF Moved, Heard, Relevant

LEMMA MovedLatest ==
    ASSUME NEW B, NEW C, NEW h, Moved(B, C, h), Whole(B, C, h)
    PROVE  /\ EndsInMark(B) => EndsInMark(C)
           /\ \A last : UpToDate(B, last) => UpToDate(C, last)
<1>1. ASSUME NEW k \in Places, LatestAt(B, k)
      PROVE  \E p \in Places : /\ LatestAt(C, p)
                               /\ IsMark(B[k]) => IsMark(C[p])
                               /\ ~IsMark(B[k]) => C[p].n = B[k].n
  <2>1. PICK p \in Places : Relevant(C[p]) /\ k <= h[p]
    BY <1>1 DEF Whole, LatestAt
  <2>2. h[p] \in Places /\ Relevant(B[h[p]])
    BY <2>1 DEF Moved
  <2>3. ~(k < h[p])
    BY <1>1, <2>2 DEF LatestAt
  <2>4. h[p] = k
    BY <2>1, <2>2, <2>3, PlaceTypes
  <2>5. \A q \in Places : p < q => ~Relevant(C[q])
    <3>1. ASSUME NEW q \in Places, p < q, Relevant(C[q]) PROVE FALSE
      <4>1. h[q] \in Places /\ Relevant(B[h[q]]) /\ k < h[q]
        BY <2>1, <2>4, <3>1 DEF Moved
      <4>2. QED
        BY <1>1, <4>1 DEF LatestAt
    <3>2. QED
      BY <3>1
  <2>6. /\ IsMessage(C[p]) <=> IsMessage(B[k])
        /\ IsMessage(C[p]) => C[p].n = B[k].n
    BY <2>1, <2>4 DEF Moved
  <2>7. IsMark(C[p]) <=> IsMark(B[k])
    BY <2>1, <2>2, <2>4, <2>6 DEF Relevant, IsMessage, IsMark
  <2>8. ~IsMark(B[k]) => IsMessage(B[k])
    BY <1>1 DEF LatestAt, Relevant
  <2>9. QED
    BY <2>1, <2>5, <2>6, <2>7, <2>8 DEF LatestAt
<1>2. QED
  BY <1>1 DEF EndsInMark, UpToDate

(* The places of a belt. *)
LEMMA BeltPlaces ==
    ASSUME NEW seen, NEW told, NEW queue, NEW hand, NEW wire
    PROVE  LET B == Belt(seen, told, queue, hand, wire) IN
           /\ B[0] = Message(seen)
           /\ B[1] = told
           /\ \A i \in 1..Cap : B[i + 1] = Slot(queue, i)
           /\ B[Cap + 2] = hand
           /\ \A i \in 1..WireCap : B[i + (Cap + 2)] = Slot(wire, i)
<1>1. /\ 0 \in Places /\ 1 \in Places /\ Cap + 2 \in Places
      /\ \A i \in 1..Cap : i + 1 \in Places
      /\ \A i \in 1..WireCap : i + (Cap + 2) \in Places
  BY PlaceTypes
<1>2. /\ Cap + 2 # 0 /\ Cap + 2 # 1 /\ ~(Cap + 2 <= Cap + 1)
  BY PlaceTypes
<1>3. \A i \in 1..Cap : i + 1 # 0 /\ i + 1 # 1 /\ i + 1 <= Cap + 1 /\ (i + 1) - 1 = i
  BY PlaceTypes
<1>4. \A i \in 1..WireCap :
          /\ i + (Cap + 2) # 0 /\ i + (Cap + 2) # 1 /\ ~(i + (Cap + 2) <= Cap + 1)
          /\ i + (Cap + 2) # Cap + 2 /\ (i + (Cap + 2)) - (Cap + 2) = i
  BY PlaceTypes
<1> DEFINE B == Belt(seen, told, queue, hand, wire)
<1>5. \A p \in Places : B[p] = IF p = 0 THEN Message(seen)
                              ELSE IF p = 1 THEN told
                              ELSE IF p <= Cap + 1 THEN Slot(queue, p - 1)
                              ELSE IF p = Cap + 2 THEN hand
                              ELSE Slot(wire, p - (Cap + 2))
  BY DEF Belt
<1> HIDE DEF B
<1>6. B[0] = Message(seen) /\ B[1] = told /\ B[Cap + 2] = hand
  BY <1>1, <1>2, <1>5, PlaceTypes
<1>7. \A i \in 1..Cap : B[i + 1] = Slot(queue, i)
  <2>1. ASSUME NEW i \in 1..Cap PROVE B[i + 1] = Slot(queue, i)
    <3>1. B[i + 1] = Slot(queue, (i + 1) - 1)
      BY <1>1, <1>3, <1>5
    <3>2. QED
      BY <1>3, <3>1
  <2>2. QED
    BY <2>1
<1>8. \A i \in 1..WireCap : B[i + (Cap + 2)] = Slot(wire, i)
  <2>1. ASSUME NEW i \in 1..WireCap PROVE B[i + (Cap + 2)] = Slot(wire, i)
    <3>1. B[i + (Cap + 2)] = Slot(wire, (i + (Cap + 2)) - (Cap + 2))
      BY <1>1, <1>4, <1>5
    <3>2. QED
      BY <1>4, <3>1
  <2>2. QED
    BY <2>1
<1>9. QED
  BY <1>6, <1>7, <1>8 DEF B

LEMMA PlaceKinds ==
    ASSUME NEW p \in Places
    PROVE  \/ p = 0 \/ p = 1 \/ p = Cap + 2
           \/ \E i \in 1..Cap : p = i + 1
           \/ \E i \in 1..WireCap : p = i + (Cap + 2)
<1>1. CASE p \in 2..(Cap + 1)
  <2>1. p - 1 \in 1..Cap /\ p = (p - 1) + 1
    BY <1>1, PlaceTypes
  <2>2. QED
    BY <2>1
<1>2. CASE p > Cap + 2
  <2>1. p - (Cap + 2) \in 1..WireCap /\ p = (p - (Cap + 2)) + (Cap + 2)
    BY <1>2, PlaceTypes
  <2>2. QED
    BY <2>1
<1>3. QED
  BY <1>1, <1>2, PlaceTypes

(* Frames dropped from the end, and irrelevant ones put anywhere. *)
LEMMA SamePlaces ==
    ASSUME NEW B, NEW C,
           \A p \in Places : C[p] = B[p] \/ ~Relevant(C[p]),
           \A p, q \in Places : p < q /\ Relevant(B[p]) /\ Relevant(C[q]) => Relevant(C[p])
    PROVE  /\ Moved(B, C, [p \in Places |-> p])
           /\ (\A p \in Places : Relevant(B[p]) => Relevant(C[p]))
                  => Whole(B, C, [p \in Places |-> p])
<1> DEFINE h == [p \in Places |-> p]
<1>1. h \in [Places -> Places] /\ \A p \in Places : h[p] = p
  OBVIOUS
<1> HIDE DEF h
<1>2. \A p \in Places : p <= p
  BY PlaceTypes
<1>3. Moved(B, C, h)
  BY <1>1 DEF Moved, Relevant
<1>4. (\A p \in Places : Relevant(B[p]) => Relevant(C[p])) => Whole(B, C, h)
  BY <1>1, <1>2 DEF Whole
<1>5. QED
  BY <1>3, <1>4 DEF h
LEMMA Slots ==
    ASSUME NEW S, NEW s \in Seq(S), NEW i \in Nat, i > 0
    PROVE  /\ \A f \in S : Slot(Append(s, f), i) = IF i = Len(s) + 1 THEN f ELSE Slot(s, i)
           /\ s # <<>> => Slot(Tail(s), i) = Slot(s, i + 1)
           /\ \A k \in 0..Len(s) : Slot(SubSeq(s, 1, k), i) = IF i <= k THEN Slot(s, i) ELSE Nothing
           /\ Slot(<<>>, i) = Nothing
           /\ i > Len(s) => Slot(s, i) = Nothing
<1>1. ASSUME NEW f \in S PROVE Slot(Append(s, f), i) = IF i = Len(s) + 1 THEN f ELSE Slot(s, i)
  BY DEF Slot
<1>2. ASSUME s # <<>> PROVE Slot(Tail(s), i) = Slot(s, i + 1)
  BY <1>2 DEF Slot
<1>3. ASSUME NEW k \in 0..Len(s)
      PROVE  Slot(SubSeq(s, 1, k), i) = IF i <= k THEN Slot(s, i) ELSE Nothing
  BY DEF Slot
<1>4. Slot(<<>>, i) = Nothing /\ (i > Len(s) => Slot(s, i) = Nothing)
  BY DEF Slot
<1>5. QED
  BY <1>1, <1>2, <1>3, <1>4

(* An irrelevant event put on the channel. *)
LEMMA BeltQueued ==
    ASSUME NEW seen, NEW told, NEW hand, NEW wire, NEW S, NEW queue \in Seq(S),
           NEW e \in S, ~Relevant(e), Len(queue) < Cap
    PROVE  LET B == Belt(seen, told, queue, hand, wire)
               C == Belt(seen, told, Append(queue, e), hand, wire)
           IN  \E h : Moved(B, C, h) /\ Whole(B, C, h)
<1> DEFINE B == Belt(seen, told, queue, hand, wire)
           C == Belt(seen, told, Append(queue, e), hand, wire)
<1>1. \A i \in 1..Cap : /\ C[i + 1] = IF i = Len(queue) + 1 THEN e ELSE B[i + 1]
                        /\ i = Len(queue) + 1 => B[i + 1] = Nothing
  <2>1. \A i \in 1..Cap : i \in Nat /\ i > 0
    BY PlaceTypes
  <2>2. \A i \in 1..Cap : /\ Slot(Append(queue, e), i) = IF i = Len(queue) + 1 THEN e
                                                         ELSE Slot(queue, i)
                          /\ i = Len(queue) + 1 => Slot(queue, i) = Nothing
    BY <2>1, Slots
  <2>3. QED
    BY <2>2, BeltPlaces
<1>2. /\ C[0] = B[0] /\ C[1] = B[1] /\ C[Cap + 2] = B[Cap + 2]
      /\ \A i \in 1..WireCap : C[i + (Cap + 2)] = B[i + (Cap + 2)]
  BY BeltPlaces
<1> HIDE DEF B, C
<1>3. \A p \in Places : C[p] = B[p] \/ (~Relevant(C[p]) /\ ~Relevant(B[p]))
  BY <1>1, <1>2, PlaceKinds, FrameKinds
<1>4. QED
  BY <1>3, SamePlaces DEF B, C

(* What the session holds put on the channel. *)
LEMMA BeltEmitted ==
    ASSUME NEW seen, NEW told, NEW wire, NEW S, NEW queue \in Seq(S), NEW hand \in S,
           Len(queue) < Cap
    PROVE  LET B == Belt(seen, told, queue, hand, wire)
               C == Belt(seen, told, Append(queue, hand), Nothing, wire)
           IN  \E h : Moved(B, C, h) /\ Whole(B, C, h)
<1> DEFINE B == Belt(seen, told, queue, hand, wire)
           C == Belt(seen, told, Append(queue, hand), Nothing, wire)
           a == Len(queue) + 2
           b == Cap + 2
           h == [p \in Places |-> IF p = a THEN b ELSE p]
<1>1. a \in Nat /\ b \in Places /\ a \in Places /\ a < b /\ a > 1 /\ Len(queue) \in Nat
  BY PlaceTypes
<1>2. \A i \in 1..Cap : /\ C[i + 1] = IF i = Len(queue) + 1 THEN hand ELSE B[i + 1]
                        /\ i > Len(queue) => B[i + 1] = Nothing
  <2>1. \A i \in 1..Cap : i \in Nat /\ i > 0
    BY PlaceTypes
  <2>2. \A i \in 1..Cap : /\ Slot(Append(queue, hand), i) = IF i = Len(queue) + 1 THEN hand
                                                            ELSE Slot(queue, i)
                          /\ i > Len(queue) => Slot(queue, i) = Nothing
    BY <2>1, Slots
  <2>3. QED
    BY <2>2, BeltPlaces
<1>3. /\ C[0] = B[0] /\ C[1] = B[1] /\ C[b] = Nothing /\ B[b] = hand
      /\ \A i \in 1..WireCap : C[i + (Cap + 2)] = B[i + (Cap + 2)]
  BY BeltPlaces
<1>4. C[a] = hand
  <2>1. Len(queue) + 1 \in 1..Cap /\ a = (Len(queue) + 1) + 1
    BY PlaceTypes
  <2>2. QED
    BY <1>2, <2>1
<1> HIDE DEF B, C
<1>5. \A p \in Places : p # a /\ p # b => C[p] = B[p]
  <2>1. ASSUME NEW i \in 1..Cap, i + 1 # a PROVE C[i + 1] = B[i + 1]
    <3>1. i # Len(queue) + 1
      BY <2>1, <1>1
    <3>2. QED
      BY <1>2, <3>1
  <2>2. QED
    BY <1>3, <2>1, PlaceKinds
<1>6. \A p \in Places : a <= p /\ p < b => B[p] = Nothing
  <2>1. ASSUME NEW i \in 1..Cap, a <= i + 1 PROVE B[i + 1] = Nothing
    <3>1. i > Len(queue)
      BY <2>1, <1>1, PlaceTypes
    <3>2. QED
      BY <1>2, <3>1
  <2>2. \A i \in 1..WireCap : ~(i + (Cap + 2) < b)
    BY PlaceTypes
  <2>3. ASSUME NEW p \in Places, a <= p, p < b PROVE B[p] = Nothing
    <3>1. p # 0 /\ p # 1 /\ p # Cap + 2
      BY <1>1, <2>3, PlaceTypes
    <3>2. PICK i \in 1..Cap : p = i + 1
      BY <2>2, <2>3, <3>1, PlaceKinds
    <3>3. QED
      BY <2>1, <2>3, <3>2
  <2>4. QED
    BY <2>3
<1>7. h \in [Places -> Places] /\ \A p \in Places : h[p] = IF p = a THEN b ELSE p
  BY <1>1
<1> HIDE DEF a, b, h
<1>8. \A p \in Places : Relevant(C[p]) => C[p] = B[h[p]] /\ p # b
  BY <1>1, <1>3, <1>4, <1>5, <1>7, FrameKinds
<1>9. \A p \in Places : a < p /\ p <= b => C[p] = Nothing
  <2>1. ASSUME NEW p \in Places, a < p, p <= b PROVE C[p] = Nothing
    <3>1. CASE p = b
      BY <1>3, <3>1
    <3>2. CASE p # b
      <4>1. a <= p /\ p < b /\ p # a
        BY <1>1, <2>1, <3>2, PlaceTypes
      <4>2. QED
        BY <1>5, <1>6, <3>2, <4>1
    <3>3. QED
      BY <3>1, <3>2
  <2>2. QED
    BY <2>1
<1>10. \A p, q \in Places : p < q /\ Relevant(C[p]) /\ Relevant(C[q]) => h[p] < h[q]
  BY <1>1, <1>7, <1>9, PlaceTypes, FrameKinds
<1>11. \A k \in Places : Relevant(B[k]) => \E r \in Places : C[r] = B[k] /\ h[r] = k
  <2>1. ASSUME NEW k \in Places, Relevant(B[k]), k # b PROVE C[k] = B[k] /\ h[k] = k
    BY <1>1, <1>5, <1>6, <1>7, <2>1, PlaceTypes, FrameKinds
  <2>2. C[a] = B[b] /\ h[a] = b
    BY <1>1, <1>3, <1>4, <1>7
  <2>3. QED
    BY <1>1, <2>1, <2>2
<1>12. \A p, r \in Places : h[p] < h[r] /\ Relevant(C[p]) /\ Relevant(C[r]) => p < r
  BY <1>1, <1>7, <1>8, <1>10, PlaceTypes
<1>13. Moved(B, C, h)
  BY <1>7, <1>8, <1>10, <1>11, <1>12 DEF Moved, Relevant
<1>14. Whole(B, C, h)
  BY <1>11, PlaceTypes DEF Whole
<1>15. QED
  BY <1>13, <1>14 DEF B, C
(* Every relevant frame of B is one of C, or what C has in its place is a
   mark or the first of all. *)
LEMMA Covering ==
    ASSUME NEW B, NEW C, NEW h \in [Places -> Places],
           \A p \in Places : Relevant(C[p]) =>
               /\ Relevant(B[h[p]])
               /\ IsMessage(C[p]) <=> IsMessage(B[h[p]])
               /\ IsMessage(C[p]) => C[p].n = B[h[p]].n,
           \A p, q \in Places : p < q /\ Relevant(C[p]) /\ Relevant(C[q]) => h[p] < h[q],
           \A k \in Places : Relevant(B[k]) => \E r \in Places :
               /\ Relevant(C[r]) /\ k <= h[r]
               /\ \/ h[r] = k
                  \/ /\ IsMark(C[r]) \/ \A p \in Places : r <= p
                     /\ \A p \in Places : p < r /\ Relevant(C[p]) => h[p] < k
    PROVE  Moved(B, C, h) /\ Whole(B, C, h)
<1>1. Whole(B, C, h)
  BY DEF Whole
<1>2. \A p \in Places : p \in Nat /\ h[p] \in Places /\ h[p] \in Nat
  BY PlaceTypes
<1>3. \A p, q \in Places : Relevant(C[p]) /\ Relevant(C[q]) /\ h[p] < h[q] => p < q
  <2>1. ASSUME NEW p \in Places, NEW q \in Places, Relevant(C[p]), Relevant(C[q]), h[p] < h[q],
               ~(p < q)
        PROVE  FALSE
    <3>1. p = q \/ q < p
      BY <1>2, <2>1
    <3>2. CASE p = q
      BY <1>2, <2>1, <3>2
    <3>3. CASE q < p
      <4>1. h[q] < h[p]
        BY <2>1, <3>3
      <4>2. QED
        BY <1>2, <2>1, <4>1
    <3>4. QED
      BY <3>1, <3>2, <3>3
  <2>2. QED
    BY <2>1
<1>4. ASSUME NEW p \in Places, NEW q \in Places, NEW k \in Places, p < q,
             IsMessage(C[p]), IsMessage(C[q]), h[p] < k, k < h[q], Relevant(B[k])
      PROVE  \E r \in Places : p < r /\ r < q /\ Relevant(C[r])
  <2>1. Relevant(C[p]) /\ Relevant(C[q])
    BY <1>4 DEF Relevant
  <2>2. PICK r \in Places :
               /\ Relevant(C[r]) /\ k <= h[r]
               /\ \/ h[r] = k
                  \/ /\ IsMark(C[r]) \/ \A o \in Places : r <= o
                     /\ \A o \in Places : o < r /\ Relevant(C[o]) => h[o] < k
    BY <1>4
  <2>3. k \in Nat /\ h[p] < h[r]
    BY <1>2, <1>4, <2>2, PlaceTypes
  <2>4. p < r
    BY <1>3, <2>1, <2>2, <2>3
  <2>5. CASE h[r] = k
    BY <1>3, <1>4, <2>1, <2>2, <2>4, <2>5
  <2>6. CASE h[r] # k
    <3>1. ~(r <= p)
      BY <1>2, <2>4
    <3>2. IsMark(C[r]) /\ \A o \in Places : o < r /\ Relevant(C[o]) => h[o] < k
      BY <2>2, <2>6, <3>1
    <3>3. q # r
      BY <1>4, <3>2 DEF IsMark, IsMessage
    <3>4. ~(q < r)
      <4>1. ~(h[q] < k)
        BY <1>2, <1>4, <2>3
      <4>2. QED
        BY <2>1, <3>2, <4>1
    <3>5. r < q
      BY <1>2, <3>3, <3>4
    <3>6. QED
      BY <2>2, <2>4, <3>5
  <2>7. QED
    BY <2>5, <2>6
<1>5. QED
  BY <1>1, <1>4 DEF Moved

(* The UI reads the channel. *)
LEMMA BeltConsumed ==
    ASSUME NEW seen, NEW told, NEW hand, NEW wire, NEW S, NEW queue \in Seq(S),
           queue # <<>>, Len(queue) <= Cap, NEW e, e = Head(queue),
           NEW seen2, NEW told2,
           IsMessage(e) => e.n = seen2 /\ told2 = Nothing,
           ~IsMessage(e) => seen2 = seen /\ told2 = IF IsMark(e) THEN Connected ELSE told
    PROVE  LET B == Belt(seen, told, queue, hand, wire)
               C == Belt(seen2, told2, Tail(queue), hand, wire)
           IN  \E h : Moved(B, C, h) /\ Whole(B, C, h)
<1> DEFINE B == Belt(seen, told, queue, hand, wire)
           C == Belt(seen2, told2, Tail(queue), hand, wire)
           h == [p \in Places |-> IF p = 0 THEN IF IsMessage(e) THEN 2 ELSE 0
                                  ELSE IF p = 1 THEN IF IsMark(e) THEN 2 ELSE 1
                                  ELSE IF p <= Cap THEN p + 1 ELSE p]
<1>1. /\ 0 \in Places /\ 1 \in Places /\ 2 \in Places
      /\ \A p \in Places : p <= Cap => p + 1 \in Places
  BY PlaceTypes
<1>2. B[2] = e
  <2>1. 1 \in 1..Cap /\ 1 + 1 = 2 /\ Slot(queue, 1) = e
    BY PlaceTypes DEF Slot
  <2>2. B[1 + 1] = Slot(queue, 1)
    BY <2>1, BeltPlaces
  <2>3. QED
    BY <2>1, <2>2
<1>3. \A i \in 1..Cap : C[i + 1] = IF i < Cap THEN B[(i + 1) + 1] ELSE Nothing
  <2>1. ASSUME NEW i \in 1..Cap PROVE C[i + 1] = IF i < Cap THEN B[(i + 1) + 1] ELSE Nothing
    <3>1. i \in Nat /\ i > 0 /\ i + 1 \in Nat /\ i + 1 > 0
      BY PlaceTypes
    <3>2. C[i + 1] = Slot(Tail(queue), i)
      BY BeltPlaces
    <3>3. Slot(Tail(queue), i) = Slot(queue, i + 1)
      BY <3>1, Slots
    <3>4. CASE i < Cap
      <4>1. i + 1 \in 1..Cap
        BY <3>1, <3>4, PlaceTypes
      <4>2. B[(i + 1) + 1] = Slot(queue, i + 1)
        BY <4>1, BeltPlaces
      <4>3. QED
        BY <3>2, <3>3, <3>4, <4>2
    <3>5. CASE ~(i < Cap)
      <4>1. i + 1 > Len(queue)
        BY <3>1, <3>5, PlaceTypes
      <4>2. Slot(queue, i + 1) = Nothing
        BY <3>1, <4>1, Slots
      <4>3. QED
        BY <3>2, <3>3, <3>5, <4>2
    <3>6. QED
      BY <3>4, <3>5
  <2>2. QED
    BY <2>1
<1>4. /\ C[0] = Message(seen2) /\ C[1] = told2 /\ B[0] = Message(seen) /\ B[1] = told
      /\ C[Cap + 2] = B[Cap + 2]
      /\ \A i \in 1..WireCap : C[i + (Cap + 2)] = B[i + (Cap + 2)]
  BY BeltPlaces
<1> HIDE DEF B, C
<1>5. \A p \in Places : /\ 1 < p /\ p <= Cap => C[p] = B[p + 1]
                        /\ p = Cap + 1 => C[p] = Nothing
                        /\ p > Cap + 1 => C[p] = B[p]
  <2>1. ASSUME NEW i \in 1..Cap
        PROVE  /\ i + 1 <= Cap => C[i + 1] = B[(i + 1) + 1]
               /\ i + 1 = Cap + 1 => C[i + 1] = Nothing
               /\ ~(i + 1 > Cap + 1)
    BY <1>3, PlaceTypes
  <2>2. \A i \in 1..WireCap : i + (Cap + 2) > Cap + 1
    BY PlaceTypes
  <2>3. ASSUME NEW p \in Places, p > Cap + 1 PROVE C[p] = B[p]
    <3>1. p # 0 /\ p # 1 /\ ~(\E i \in 1..Cap : p = i + 1)
      BY <2>3, PlaceTypes
    <3>2. QED
      BY <1>4, <3>1, PlaceKinds
  <2>4. ASSUME NEW p \in Places, 1 < p, p <= Cap + 1
        PROVE  p <= Cap => C[p] = B[p + 1]
    <3>1. p - 1 \in 1..Cap /\ p = (p - 1) + 1
      BY <2>4, PlaceTypes
    <3>2. PICK i \in 1..Cap : p = i + 1
      BY <3>1
    <3>3. QED
      BY <2>1, <3>2
  <2>5. C[Cap + 1] = Nothing
    <3>1. Cap \in 1..Cap
      BY PlaceTypes
    <3>2. QED
      BY <2>1, <3>1
  <2>6. QED
    BY <2>3, <2>4, <2>5, PlaceTypes
<1>6. /\ h \in [Places -> Places]
      /\ h[0] = IF IsMessage(e) THEN 2 ELSE 0
      /\ h[1] = IF IsMark(e) THEN 2 ELSE 1
      /\ \A p \in Places : 1 < p => h[p] = IF p <= Cap THEN p + 1 ELSE p
  BY <1>1, PlaceTypes
<1> HIDE DEF h
<1>7. ~(IsMessage(e) /\ IsMark(e)) /\ (Relevant(e) <=> IsMessage(e) \/ IsMark(e))
  BY DEF IsMessage, IsMark, Relevant
<1>8. ASSUME NEW p \in Places, Relevant(C[p])
      PROVE  /\ Relevant(B[h[p]])
             /\ IsMessage(C[p]) <=> IsMessage(B[h[p]])
             /\ IsMessage(C[p]) => C[p].n = B[h[p]].n
             /\ p # Cap + 1
             /\ p = 1 => ~IsMessage(e)
  <2>1. p # Cap + 1
    BY <1>5, <1>8, FrameKinds
  <2>2. CASE p = 0
    <3>1. CASE IsMessage(e)
      BY <1>2, <1>4, <1>6, <1>7, <2>1, <2>2, <3>1, FrameKinds
    <3>2. CASE ~IsMessage(e)
      BY <1>4, <1>6, <1>8, <2>1, <2>2, <3>2
    <3>3. QED
      BY <3>1, <3>2
  <2>3. CASE p = 1
    <3>1. ~IsMessage(e)
      BY <1>4, <1>8, <2>3, FrameKinds
    <3>2. QED
      BY <1>2, <1>4, <1>6, <1>7, <1>8, <2>1, <2>3, <3>1, FrameKinds
  <2>4. CASE 1 < p
    <3>1. B[h[p]] = C[p]
      BY <1>5, <1>6, <2>1, <2>4, PlaceTypes
    <3>2. p # 1
      BY <2>4, PlaceTypes
    <3>3. QED
      BY <1>8, <2>1, <3>1, <3>2
  <2>5. QED
    BY <2>2, <2>3, <2>4, PlaceTypes
<1>9. ASSUME NEW p \in Places, NEW q \in Places, p < q, Relevant(C[p]), Relevant(C[q])
      PROVE  h[p] < h[q]
  <2>1. p # Cap + 1 /\ q # Cap + 1 /\ (q = 1 => ~IsMessage(e)) /\ p \in Nat /\ q \in Nat
    BY <1>8, <1>9, PlaceTypes
  <2>2. CASE p = 0 /\ q = 1
    BY <1>6, <2>1, <2>2
  <2>3. CASE p <= 1 /\ 1 < q
    <3>1. h[p] <= 2 /\ h[p] \in Nat
      BY <1>6, <2>1, <2>3
    <3>2. h[q] >= 3 /\ h[q] \in Nat
      BY <1>6, <2>1, <2>3, PlaceTypes
    <3>3. QED
      BY <3>1, <3>2
  <2>4. CASE 1 < p
    BY <1>6, <1>9, <2>1, <2>4, PlaceTypes
  <2>5. QED
    BY <1>9, <2>1, <2>2, <2>3, <2>4
<1>10. ASSUME NEW k \in Places, Relevant(B[k])
       PROVE  \E r \in Places :
                /\ Relevant(C[r]) /\ k <= h[r]
                /\ \/ h[r] = k
                   \/ /\ IsMark(C[r]) \/ \A p \in Places : r <= p
                      /\ \A p \in Places : p < r /\ Relevant(C[p]) => h[p] < k
  <2>1. k \in Nat /\ \A p \in Places : p \in Nat /\ 0 <= p /\ ~(p < 0)
    BY PlaceTypes
  <2>2. Relevant(C[0])
    BY <1>4, FrameKinds DEF Relevant
  <2>3. CASE k > 2 /\ k <= Cap + 1
    <3>1. k - 1 \in Places /\ 1 < k - 1 /\ k - 1 <= Cap /\ (k - 1) + 1 = k
      BY <2>3, <2>1, PlaceTypes
    <3>2. C[k - 1] = B[k] /\ h[k - 1] = k
      BY <1>5, <1>6, <3>1
    <3>3. QED
      BY <1>10, <2>1, <3>1, <3>2
  <2>4. CASE k > Cap + 1
    <3>1. C[k] = B[k] /\ h[k] = k
      BY <1>5, <1>6, <2>4, <2>1, PlaceTypes
    <3>2. QED
      BY <1>10, <2>1, <3>1
  <2>5. CASE k <= 2 /\ IsMessage(e)
    <3>1. h[0] = 2
      BY <1>6, <2>5
    <3>2. QED
      BY <1>1, <2>1, <2>2, <2>5, <3>1
  <2>6. CASE k = 0 /\ ~IsMessage(e)
    BY <1>1, <1>6, <2>1, <2>2, <2>6
  <2>7. CASE (k = 1 \/ k = 2) /\ IsMark(e)
    <3>1. C[1] = Connected /\ h[1] = 2 /\ h[0] = 0
      BY <1>4, <1>6, <1>7, <2>7
    <3>2. Relevant(C[1]) /\ IsMark(C[1])
      BY <3>1, FrameKinds DEF Relevant
    <3>3. \A p \in Places : p < 1 => h[p] < k
      BY <2>1, <2>7, <3>1
    <3>4. k <= h[1]
      BY <2>7, <3>1
    <3>5. QED
      BY <1>1, <3>2, <3>3, <3>4
  <2>8. CASE k = 1 /\ ~IsMark(e) /\ ~IsMessage(e)
    BY <1>1, <1>4, <1>6, <1>10, <2>1, <2>8
  <2>9. CASE k = 2 /\ ~IsMark(e) /\ ~IsMessage(e)
    BY <1>2, <1>7, <1>10, <2>9
  <2>10. k > 2 \/ k = 0 \/ k = 1 \/ k = 2
    BY <2>1
  <2>11. QED
    BY <2>1, <2>3, <2>4, <2>5, <2>6, <2>7, <2>8, <2>9, <2>10, PlaceTypes
<1>11. Moved(B, C, h) /\ Whole(B, C, h)
  BY <1>6, <1>8, <1>9, <1>10, Covering
<1>12. QED
  BY <1>11 DEF B, C
(* The session reads the wire: what it then holds is the frame, or nothing
   relevant if the frame was not. *)
LEMMA BeltRead ==
    ASSUME NEW seen, NEW told, NEW queue, NEW hand, NEW S, NEW wire \in Seq(S),
           wire # <<>>, Len(wire) <= WireCap, NEW f, f = Head(wire),
           Relevant(hand) <=> Relevant(f), IsMessage(hand) <=> IsMessage(f),
           IsMessage(f) => hand.n = f.n
    PROVE  LET B == Belt(seen, told, queue, Nothing, wire)
               C == Belt(seen, told, queue, hand, Tail(wire))
           IN  \E h : Moved(B, C, h) /\ Whole(B, C, h)
<1> DEFINE B == Belt(seen, told, queue, Nothing, wire)
           C == Belt(seen, told, queue, hand, Tail(wire))
           a == Cap + 2
           z == Cap + WireCap + 2
           h == [p \in Places |-> IF a <= p /\ p < z THEN p + 1 ELSE p]
<1>1. /\ a \in Places /\ a \in Nat /\ a > 1 /\ z \in Places /\ a < z
      /\ \A p \in Places : p < z => p + 1 \in Places
  BY PlaceTypes
<1>2. B[a + 1] = f
  <2>1. 1 \in 1..WireCap /\ 1 + (Cap + 2) = a + 1 /\ Slot(wire, 1) = f
    BY PlaceTypes DEF Slot
  <2>2. B[1 + (Cap + 2)] = Slot(wire, 1)
    BY <2>1, BeltPlaces
  <2>3. QED
    BY <2>1, <2>2
<1>3. /\ C[0] = B[0] /\ C[1] = B[1] /\ C[a] = hand /\ B[a] = Nothing
      /\ \A i \in 1..Cap : C[i + 1] = B[i + 1]
  BY BeltPlaces
<1>4. \A i \in 1..WireCap :
          C[i + (Cap + 2)] = IF i < WireCap THEN B[(i + 1) + (Cap + 2)] ELSE Nothing
  <2>1. ASSUME NEW i \in 1..WireCap
        PROVE  C[i + (Cap + 2)] = IF i < WireCap THEN B[(i + 1) + (Cap + 2)] ELSE Nothing
    <3>1. i \in Nat /\ i > 0 /\ i + 1 \in Nat /\ i + 1 > 0
      BY PlaceTypes
    <3>2. C[i + (Cap + 2)] = Slot(Tail(wire), i)
      BY BeltPlaces
    <3>3. Slot(Tail(wire), i) = Slot(wire, i + 1)
      BY <3>1, Slots
    <3>4. CASE i < WireCap
      <4>1. i + 1 \in 1..WireCap
        BY <3>1, <3>4, PlaceTypes
      <4>2. B[(i + 1) + (Cap + 2)] = Slot(wire, i + 1)
        BY <4>1, BeltPlaces
      <4>3. QED
        BY <3>2, <3>3, <3>4, <4>2
    <3>5. CASE ~(i < WireCap)
      <4>1. i + 1 > Len(wire)
        BY <3>1, <3>5, PlaceTypes
      <4>2. Slot(wire, i + 1) = Nothing
        BY <3>1, <4>1, Slots
      <4>3. QED
        BY <3>2, <3>3, <3>5, <4>2
    <3>6. QED
      BY <3>4, <3>5
  <2>2. QED
    BY <2>1
<1> HIDE DEF B, C
<1>5. \A p \in Places : /\ p < a => C[p] = B[p]
                        /\ a < p /\ p < z => C[p] = B[p + 1]
                        /\ p = z => C[p] = Nothing
  <2>1. ASSUME NEW p \in Places, p < a PROVE C[p] = B[p]
    <3>1. p # a /\ ~(\E i \in 1..WireCap : p = i + (Cap + 2))
      BY <2>1, PlaceTypes
    <3>2. QED
      BY <1>3, <3>1, PlaceKinds
  <2>2. ASSUME NEW p \in Places, a < p
        PROVE  (p < z => C[p] = B[p + 1]) /\ (p = z => C[p] = Nothing)
    <3>1. PICK i \in 1..WireCap : p = i + (Cap + 2)
      <4>1. p - (Cap + 2) \in 1..WireCap /\ p = (p - (Cap + 2)) + (Cap + 2)
        BY <2>2, PlaceTypes
      <4>2. QED
        BY <4>1
    <3>2. (i + 1) + (Cap + 2) = p + 1 /\ (p < z <=> i < WireCap) /\ (p = z => ~(i < WireCap))
      BY <3>1, PlaceTypes
    <3>3. C[p] = IF i < WireCap THEN B[(i + 1) + (Cap + 2)] ELSE Nothing
      BY <1>4, <3>1
    <3>4. QED
      BY <3>2, <3>3
  <2>3. QED
    BY <1>1, <2>1, <2>2
<1>6. h \in [Places -> Places]
      /\ \A p \in Places : h[p] = IF a <= p /\ p < z THEN p + 1 ELSE p
  BY <1>1
<1> HIDE DEF h
<1>7. \A p \in Places : p \in Nat /\ p <= z
  BY PlaceTypes
<1> HIDE DEF a, z
<1>8. ASSUME NEW p \in Places, Relevant(C[p])
      PROVE  /\ Relevant(B[h[p]])
             /\ IsMessage(C[p]) <=> IsMessage(B[h[p]])
             /\ IsMessage(C[p]) => C[p].n = B[h[p]].n
             /\ p # z
  <2>1. p # z
    BY <1>5, <1>8, FrameKinds
  <2>2. CASE p = a
    BY <1>1, <1>2, <1>3, <1>6, <1>7, <1>8, <2>1, <2>2
  <2>3. CASE p < a
    <3>1. h[p] = p /\ C[p] = B[p]
      BY <1>1, <1>5, <1>6, <1>7, <2>3
    <3>2. QED
      BY <1>8, <2>1, <3>1
  <2>4. CASE a < p
    <3>1. p < z /\ a <= p
      BY <1>1, <1>7, <2>1, <2>4
    <3>2. h[p] = p + 1 /\ C[p] = B[p + 1]
      BY <1>5, <1>6, <2>4, <3>1
    <3>3. QED
      BY <1>8, <2>1, <3>2
  <2>5. QED
    BY <1>1, <1>7, <2>2, <2>3, <2>4
<1>9. ASSUME NEW p \in Places, NEW q \in Places, p < q, Relevant(C[p]), Relevant(C[q])
      PROVE  h[p] < h[q]
  <2>1. p # z /\ q # z
    BY <1>8, <1>9
  <2>2. QED
    BY <1>1, <1>6, <1>7, <1>9, <2>1
<1>10. ASSUME NEW k \in Places, Relevant(B[k])
       PROVE  \E r \in Places : Relevant(C[r]) /\ h[r] = k
  <2>1. k # a
    BY <1>3, <1>10, FrameKinds
  <2>2. CASE k < a
    <3>1. h[k] = k /\ C[k] = B[k]
      BY <1>1, <1>5, <1>6, <1>7, <2>2
    <3>2. QED
      BY <1>10, <3>1
  <2>3. CASE k = a + 1
    <3>1. h[a] = k
      BY <1>1, <1>6, <1>7, <2>3
    <3>2. QED
      BY <1>1, <1>2, <1>3, <1>10, <2>3, <3>1
  <2>4. CASE k > a + 1
    <3>1. k - 1 \in Places /\ a < k - 1 /\ a <= k - 1 /\ k - 1 < z /\ (k - 1) + 1 = k
      BY <1>1, <1>7, <2>4, PlaceTypes
    <3>2. C[k - 1] = B[k] /\ h[k - 1] = k
      BY <1>5, <1>6, <3>1
    <3>3. QED
      BY <1>10, <3>1, <3>2
  <2>5. QED
    BY <1>1, <1>7, <2>1, <2>2, <2>3, <2>4
<1>11. \A k \in Places : k <= k
  BY <1>7
<1>12. Moved(B, C, h) /\ Whole(B, C, h)
  BY <1>6, <1>8, <1>9, <1>10, <1>11, Covering
<1>13. QED
  BY <1>12 DEF B, C

(* A frame put on the wire is the last of the belt. *)
LEMMA BeltWired ==
    ASSUME NEW seen, NEW told, NEW queue, NEW hand, NEW S, NEW wire \in Seq(S),
           NEW f \in S, Len(wire) < WireCap
    PROVE  LET B == Belt(seen, told, queue, hand, wire)
               C == Belt(seen, told, queue, hand, Append(wire, f))
           IN  \E a \in Places : /\ C[a] = f
                                 /\ \A p \in Places : p # a => C[p] = B[p]
                                 /\ \A p \in Places : a <= p => B[p] = Nothing
<1> DEFINE B == Belt(seen, told, queue, hand, wire)
           C == Belt(seen, told, queue, hand, Append(wire, f))
           i == Len(wire) + 1
           a == i + (Cap + 2)
<1>1. i \in 1..WireCap /\ a \in Places /\ i \in Nat
  BY PlaceTypes
<1>2. /\ C[0] = B[0] /\ C[1] = B[1] /\ C[Cap + 2] = B[Cap + 2]
      /\ \A j \in 1..Cap : C[j + 1] = B[j + 1]
  BY BeltPlaces
<1>3. \A j \in 1..WireCap : /\ C[j + (Cap + 2)] = IF j = i THEN f ELSE B[j + (Cap + 2)]
                            /\ j >= i => B[j + (Cap + 2)] = Nothing
  <2>1. \A j \in 1..WireCap : j \in Nat /\ j > 0 /\ (j >= i => j > Len(wire))
    BY PlaceTypes
  <2>2. \A j \in 1..WireCap : /\ Slot(Append(wire, f), j) = IF j = i THEN f ELSE Slot(wire, j)
                              /\ j >= i => Slot(wire, j) = Nothing
    BY <2>1, Slots
  <2>3. QED
    BY <2>2, BeltPlaces
<1> HIDE DEF B, C
<1>4. C[a] = f
  BY <1>1, <1>3
<1>5. \A p \in Places : p # a => C[p] = B[p]
  <2>1. ASSUME NEW j \in 1..WireCap, j + (Cap + 2) # a PROVE C[j + (Cap + 2)] = B[j + (Cap + 2)]
    <3>1. j # i
      BY <2>1
    <3>2. QED
      BY <1>3, <3>1
  <2>2. QED
    BY <1>2, <2>1, PlaceKinds
<1>6. ASSUME NEW p \in Places, a <= p PROVE B[p] = Nothing
  <2>1. p # 0 /\ p # 1 /\ p # Cap + 2 /\ ~(\E j \in 1..Cap : p = j + 1)
    BY <1>1, <1>6, PlaceTypes
  <2>2. PICK j \in 1..WireCap : p = j + (Cap + 2)
    BY <2>1, PlaceKinds
  <2>3. j >= i
    BY <1>1, <1>6, <2>2, PlaceTypes
  <2>4. QED
    BY <1>3, <2>2, <2>3
<1>7. QED
  BY <1>1, <1>4, <1>5, <1>6 DEF B, C

(* A greeting makes any gap before it good; a message must be the next. *)
LEMMA WiredMark ==
    ASSUME NEW B, NEW C, NEW a \in Places, \A p \in Places : p # a => C[p] = B[p],
           \A p \in Places : a <= p => B[p] = Nothing, IsMark(C[a]), Gapless(B)
    PROVE  Gapless(C) /\ EndsInMark(C) /\ \A last : Heard(B, last) => Heard(C, last)
<1>1. ~IsMessage(C[a]) /\ Relevant(C[a])
  BY DEF IsMessage, IsMark, Relevant
<1>2. \A p \in Places : Relevant(B[p]) => C[p] = B[p] /\ p # a
  BY PlaceTypes, FrameKinds
<1>3. Gapless(C)
  BY <1>1, <1>2 DEF Gapless
<1>4. \A q \in Places : a < q => ~Relevant(C[q])
  BY PlaceTypes, FrameKinds
<1>5. EndsInMark(C)
  BY <1>1, <1>4 DEF EndsInMark, LatestAt
<1>6. \A last : Heard(B, last) => Heard(C, last)
  BY <1>1 DEF Heard
<1>7. QED
  BY <1>3, <1>5, <1>6

LEMMA WiredMessage ==
    ASSUME NEW B, NEW C, NEW a \in Places, \A p \in Places : p # a => C[p] = B[p],
           \A p \in Places : a <= p => B[p] = Nothing,
           NEW last \in Nat, C[a] = Message(last + 1),
           Gapless(B), Heard(B, last), UpToDate(B, last)
    PROVE  Gapless(C) /\ UpToDate(C, last + 1) /\ Heard(C, last + 1)
<1>1. IsMessage(C[a]) /\ Relevant(C[a]) /\ C[a].n = last + 1
  BY FrameKinds DEF Relevant
<1>2. \A p \in Places : /\ Relevant(B[p]) => C[p] = B[p] /\ p < a
                        /\ Relevant(C[p]) => p <= a
  <2>1. ASSUME NEW p \in Places PROVE /\ Relevant(B[p]) => C[p] = B[p] /\ p < a
                                      /\ Relevant(C[p]) => p <= a
    <3>1. CASE a <= p
      BY <3>1, FrameKinds, PlaceTypes
    <3>2. CASE ~(a <= p)
      <4>1. p < a /\ p <= a /\ p # a
        BY <3>2, PlaceTypes
      <4>2. QED
        BY <4>1
    <3>3. QED
      BY <3>1, <3>2
  <2>2. QED
    BY <2>1
<1>3. PICK l \in Places : LatestAt(B, l) /\ (IsMark(B[l]) \/ B[l].n = last)
  BY DEF UpToDate
<1>4. Relevant(C[l]) /\ l < a /\ C[l] = B[l]
  BY <1>2, <1>3 DEF LatestAt
<1>5. ASSUME NEW p \in Places, NEW q \in Places, p < q, IsMessage(C[p]), IsMessage(C[q])
      PROVE  /\ C[p].n < C[q].n
             /\ \/ C[q].n = C[p].n + 1
                \/ \E k \in Places : p < k /\ k < q /\ Relevant(C[k])
  <2>1. Relevant(C[p]) /\ Relevant(C[q])
    BY <1>5 DEF Relevant
  <2>2. p # a /\ C[p] = B[p] /\ IsMessage(B[p])
    <3>1. p # a
      BY <1>2, <1>5, <2>1, PlaceTypes
    <3>2. QED
      BY <1>5, <3>1
  <2>3. CASE q = a
    <3>1. C[p].n \in Nat /\ C[p].n <= last
      BY <2>2 DEF Heard
    <3>2. C[p].n < C[q].n
      BY <1>1, <2>3, <3>1
    <3>3. CASE p = l
      <4>1. B[l].n = last
        BY <1>3, <2>2, <3>3 DEF IsMark, IsMessage
      <4>2. QED
        BY <1>1, <2>2, <2>3, <3>2, <3>3, <4>1
    <3>4. CASE p # l
      <4>1. ~(l < p)
        BY <1>3, <2>1, <2>2 DEF LatestAt
      <4>2. p < l
        BY <3>4, <4>1, PlaceTypes
      <4>3. QED
        BY <1>4, <2>3, <3>2, <4>2
    <3>5. QED
      BY <3>3, <3>4
  <2>4. CASE q # a
    <3>1. C[q] = B[q] /\ IsMessage(B[q])
      BY <1>5, <2>4
    <3>2. /\ B[p].n < B[q].n
          /\ \/ B[q].n = B[p].n + 1
             \/ \E k \in Places : p < k /\ k < q /\ Relevant(B[k])
      BY <1>5, <2>2, <3>1 DEF Gapless
    <3>3. QED
      BY <1>2, <2>2, <3>1, <3>2
  <2>5. QED
    BY <2>3, <2>4
<1>6. Gapless(C)
  BY <1>5 DEF Gapless
<1>7. UpToDate(C, last + 1)
  <2>1. \A q \in Places : a < q => ~Relevant(C[q])
    BY <1>2, PlaceTypes
  <2>2. QED
    BY <1>1, <2>1 DEF UpToDate, LatestAt
<1>8. Heard(C, last + 1)
  BY <1>1 DEF Heard
<1>9. QED
  BY <1>6, <1>7, <1>8

(* Frames lost at the end of the wire, and with them what the session holds. *)
LEMMA BeltCut ==
    ASSUME NEW seen, NEW told, NEW queue, NEW hand, NEW S, NEW wire \in Seq(S),
           NEW k \in 0..Len(wire), NEW hand2, hand2 = hand \/ (hand2 = Nothing /\ k = 0)
    PROVE  LET B == Belt(seen, told, queue, hand, wire)
               C == Belt(seen, told, queue, hand2, SubSeq(wire, 1, k))
           IN  \E h : Moved(B, C, h)
<1> DEFINE B == Belt(seen, told, queue, hand, wire)
           C == Belt(seen, told, queue, hand2, SubSeq(wire, 1, k))
           a == Cap + 2
<1>1. /\ C[0] = B[0] /\ C[1] = B[1] /\ C[a] = hand2 /\ B[a] = hand
      /\ \A i \in 1..Cap : C[i + 1] = B[i + 1]
  BY BeltPlaces
<1>2. \A i \in 1..WireCap :
          C[i + (Cap + 2)] = IF i <= k THEN B[i + (Cap + 2)] ELSE Nothing
  <2>1. \A i \in 1..WireCap : i \in Nat /\ i > 0
    BY PlaceTypes
  <2>2. \A i \in 1..WireCap : Slot(SubSeq(wire, 1, k), i) = IF i <= k THEN Slot(wire, i) ELSE Nothing
    BY <2>1, Slots
  <2>3. QED
    BY <2>2, BeltPlaces
<1> HIDE DEF B, C
<1>3. \A p \in Places : /\ p < a => C[p] = B[p]
                        /\ a < p => C[p] = IF p <= k + a THEN B[p] ELSE Nothing
  <2>1. ASSUME NEW p \in Places, p < a PROVE C[p] = B[p]
    <3>1. p # a /\ ~(\E i \in 1..WireCap : p = i + (Cap + 2))
      BY <2>1, PlaceTypes
    <3>2. QED
      BY <1>1, <3>1, PlaceKinds
  <2>2. ASSUME NEW p \in Places, a < p
        PROVE  C[p] = IF p <= k + a THEN B[p] ELSE Nothing
    <3>1. p # 0 /\ p # 1 /\ p # Cap + 2 /\ ~(\E j \in 1..Cap : p = j + 1)
      BY <2>2, PlaceTypes
    <3>2. PICK i \in 1..WireCap : p = i + (Cap + 2)
      BY <3>1, PlaceKinds
    <3>3. p <= k + a <=> i <= k
      BY <3>2, PlaceTypes
    <3>4. QED
      BY <1>2, <3>2, <3>3
  <2>3. QED
    BY <2>1, <2>2
<1>4. a \in Places /\ a \in Nat /\ k \in Nat
  BY PlaceTypes
<1> HIDE DEF a
<1>5. \A p \in Places : C[p] = B[p] \/ C[p] = Nothing
  BY <1>1, <1>3, <1>4, PlaceTypes
<1>6. ASSUME NEW p \in Places, NEW q \in Places, p < q, Relevant(B[p]), Relevant(C[q])
      PROVE  Relevant(C[p])
  <2>1. C[q] # Nothing
    BY <1>6, FrameKinds
  <2>2. CASE p < a
    BY <1>3, <1>6, <2>2
  <2>3. CASE p = a
    <3>1. a < q
      BY <1>6, <2>3
    <3>2. q <= k + a
      BY <1>3, <2>1, <3>1
    <3>3. k # 0
      BY <1>4, <3>1, <3>2, PlaceTypes
    <3>4. QED
      BY <1>1, <1>6, <2>3, <3>3
  <2>4. CASE a < p
    <3>1. a < q
      BY <1>4, <1>6, <2>4, PlaceTypes
    <3>2. q <= k + a
      BY <1>3, <2>1, <3>1
    <3>3. p <= k + a
      BY <1>4, <1>6, <3>2, PlaceTypes
    <3>4. QED
      BY <1>3, <1>6, <2>4, <3>3
  <2>5. QED
    BY <1>4, <2>2, <2>3, <2>4, PlaceTypes
<1>7. Moved(B, C, [p \in Places |-> p])
  BY <1>5, <1>6, SamePlaces, FrameKinds
<1>8. QED
  BY <1>7 DEF B, C
(* While the server streams, the line ends in its latest event or in a mark;
   from the greeting until then, in a mark. *)
GapInv ==
    ~ctxDone =>
        /\ Gapless(Line) /\ Heard(Line, produced)
        /\ link = "up" /\ greeted /\ srvSet = NoSet => EndsInMark(Line)
        /\ link = "up" /\ srvSet # NoSet => UpToDate(Line, produced)

LEMMA LineMoves ==
    ASSUME GapInv, ~ctxDone, UNCHANGED produced, NEW h, Moved(Line, Line', h),
           \/ Whole(Line, Line', h) /\ UNCHANGED <<link, greeted, srvSet>>
           \/ link' # "up" \/ (~greeted' /\ srvSet' = NoSet)
    PROVE  GapInv'
<1>1. Gapless(Line')
  BY MovedGapless DEF GapInv
<1>2. Heard(Line', produced)
  BY MovedHeard DEF GapInv
<1>3. Whole(Line, Line', h) =>
          /\ EndsInMark(Line) => EndsInMark(Line')
          /\ UpToDate(Line, produced) => UpToDate(Line', produced)
  BY MovedLatest
<1> HIDE DEF Line, Gapless, Heard, EndsInMark, UpToDate, Moved, Whole
<1>4. QED
  BY <1>1, <1>2, <1>3 DEF GapInv

LEMMA LineSame ==
    ASSUME GapInv, ~ctxDone, UNCHANGED produced,
           UNCHANGED <<lastSeen, marked, events, InHand, toClient>>,
           \/ UNCHANGED <<link, greeted, srvSet>>
           \/ link' # "up" \/ (~greeted' /\ srvSet' = NoSet)
    PROVE  GapInv'
<1>1. Line' = Line
  BY DEF Line
<1> HIDE DEF Line, Gapless, Heard, EndsInMark, UpToDate
<1>2. QED
  BY <1>1 DEF GapInv

LEMMA GapRun ==
    ASSUME TypeOK, SessionInv, GapInv, Run, ~ctxDone
    PROVE  GapInv'
<1> USE DEF runVars, closeVars, uiVars, setVars, netVars, InSession
<1> DEFINE told == IF marked THEN Connected ELSE Nothing
<1>1. /\ events \in Seq(Events) /\ toClient \in Seq(Frames) /\ Len(toClient) <= WireCap
      /\ Line = Belt(lastSeen, told, events, InHand, toClient)
  BY DEF TypeOK, Line
<1>2. ASSUME NEW e \in Events, ~Relevant(e), Emit(e), UNCHANGED InHand,
             UNCHANGED <<uiVars, netVars>>
      PROVE  GapInv'
  <2>1. events' = Append(events, e) /\ Len(events) < Cap
    BY <1>2 DEF Emit
  <2>2. Line' = Belt(lastSeen, told, Append(events, e), InHand, toClient)
    BY <1>2, <2>1 DEF Line
  <2>3. PICK h : Moved(Line, Line', h) /\ Whole(Line, Line', h)
    BY <1>1, <1>2, <2>1, <2>2, BeltQueued
  <2>4. QED
    BY <1>2, <2>3, LineMoves
<1>3. CASE Announce
  <2>1. Connecting \in Events /\ ~Relevant(Connecting)
    BY EventTypes, FrameKinds
  <2>2. UNCHANGED InHand
    BY <1>3 DEF Announce, InHand
  <2>3. QED
    BY <1>2, <1>3, <2>1, <2>2 DEF Announce
<1>4. CASE Report
  <2> DEFINE d == Least(attempt, BackoffLen - 1)
  <2>1. d \in Delays
    BY ConstantTypes DEF TypeOK, Least, Delays
  <2>2. Disconnected(d) \in Events /\ ~Relevant(Disconnected(d))
    BY <2>1, EventTypes, FrameKinds
  <2>3. UNCHANGED InHand
    BY <1>4 DEF Report, InHand
  <2>4. Emit(Disconnected(d)) /\ UNCHANGED <<uiVars, netVars>>
    BY <1>4 DEF Report
  <2> HIDE DEF d
  <2>5. QED
    BY <1>2, <2>2, <2>3, <2>4
<1>5. CASE EmitConnected \/ EmitEvent
  <2>1. InHand \in Events /\ Emit(InHand) /\ InHand' = Nothing
    BY <1>5, EventTypes DEF EmitConnected, EmitEvent, InHand, TypeOK
  <2>2. events' = Append(events, InHand) /\ Len(events) < Cap
    BY <2>1 DEF Emit
  <2>3. UNCHANGED <<uiVars, netVars>>
    BY <1>5 DEF EmitConnected, EmitEvent
  <2>4. Line' = Belt(lastSeen, told, Append(events, InHand), Nothing, toClient)
    BY <2>1, <2>2, <2>3 DEF Line
  <2>5. PICK h : Moved(Line, Line', h) /\ Whole(Line, Line', h)
    BY <1>1, <2>1, <2>2, <2>4, BeltEmitted
  <2>6. QED
    BY <2>3, <2>5, LineMoves
<1>6. CASE ReadReady \/ ReadIgnored \/ ReadEvent
  <2>1. /\ toClient # <<>> /\ toClient' = Tail(toClient) /\ InHand = Nothing
        /\ UNCHANGED <<uiVars, events, link, greeted, srvSet, produced>>
    BY <1>6 DEF ReadReady, ReadIgnored, ReadEvent, InHand
  <2>2. /\ Relevant(InHand') <=> Relevant(Head(toClient))
        /\ IsMessage(InHand') <=> IsMessage(Head(toClient))
        /\ IsMessage(Head(toClient)) => InHand'.n = Head(toClient).n
    <3>1. CASE ReadReady
      <4>1. InHand' = Connected /\ Head(toClient) = ReadyFrame
        BY <3>1 DEF ReadReady, InHand
      <4>2. QED
        BY <4>1, FrameKinds DEF Relevant
    <3>2. CASE ReadIgnored
      <4>1. InHand' = Nothing /\ Head(toClient) = AckFrame
        BY <3>2 DEF ReadIgnored, InHand
      <4>2. QED
        BY <4>1, FrameKinds DEF Relevant
    <3>3. CASE ReadEvent
      <4>1. PICK i \in Positions : Head(toClient) = Message(i)
        BY <3>3 DEF ReadEvent, Messages
      <4>2. InHand' = Message(i)
        BY <3>3, <4>1, FrameKinds DEF ReadEvent, InHand
      <4>3. QED
        BY <4>1, <4>2
    <3>4. QED
      BY <1>6, <3>1, <3>2, <3>3
  <2>3. Line' = Belt(lastSeen, told, events, InHand', Tail(toClient))
    BY <2>1 DEF Line
  <2>4. PICK h : Moved(Line, Line', h) /\ Whole(Line, Line', h)
    <3>1. Line = Belt(lastSeen, told, events, Nothing, toClient)
      BY <1>1, <2>1
    <3>2. QED
      BY <1>1, <2>1, <2>2, <2>3, <3>1, BeltRead
  <2>5. QED
    BY <2>1, <2>4, LineMoves
<1>7. CASE ReadFails \/ SubscribeFails
  <2>1. InHand' = Nothing /\ toClient' = <<>> /\ link' = "none"
        /\ UNCHANGED <<uiVars, events, produced>>
    BY <1>7 DEF ReadFails, SubscribeFails, SessionReturns, Teardown, InHand
  <2>2. <<>> = SubSeq(toClient, 1, 0) /\ 0 \in 0..Len(toClient)
    BY <1>1
  <2>3. Line' = Belt(lastSeen, told, events, Nothing, SubSeq(toClient, 1, 0))
    BY <2>1, <2>2 DEF Line
  <2>4. PICK h : Moved(Line, Line', h)
    BY <1>1, <2>2, <2>3, BeltCut
  <2>5. link' # "up"
    BY <2>1
  <2>6. QED
    BY <2>1, <2>4, <2>5, LineMoves
<1>8. CASE DialSucceeds
  <2>1. UNCHANGED InHand /\ ~greeted' /\ srvSet' = NoSet
    BY <1>8 DEF DialSucceeds, SessionInv, InHand
  <2>2. QED
    BY <1>8, <2>1, LineSame DEF DialSucceeds
<1>9. CASE DialFails
  <2>1. UNCHANGED InHand
    BY <1>9 DEF DialFails, SessionReturns, InHand
  <2>2. QED
    BY <1>9, <2>1, LineSame DEF DialFails
<1>10. CASE \/ SubscribeWritten \/ TimerFires \/ TakeRetry \/ BackoffCancelled
            \/ CloseEvents \/ CloseDone
  <2>1. UNCHANGED InHand
    BY <1>10
    DEF SubscribeWritten, TimerFires, TakeRetry, BackoffCancelled, CloseEvents, CloseDone, InHand
  <2>2. QED
    BY <1>10, <2>1, LineSame
    DEF SubscribeWritten, TimerFires, TakeRetry, BackoffCancelled, CloseEvents, CloseDone
<1>11. QED
  BY <1>3, <1>4, <1>5, <1>6, <1>7, <1>8, <1>9, <1>10 DEF Run

LEMMA GapUI ==
    ASSUME TypeOK, GapInv, UI, ~ctxDone
    PROVE  GapInv'
<1> USE DEF runVars, closeVars, uiVars, setVars, netVars
<1>1. CASE Consume
  <2> DEFINE e == Head(events)
             told == IF marked THEN Connected ELSE Nothing
             told2 == IF marked' THEN Connected ELSE Nothing
  <2>1. /\ events \in Seq(Events) /\ Len(events) <= Cap /\ events # <<>>
        /\ events' = Tail(events) /\ e \in Events
        /\ UNCHANGED <<runVars, netVars>>
    BY <1>1 DEF Consume, TypeOK
  <2>2. IsMark(e) <=> e = Connected
    BY <2>1
    DEF Events, Lifecycle, Messages, Connecting, Connected, Disconnected, Message, IsMark
  <2>3. /\ IsMessage(e) => e.n = lastSeen' /\ ~marked'
        /\ ~IsMessage(e) => lastSeen' = lastSeen /\ marked' = (marked \/ e = Connected)
    BY <1>1 DEF Consume, Apply, IsMessage
  <2>4. /\ IsMessage(e) => told2 = Nothing
        /\ ~IsMessage(e) => told2 = IF IsMark(e) THEN Connected ELSE told
    BY <2>2, <2>3
  <2>5. UNCHANGED InHand
    BY <2>1 DEF InHand
  <2>6. /\ Line = Belt(lastSeen, told, events, InHand, toClient)
        /\ Line' = Belt(lastSeen', told2, Tail(events), InHand, toClient)
    BY <2>1, <2>5 DEF Line
  <2> HIDE DEF told, told2
  <2>7. PICK h : Moved(Line, Line', h) /\ Whole(Line, Line', h)
    BY <2>1, <2>3, <2>4, <2>6, BeltConsumed
  <2>8. QED
    BY <2>1, <2>7, LineMoves
<1>2. CASE Close
  BY <1>2 DEF Close, GapInv
<1>3. CASE Retry \/ SetSubscriptions \/ WriteSubscriptions \/ CloseReturns
  <2>1. UNCHANGED InHand
    BY <1>3 DEF Retry, SetSubscriptions, WriteSubscriptions, CloseReturns, InHand
  <2>2. QED
    BY <1>3, <2>1, LineSame DEF Retry, SetSubscriptions, WriteSubscriptions, CloseReturns
<1>4. QED
  BY <1>1, <1>2, <1>3 DEF UI

LEMMA GapEnvironment ==
    ASSUME TypeOK, SessionInv, GapInv, PingFails \/ Environment, ~ctxDone
    PROVE  GapInv'
<1> USE DEF runVars, closeVars, uiVars, setVars, netVars
<1> DEFINE told == IF marked THEN Connected ELSE Nothing
<1>1. UNCHANGED <<pc, held, uiVars, events, ctxDone>>
  BY DEF PingFails, Environment, ServerReady, ServerSubscribes, ServerEvent, LinkFails
<1>2. UNCHANGED InHand
  BY <1>1 DEF InHand
<1>3. /\ toClient \in Seq(Frames) /\ produced \in Nat
      /\ Line = Belt(lastSeen, told, events, InHand, toClient)
      /\ Line' = Belt(lastSeen, told, events, InHand, toClient')
  BY <1>1, <1>2, ConstantTypes DEF TypeOK, Line
<1>4. Gapless(Line) /\ Heard(Line, produced)
  BY DEF GapInv
<1>5. ASSUME NEW f \in Frames, Len(toClient) < WireCap, toClient' = Append(toClient, f)
      PROVE  \E a \in Places : /\ Line'[a] = f
                               /\ \A p \in Places : p # a => Line'[p] = Line[p]
                               /\ \A p \in Places : a <= p => Line[p] = Nothing
  <2>1. Line' = Belt(lastSeen, told, events, InHand, Append(toClient, f))
    BY <1>3, <1>5
  <2>2. QED
    BY <1>3, <1>5, <2>1, BeltWired
<1>6. CASE PingFails
  BY <1>1, <1>2, <1>6, LineSame DEF PingFails
<1>7. CASE ServerReady
  <2>1. PICK a \in Places : /\ Line'[a] = ReadyFrame
                            /\ \A p \in Places : p # a => Line'[p] = Line[p]
                            /\ \A p \in Places : a <= p => Line[p] = Nothing
    BY <1>5, <1>7, EventTypes DEF ServerReady
  <2>2. IsMark(Line'[a])
    BY <2>1, FrameKinds
  <2> HIDE DEF Line, told
  <2>3. Gapless(Line') /\ EndsInMark(Line') /\ Heard(Line', produced)
    BY <1>4, <2>1, <2>2, WiredMark
  <2>4. UpToDate(Line', produced)
    BY <2>3 DEF EndsInMark, UpToDate
  <2> HIDE DEF Gapless, EndsInMark, Heard, UpToDate
  <2>5. UNCHANGED produced
    BY <1>7 DEF ServerReady
  <2>6. QED
    BY <2>3, <2>4, <2>5 DEF GapInv
<1>8. CASE ServerSubscribes
  <2>1. PICK a \in Places : /\ Line'[a] = AckFrame
                            /\ \A p \in Places : p # a => Line'[p] = Line[p]
                            /\ \A p \in Places : a <= p => Line[p] = Nothing
    BY <1>5, <1>8, EventTypes DEF ServerSubscribes
  <2>2. \A p \in Places : Line'[p] = Line[p] \/ (~Relevant(Line'[p]) /\ ~Relevant(Line[p]))
    BY <2>1, FrameKinds, PlaceTypes
  <2> HIDE DEF Line, told
  <2>3. PICK h : Moved(Line, Line', h) /\ Whole(Line, Line', h)
    BY <2>2, SamePlaces
  <2>4. Gapless(Line') /\ Heard(Line', produced)
    BY <1>4, <2>3, MovedGapless, MovedHeard
  <2>5. UpToDate(Line, produced)
    BY <1>8 DEF ServerSubscribes, GapInv, EndsInMark, UpToDate
  <2>6. UpToDate(Line', produced)
    BY <2>3, <2>5, MovedLatest
  <2>7. srvSet' # NoSet /\ UNCHANGED produced
    <3>1. Head(toServer) \in Sets
      BY <1>8 DEF ServerSubscribes, TypeOK
    <3>2. QED
      BY <1>8, <3>1, ConstantTypes DEF ServerSubscribes, Sets, NoSet
  <2> HIDE DEF Gapless, EndsInMark, Heard, UpToDate
  <2>8. QED
    BY <2>4, <2>6, <2>7 DEF GapInv
<1>9. CASE ServerEvent
  <2>1. produced' = produced + 1 /\ UNCHANGED <<link, greeted, srvSet>>
    BY <1>9 DEF ServerEvent
  <2>2. CASE link = "up" /\ srvSet # NoSet
    <3>1. Message(produced + 1) \in Frames
      BY <1>9, EventTypes, ConstantTypes DEF ServerEvent, TypeOK, Positions
    <3>2. PICK a \in Places : /\ Line'[a] = Message(produced + 1)
                              /\ \A p \in Places : p # a => Line'[p] = Line[p]
                              /\ \A p \in Places : a <= p => Line[p] = Nothing
      BY <1>5, <1>9, <2>2, <3>1 DEF ServerEvent
    <3>3. UpToDate(Line, produced)
      BY <2>2 DEF GapInv
    <3> HIDE DEF Line, told
    <3>4. Gapless(Line') /\ UpToDate(Line', produced + 1) /\ Heard(Line', produced + 1)
      BY <1>3, <1>4, <3>2, <3>3, WiredMessage
    <3> HIDE DEF Gapless, EndsInMark, Heard, UpToDate
    <3>5. QED
      BY <2>1, <2>2, <3>4 DEF GapInv
  <2>3. CASE ~(link = "up" /\ srvSet # NoSet)
    <3>1. Line' = Line
      BY <1>3, <1>9, <2>3 DEF ServerEvent
    <3>2. Heard(Line, produced + 1)
      BY <1>3, <1>4 DEF Heard
    <3> HIDE DEF Gapless, EndsInMark, Heard, UpToDate, Line
    <3>3. QED
      BY <2>1, <2>3, <3>1, <3>2 DEF GapInv
  <2>4. QED
    BY <2>2, <2>3
<1>10. CASE LinkFails
  <2>1. PICK k \in 0..Len(toClient) : toClient' = SubSeq(toClient, 1, k)
    BY <1>10 DEF LinkFails
  <2>2. Line' = Belt(lastSeen, told, events, InHand, SubSeq(toClient, 1, k))
    BY <1>3, <2>1
  <2>3. PICK h : Moved(Line, Line', h)
    BY <1>3, <2>2, BeltCut
  <2>4. link' # "up" /\ UNCHANGED produced
    BY <1>10 DEF LinkFails
  <2>5. QED
    BY <2>3, <2>4, LineMoves
<1>11. QED
  BY <1>6, <1>7, <1>8, <1>9, <1>10 DEF Environment

LEMMA GapInit == Init => GapInv
<1> SUFFICES ASSUME Init PROVE GapInv
  OBVIOUS
<1>1. Line = Belt(0, Nothing, <<>>, Nothing, <<>>)
  BY DEF Init, Line, InHand
<1>2. \A i \in Nat : i > 0 => Slot(<<>>, i) = Nothing
  BY DEF Slot
<1>3. /\ Line[0] = Message(0)
      /\ \A p \in Places : p # 0 => Line[p] = Nothing
  <2> HIDE DEF Line
  <2>1. /\ Line[0] = Message(0) /\ Line[1] = Nothing /\ Line[Cap + 2] = Nothing
        /\ \A i \in 1..Cap : Line[i + 1] = Slot(<<>>, i)
        /\ \A i \in 1..WireCap : Line[i + (Cap + 2)] = Slot(<<>>, i)
    BY <1>1, BeltPlaces
  <2>2. /\ \A i \in 1..Cap : i \in Nat /\ i > 0
        /\ \A i \in 1..WireCap : i \in Nat /\ i > 0
    BY PlaceTypes
  <2>3. /\ \A i \in 1..Cap : Line[i + 1] = Nothing
        /\ \A i \in 1..WireCap : Line[i + (Cap + 2)] = Nothing
    BY <1>2, <2>1, <2>2
  <2>4. QED
    BY <2>1, <2>3, PlaceKinds
<1> HIDE DEF Line
<1>4. \A p \in Places : IsMessage(Line[p]) => p = 0 /\ Line[p].n = 0
  BY <1>3, FrameKinds DEF Relevant
<1>5. Gapless(Line)
  BY <1>4, PlaceTypes DEF Gapless
<1>6. Heard(Line, produced)
  BY <1>4 DEF Heard, Init
<1>7. QED
  BY <1>5, <1>6 DEF GapInv, Init

LEMMA GapStep == TypeOK /\ SessionInv /\ GapInv /\ [Next]_vars => GapInv'
<1> SUFFICES ASSUME TypeOK, SessionInv, GapInv, [Next]_vars PROVE GapInv'
  OBVIOUS
<1>1. CASE ctxDone
  <2>1. ctxDone'
    BY <1>1
    DEF Next, Run, UI, Environment, Announce, DialSucceeds, DialFails, ReadFails, ReadReady,
        ReadIgnored, ReadEvent, SubscribeWritten, SubscribeFails, EmitConnected, EmitEvent,
        Report, TimerFires, TakeRetry, BackoffCancelled, CloseEvents, CloseDone, PingFails,
        Consume, Retry, SetSubscriptions, WriteSubscriptions, Close, CloseReturns, ServerReady,
        ServerSubscribes, ServerEvent, LinkFails, vars, closeVars
  <2>2. QED
    BY <2>1 DEF GapInv
<1>2. CASE ~ctxDone /\ UNCHANGED vars
  <2>1. UNCHANGED InHand
    BY <1>2 DEF vars, runVars, InHand
  <2>2. QED
    BY <1>2, <2>1, LineSame DEF vars, uiVars, netVars
<1>3. CASE ~ctxDone /\ Next
  BY <1>3, GapRun, GapUI, GapEnvironment DEF Next
<1>4. QED
  BY <1>1, <1>2, <1>3

(* Whatever the network loses, a gap in the events that reach the UI is
   announced by a "connected" (client.go:183-209, wsevents.go:60-67). *)
THEOREM ClientNoSilentGap == Spec => []NoSilentGap
<1>1. GapInv => NoSilentGap
  BY DEF GapInv, NoSilentGap
<1>2. QED
  BY <1>1, TypeInit, TypeStep, SessionInit, SessionStep, GapInit, GapStep, PTL DEF Spec
=============================================================================
