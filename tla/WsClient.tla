------------------------------ MODULE WsClient ------------------------------
(***************************************************************************)
(* The WebSocket client of internal/ws/client.go: the reconnect loop (run, *)
(* session), the ping goroutine of each session, the bounded events        *)
(* channel with the UI at its other end, Retry, SetSubscriptions and       *)
(* Close; and, as the environment, the network and the events server.      *)
(*                                                                         *)
(* The environment is what the code assumes of Beeper Desktop: a new       *)
(* connection starts with a "ready" frame, frames arrive in order, domain  *)
(* events are streamed once a subscriptions.set has been processed.  Each  *)
(* set the UI installs covers the chat whose events are numbered here, so  *)
(* a set is only a version number.                                         *)
(***************************************************************************)
EXTENDS WsEvents, Sequences

CONSTANTS
    WireCap,     \* bound: frames in flight in each direction
    MaxFaults,   \* bound: network faults
    MaxSets      \* bound: calls of SetSubscriptions

ASSUME BoundsAssumption ==
    /\ WireCap \in Nat \ {0}
    /\ MaxFaults \in Nat
    /\ MaxSets \in Nat

VARIABLES
    \* the goroutine running run() and session()
    pc,           \* where it is
    attempt,      \* index of the next backoff delay; saturates at BackoffLen
    connected,    \* session: Connected has been put on the channel
    held,         \* session: number of the domain event being emitted
    ids,          \* session: the set sendSubscriptions read under the lock
    \* shared between goroutines
    events,       \* the events channel
    eventsClosed, \* run's deferred close(c.events)
    doneClosed,   \* run's deferred close(c.done)
    retryCh,      \* a token in the retry channel (capacity 1)
    ctxDone,      \* Close has cancelled the context
    conn,         \* c.conn is not nil
    chatIDs,      \* version of the stored subscription set
    \* the UI: the reader of Events() and the caller of the API
    uiConn,       \* m.conn
    lastSeen,     \* number of the last domain event applied
    marked,       \* Connected has been applied since lastSeen
    everConnected,\* m.everConnected: the first Connected has been applied
    writer,       \* SetSubscriptions between its unlock and its write
    closer,       \* the caller of Close
    \* the network and the server
    link,         \* the transport of the current session
    toClient,     \* frames in flight to the client
    toServer,     \* subscription sets in flight to the server
    greeted,      \* server: "ready" sent on this connection
    srvSet,       \* server: set in force on this connection, or NoSet
    produced,     \* server: number of its latest domain event
    owed,         \* history: the UI has yet to be brought that event, see ServerEvent
    faults        \* network faults so far

runVars == <<pc, attempt, connected, held, ids>>
closeVars == <<eventsClosed, doneClosed, ctxDone, closer>>
uiVars == <<uiConn, lastSeen, marked, everConnected>>
setVars == <<chatIDs, writer>>
netVars == <<link, toClient, toServer, greeted, srvSet, produced, faults>>
vars == <<runVars, events, closeVars, retryCh, conn, uiVars, setVars, netVars, owed>>

NoSet == MaxSets + 1
Sets == 0..MaxSets

ReadyFrame == [type |-> "ready", n |-> 0]
AckFrame == [type |-> "ack", n |-> 0]
Frames == {ReadyFrame, AckFrame} \cup Messages

(* The session's program points: those where its connection is registered. *)
InSession == {"read", "subscribe", "ready", "forward"}
Points == {"announce", "dial", "report", "backoff", "exiting", "drained", "done"}
              \cup InSession

Least(a, b) == IF a < b THEN a ELSE b

TypeOK ==
    /\ pc \in Points
    /\ attempt \in 0..BackoffLen
    /\ connected \in BOOLEAN
    /\ held \in 0..MaxEvents
    /\ ids \in Sets
    /\ events \in Seq(Events) /\ Len(events) <= Cap
    /\ pc = "forward" => held \in Positions
    /\ eventsClosed \in BOOLEAN /\ doneClosed \in BOOLEAN
    /\ retryCh \in BOOLEAN /\ ctxDone \in BOOLEAN /\ conn \in BOOLEAN
    /\ marked \in BOOLEAN /\ everConnected \in BOOLEAN
    /\ greeted \in BOOLEAN /\ owed \in BOOLEAN
    /\ chatIDs \in Sets
    /\ uiConn \in {"unknown", "connecting", "connected", "disconnected"}
    /\ lastSeen \in 0..MaxEvents
    /\ writer \in {"idle", "live", "stale"}
    /\ closer \in {"idle", "waiting", "returned"}
    /\ link \in {"none", "up", "broken", "silent", "closed"}
    /\ toClient \in Seq(Frames) /\ Len(toClient) <= WireCap
    /\ toServer \in Seq(Sets) /\ Len(toServer) <= WireCap
    /\ srvSet \in Sets \cup {NoSet}
    /\ produced \in 0..MaxEvents
    /\ faults \in 0..MaxFaults

Init ==
    /\ pc = "announce" /\ attempt = 0 /\ connected = FALSE /\ held = 0 /\ ids = 0
    /\ events = <<>> /\ eventsClosed = FALSE /\ doneClosed = FALSE
    /\ retryCh = FALSE /\ ctxDone = FALSE /\ conn = FALSE /\ chatIDs = 0
    /\ uiConn = "unknown" /\ lastSeen = 0 /\ marked = FALSE
    /\ everConnected = FALSE /\ owed = FALSE
    /\ writer = "idle" /\ closer = "idle"
    /\ link = "none" /\ toClient = <<>> /\ toServer = <<>>
    /\ greeted = FALSE /\ srvSet = NoSet /\ produced = 0 /\ faults = 0

-----------------------------------------------------------------------------
(* The client's goroutine. *)

(* Fault: emit with a default case, which drops the event when the channel
   is full. *)
EmitDropsWhenFull(e) ==
    events' = IF Len(events) < Cap THEN Append(events, e) ELSE events

(* Fault: emit as a plain send, deaf to the context. *)
EmitIgnoresContext(e) == Len(events) < Cap /\ events' = Append(events, e)

(* emit: a send that waits for room, raced against the cancelled context
   (client.go:251-256). *)
Emit(e) ==
    \/ Len(events) < Cap /\ events' = Append(events, e)
    \/ ctxDone /\ UNCHANGED events

Announce ==
    /\ pc = "announce"
    /\ Emit(Connecting)
    /\ pc' = "dial"
    /\ UNCHANGED <<attempt, connected, held, ids, closeVars, retryCh, conn, uiVars,
                   setVars, netVars, owed>>

(* Fault: the schedule is not restarted after an established session. *)
SessionReturnsKeepsAttempt ==
    /\ pc' = IF ctxDone THEN "exiting" ELSE "report"
    /\ UNCHANGED <<attempt, connected, held, ids>>

(* What run does with the end of a session: leave if the context is done,
   otherwise report, after restarting the schedule if the session had been
   established (client.go:141-149). *)
SessionReturns ==
    /\ pc' = IF ctxDone THEN "exiting" ELSE "report"
    /\ attempt' = IF connected THEN 0 ELSE attempt
    /\ UNCHANGED <<connected, held, ids>>

DialFails ==
    /\ pc = "dial"
    /\ \/ ctxDone /\ UNCHANGED faults
       \/ faults < MaxFaults /\ faults' = faults + 1
    /\ SessionReturns
    /\ UNCHANGED <<events, closeVars, retryCh, conn, uiVars, setVars, link, toClient,
                   toServer, greeted, srvSet, produced, owed>>

DialSucceeds ==
    /\ pc = "dial"
    /\ ~ctxDone
    /\ pc' = "read"
    /\ conn' = TRUE
    /\ link' = "up"
    /\ UNCHANGED <<attempt, connected, held, ids, events, closeVars, retryCh, uiVars,
                   setVars, toClient, toServer, greeted, srvSet, produced, faults,
                   owed>>

(* session's deferred calls: the ping goroutine's context ends, c.conn is
   cleared, the connection is closed.  A SetSubscriptions caught before its
   write is left with a dead connection. *)
Teardown ==
    /\ conn' = FALSE
    /\ link' = "none"
    /\ toClient' = <<>>
    /\ toServer' = <<>>
    /\ greeted' = FALSE
    /\ srvSet' = NoSet
    /\ writer' = IF writer = "live" THEN "stale" ELSE writer

ReadFails ==
    /\ pc = "read"
    /\ \/ ctxDone
       \/ link = "closed"
       \/ link = "broken" /\ toClient = <<>>
    /\ SessionReturns
    /\ Teardown
    /\ UNCHANGED <<events, closeVars, retryCh, uiVars, chatIDs, produced, faults, owed>>

ReadReady ==
    /\ pc = "read"
    /\ link # "closed"
    /\ toClient # <<>> /\ Head(toClient) = ReadyFrame
    /\ toClient' = Tail(toClient)
    /\ ids' = chatIDs
    /\ pc' = "subscribe"
    /\ UNCHANGED <<attempt, connected, held, events, closeVars, retryCh, conn, uiVars,
                   setVars, link, toServer, greeted, srvSet, produced, faults, owed>>

(* Acknowledgements, server errors and frames that do not decode. *)
ReadIgnored ==
    /\ pc = "read"
    /\ link # "closed"
    /\ toClient # <<>> /\ Head(toClient) = AckFrame
    /\ toClient' = Tail(toClient)
    /\ UNCHANGED <<runVars, events, closeVars, retryCh, conn, uiVars, setVars, link,
                   toServer, greeted, srvSet, produced, faults, owed>>

ReadEvent ==
    /\ pc = "read"
    /\ link # "closed"
    /\ toClient # <<>> /\ Head(toClient) \in Messages
    /\ toClient' = Tail(toClient)
    /\ held' = Head(toClient).n
    /\ pc' = "forward"
    /\ UNCHANGED <<attempt, connected, ids, events, closeVars, retryCh, conn, uiVars,
                   setVars, link, toServer, greeted, srvSet, produced, faults, owed>>

(* Fault: the default set is taken for granted and not sent. *)
SubscribeSkipsDefault ==
    /\ pc = "subscribe"
    /\ link # "closed"
    /\ \/ ids # 0 /\ Len(toServer) < WireCap /\ toServer' = Append(toServer, ids)
       \/ ids = 0 /\ UNCHANGED toServer
    /\ pc' = "ready"
    /\ UNCHANGED <<attempt, connected, held, ids, events, closeVars, retryCh, conn,
                   uiVars, setVars, link, toClient, greeted, srvSet, produced, faults,
                   owed>>

(* A write on a broken or silent connection may be accepted by the kernel:
   it only never arrives. *)
SubscribeWritten ==
    /\ pc = "subscribe"
    /\ link # "closed"
    /\ \/ link = "up" /\ Len(toServer) < WireCap /\ toServer' = Append(toServer, ids)
       \/ link # "up" /\ UNCHANGED toServer
    /\ pc' = "ready"
    /\ UNCHANGED <<attempt, connected, held, ids, events, closeVars, retryCh, conn,
                   uiVars, setVars, link, toClient, greeted, srvSet, produced, faults,
                   owed>>

SubscribeFails ==
    /\ pc = "subscribe"
    /\ link # "up" \/ ctxDone
    /\ SessionReturns
    /\ Teardown
    /\ UNCHANGED <<events, closeVars, retryCh, uiVars, chatIDs, produced, faults, owed>>

(* connected is the goroutine's own variable: setting it with the end of
   the emit that follows is the same program. *)
EmitConnected ==
    /\ pc = "ready"
    /\ Emit(Connected)
    /\ connected' = TRUE
    /\ pc' = "read"
    /\ UNCHANGED <<attempt, held, ids, closeVars, retryCh, conn, uiVars, setVars,
                   netVars, owed>>

EmitEvent ==
    /\ pc = "forward"
    /\ Emit(Message(held))
    /\ held' = 0
    /\ pc' = "read"
    /\ UNCHANGED <<attempt, connected, ids, closeVars, retryCh, conn, uiVars, setVars,
                   netVars, owed>>

Report ==
    /\ pc = "report"
    /\ Emit(Disconnected(Least(attempt, BackoffLen - 1)))
    /\ attempt' = Least(attempt + 1, BackoffLen)
    /\ connected' = FALSE
    /\ pc' = "backoff"
    /\ UNCHANGED <<held, ids, closeVars, retryCh, conn, uiVars, setVars, netVars, owed>>

TimerFires ==
    /\ pc = "backoff"
    /\ pc' = "announce"
    /\ UNCHANGED <<attempt, connected, held, ids, events, closeVars, retryCh, conn,
                   uiVars, setVars, netVars, owed>>

TakeRetry ==
    /\ pc = "backoff"
    /\ retryCh
    /\ retryCh' = FALSE
    /\ attempt' = 0
    /\ pc' = "announce"
    /\ UNCHANGED <<connected, held, ids, events, closeVars, conn, uiVars, setVars,
                   netVars, owed>>

BackoffCancelled ==
    /\ pc = "backoff"
    /\ ctxDone
    /\ pc' = "exiting"
    /\ UNCHANGED <<attempt, connected, held, ids, events, closeVars, retryCh, conn,
                   uiVars, setVars, netVars, owed>>

CloseEvents ==
    /\ pc = "exiting"
    /\ eventsClosed' = TRUE
    /\ pc' = "drained"
    /\ UNCHANGED <<attempt, connected, held, ids, events, doneClosed, ctxDone, closer,
                   retryCh, conn, uiVars, setVars, netVars, owed>>

CloseDone ==
    /\ pc = "drained"
    /\ doneClosed' = TRUE
    /\ pc' = "done"
    /\ UNCHANGED <<attempt, connected, held, ids, events, eventsClosed, ctxDone, closer,
                   retryCh, conn, uiVars, setVars, netVars, owed>>

-----------------------------------------------------------------------------
(* Fault: a failed ping ends the goroutine and nothing else. *)
PingFailsQuietly == FALSE /\ UNCHANGED vars

(* The session's ping goroutine: a ping whose pong does not come in time
   closes the connection.  The pong is processed by the read loop, so a
   healthy connection fails its ping too when that loop is stuck in an emit
   behind a full channel; that outcome counts as a fault. *)
PingFails ==
    /\ pc \in InSession
    /\ \/ link \in {"silent", "broken"} /\ UNCHANGED faults
       \/ /\ link = "up" /\ pc # "read" /\ Len(events) = Cap
          /\ faults < MaxFaults /\ faults' = faults + 1
    /\ link' = "closed"
    /\ UNCHANGED <<runVars, events, closeVars, retryCh, conn, uiVars, setVars, toClient,
                   toServer, greeted, srvSet, produced, owed>>

-----------------------------------------------------------------------------
(* The UI. *)

(* Fault: a lost connection makes the next one count as the first. *)
ApplyForgetsConnection(e) ==
    \/ /\ e.type = "message"
       /\ lastSeen' = e.n
       /\ marked' = FALSE
       /\ UNCHANGED <<uiConn, everConnected, owed>>
    \/ /\ e.type # "message"
       /\ uiConn' = e.type
       /\ marked' = (marked \/ e = Connected)
       /\ everConnected' = IF e = Connected THEN TRUE
                           ELSE everConnected /\ e.type # "disconnected"
       /\ owed' = (owed /\ ~(e = Connected /\ everConnected))
       /\ UNCHANGED lastSeen

(* The part of applyWSEvent that keeps the connection state.  The first
   "connected" only sets everConnected; every later one refetches the chat
   list and the open conversation, which brings whatever the server has by
   now (reconcileAfterReconnect; a refetch that fails is Conversation's). *)
Apply(e) ==
    \/ /\ e.type = "message"
       /\ lastSeen' = e.n
       /\ marked' = FALSE
       /\ UNCHANGED <<uiConn, everConnected, owed>>
    \/ /\ e.type # "message"
       /\ uiConn' = e.type
       /\ marked' = (marked \/ e = Connected)
       /\ everConnected' = (everConnected \/ e = Connected)
       /\ owed' = (owed /\ ~(e = Connected /\ everConnected))
       /\ UNCHANGED lastSeen

(* waitForWSEvent; the program stops reading before it calls Close. *)
Consume ==
    /\ closer = "idle"
    /\ events # <<>>
    /\ events' = Tail(events)
    /\ Apply(Head(events))
    /\ UNCHANGED <<runVars, closeVars, retryCh, conn, setVars, netVars>>

Retry ==
    /\ closer = "idle"
    /\ ~retryCh
    /\ retryCh' = TRUE
    /\ UNCHANGED <<runVars, events, closeVars, conn, uiVars, setVars, netVars, owed>>

SetSubscriptions ==
    /\ closer = "idle"
    /\ writer = "idle"
    /\ chatIDs < MaxSets
    /\ chatIDs' = chatIDs + 1
    /\ writer' = IF conn THEN "live" ELSE "idle"
    /\ UNCHANGED <<runVars, events, closeVars, retryCh, conn, uiVars, netVars, owed>>

(* SetSubscriptions' own sendSubscriptions: reads the set again, writes
   outside the lock, ignores the error. *)
WriteSubscriptions ==
    /\ writer # "idle"
    /\ writer' = "idle"
    /\ \/ /\ writer = "live" /\ link = "up" /\ Len(toServer) < WireCap
          /\ toServer' = Append(toServer, chatIDs)
       \/ /\ writer = "stale" \/ link # "up"
          /\ UNCHANGED toServer
    /\ UNCHANGED <<runVars, events, closeVars, retryCh, conn, uiVars, chatIDs, link,
                   toClient, greeted, srvSet, produced, faults, owed>>

Close ==
    /\ closer = "idle"
    /\ closer' = "waiting"
    /\ ctxDone' = TRUE
    /\ UNCHANGED <<runVars, events, eventsClosed, doneClosed, retryCh, conn, uiVars,
                   setVars, netVars, owed>>

CloseReturns ==
    /\ closer = "waiting"
    /\ doneClosed
    /\ closer' = "returned"
    /\ UNCHANGED <<runVars, events, eventsClosed, doneClosed, ctxDone, retryCh, conn,
                   uiVars, setVars, netVars, owed>>

-----------------------------------------------------------------------------
(* The server and the network. *)

ServerReady ==
    /\ link = "up" /\ ~greeted
    /\ Len(toClient) < WireCap
    /\ toClient' = Append(toClient, ReadyFrame)
    /\ greeted' = TRUE
    /\ UNCHANGED <<runVars, events, closeVars, retryCh, conn, uiVars, setVars, link,
                   toServer, srvSet, produced, faults, owed>>

ServerSubscribes ==
    /\ link = "up" /\ greeted
    /\ toServer # <<>>
    /\ Len(toClient) < WireCap
    /\ srvSet' = Head(toServer)
    /\ toServer' = Tail(toServer)
    /\ toClient' = Append(toClient, AckFrame)
    /\ UNCHANGED <<runVars, events, closeVars, retryCh, conn, uiVars, setVars, link,
                   greeted, produced, faults, owed>>

(* A "connected" the UI has yet to apply will be one it answers with a
   refetch: the current session's is still to come or still in the channel,
   or the session is lost, and it will not be the first. *)
RefetchAhead ==
    /\ everConnected
    /\ \/ link # "up"
       \/ ~connected
       \/ \E i \in DOMAIN events : events[i] = Connected

(* Something happens in the chat: streamed to a subscribed client, and
   missed by any other.  The client owes the UI what was streamed and what a
   coming refetch will bring.  The rest is left to the initial load and to the
   poll: what happens before the first session is established, what is missed
   before the first "connected" is applied, and what happens between the
   application of a "connected" and the server's turn to process the set. *)
ServerEvent ==
    /\ produced < MaxEvents
    /\ produced' = produced + 1
    /\ \/ /\ link = "up" /\ srvSet # NoSet /\ Len(toClient) < WireCap
          /\ toClient' = Append(toClient, Message(produced + 1))
          /\ owed' = (everConnected \/ connected)
       \/ /\ link # "up" \/ srvSet = NoSet
          /\ owed' = RefetchAhead
          /\ UNCHANGED toClient
    /\ UNCHANGED <<runVars, events, closeVars, retryCh, conn, uiVars, setVars, link,
                   toServer, greeted, srvSet, faults>>

(* The transport fails, noticed by the peer's reset or not at all: frames
   beyond some point never arrive. *)
LinkFails ==
    /\ link = "up"
    /\ faults < MaxFaults
    /\ faults' = faults + 1
    /\ link' \in {"broken", "silent"}
    /\ \E k \in 0..Len(toClient) : toClient' = SubSeq(toClient, 1, k)
    /\ toServer' = <<>>
    /\ UNCHANGED <<runVars, events, closeVars, retryCh, conn, uiVars, setVars, greeted,
                   srvSet, produced, owed>>

-----------------------------------------------------------------------------

Run ==
    \/ Announce \/ DialSucceeds \/ DialFails
    \/ ReadFails \/ ReadReady \/ ReadIgnored \/ ReadEvent
    \/ SubscribeWritten \/ SubscribeFails \/ EmitConnected \/ EmitEvent
    \/ Report \/ TimerFires \/ TakeRetry \/ BackoffCancelled
    \/ CloseEvents \/ CloseDone

UI ==
    \/ Consume \/ Retry \/ SetSubscriptions \/ WriteSubscriptions
    \/ Close \/ CloseReturns

Environment == ServerReady \/ ServerSubscribes \/ ServerEvent \/ LinkFails

Next == Run \/ PingFails \/ UI \/ Environment

Spec == Init /\ [][Next]_vars

(* Every goroutine of the client keeps taking steps it can take, the UI
   keeps reading until it closes, timers fire.  The server greets a new
   connection and processes what it receives.  Nothing makes a network
   fail, a user press a key or a chat have news. *)
Fairness ==
    /\ WF_vars(Run)
    /\ WF_vars(PingFails /\ link # "up")
    /\ WF_vars(Consume)
    /\ WF_vars(WriteSubscriptions)
    /\ WF_vars(CloseReturns)
    /\ WF_vars(ServerReady)
    /\ WF_vars(ServerSubscribes)

FairSpec == Spec /\ Fairness

-----------------------------------------------------------------------------
(* Properties. *)

(* What lies between the UI and the server, in the order in which the UI has
   seen or will see it: the last event applied, a "connected" since then, the
   channel, what the session holds, the wire. *)
Places == 0..(Cap + WireCap + 2)
Nothing == [type |-> "nothing", n |-> 0]
Slot(s, i) == IF i \in 1..Len(s) THEN s[i] ELSE Nothing

Belt(seen, told, queue, hand, wire) ==
    [p \in Places |-> IF p = 0 THEN Message(seen)
                      ELSE IF p = 1 THEN told
                      ELSE IF p <= Cap + 1 THEN Slot(queue, p - 1)
                      ELSE IF p = Cap + 2 THEN hand
                      ELSE Slot(wire, p - (Cap + 2))]

InHand ==
    IF pc = "forward" THEN Message(held)
    ELSE IF pc \in {"subscribe", "ready"} THEN Connected
    ELSE Nothing

Line == Belt(lastSeen, IF marked THEN Connected ELSE Nothing, events, InHand, toClient)

IsMessage(f) == f.type = "message"
IsMark(f) == f.type \in {"connected", "ready"}
Relevant(f) == IsMessage(f) \/ IsMark(f)

(* Whatever the network loses, two domain events that reach the UI with
   nothing between them are consecutive in the server's history, and none
   comes twice or out of order: every gap is announced by a "connected"
   (client.go:183-209).  Between two domain events that is never the UI's
   first one, so it answers with a full refetch; only the gap before the
   first domain event may be announced by the first "connected", which does
   not refetch (wsevents.go:60-67).  The code never looks at the sequence
   number of an event, so nothing else would reveal a gap. *)
Gapless(line) ==
    \A p, q \in Places :
        p < q /\ IsMessage(line[p]) /\ IsMessage(line[q]) =>
            /\ line[p].n < line[q].n
            /\ \/ line[q].n = line[p].n + 1
               \/ \E k \in Places : p < k /\ k < q /\ Relevant(line[k])

NoSilentGap == ~ctxDone => Gapless(Line)

(* A session that says "connected" has handed its subscription set to a
   connection that was still good, or that connection has already failed
   (client.go:195-200): the UI is never told it is connected to a healthy
   server that was never asked for events. *)
SubscribedBeforeConnected ==
    pc \in InSession /\ connected /\ link = "up" => toServer # <<>> \/ srvSet # NoSet

(* "The Events channel is closed before Close returns" (client.go:126-127),
   and by then no connection is left behind. *)
ClosedBeforeReturn == closer = "returned" => eventsClosed /\ ~conn /\ link = "none"

(* The client implements the stream its readers are promised. *)
StreamPhase ==
    IF pc \in {"exiting", "drained", "done"} THEN "closed"
    ELSE IF pc \in {"announce", "backoff"} THEN "idle"
    ELSE IF connected THEN "connected" ELSE "connecting"

Stream == INSTANCE WsStream WITH
    phase <- StreamPhase,
    queue <- events,
    cancelled <- ctxDone

ImplementsStream == Stream!Spec

(* So the events waiting for the UI follow the stream's grammar. *)
StreamGrammar == Stream!Grammar

(* Close always returns, even when the channel is full, nobody reads it any
   more and the goroutine is blocked in an emit (client.go:126-131, 251-256). *)
CloseTerminates == ctxDone ~> closer = "returned"

(* Once the network stops failing the UI ends up connected and stays so,
   whatever failed before: a refused dial, a reset, a silently dead
   connection that only the ping can find (client.go:133-159, 211-230). *)
EventuallyConnected == <>ctxDone \/ <>[](uiConn = "connected")

(* In the end the UI has applied the server's latest event, or has refetched
   since it happened, whatever was lost on the way and whichever session was
   the first: an event that was streamed and lost with its connection, and
   one that happened while there was no connection, are always followed by a
   "connected" that is not the UI's first and so refetches (client.go:183-209,
   wsevents.go:60-67).  What nothing brings but the initial load or the poll
   is left out where ServerEvent says so. *)
HeardOrRefetched == <>ctxDone \/ <>[](lastSeen = produced \/ ~owed)
=============================================================================
