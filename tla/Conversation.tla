---------------------------- MODULE Conversation ----------------------------
(***************************************************************************)
(* The open conversation of internal/ui: the rows on screen, optimistic    *)
(* sends and their failure flags, and the four sources that rewrite the    *)
(* rows in whatever order they arrive: the load of an opened chat, the     *)
(* background refresh, the live event stream and the user.                 *)
(*                                                                         *)
(* A command of the Bubble Tea program is a request in flight: the server  *)
(* answers it at some moment with what it holds then, and the answer       *)
(* reaches Update at some later moment, in any order with the others.      *)
(* The stream is the one WsClient provides: in order, lossless while       *)
(* connected and subscribed, with gaps announced by "connected".           *)
(*                                                                         *)
(* Rows form a set: their order on screen, the cursor and the scroll       *)
(* window are left out, so are the texts, but for which sends share one.   *)
(***************************************************************************)
EXTENDS Naturals, Sequences, FiniteSets

CONSTANTS
    Chats,
    NoChat,
    MaxSends,    \* bound: messages the user sends
    SendText,    \* the text of each of them
    MaxNews,     \* bound: changes made elsewhere
    MaxReacts,   \* bound: reactions the user toggles
    MaxFaults,   \* bound: failed requests and dropped connections
    MaxFetches,  \* bound: fetches in flight
    StreamCap,   \* bound: events between the server and Update
    MaxEpoch     \* bound: times the clock advances past hasEcho's allowance

ASSUME ChatsAssumption == NoChat \notin Chats
ASSUME NatAssumption ==
    /\ MaxSends \in Nat /\ MaxNews \in Nat /\ MaxReacts \in Nat /\ MaxFaults \in Nat
    /\ MaxFetches \in Nat /\ StreamCap \in Nat \ {0} /\ MaxEpoch \in Nat

VARIABLES
    \* the Model
    mode,          \* m.mode
    current,       \* m.currentChatID
    messages,      \* m.messages
    failed,        \* m.failedSends
    loading,       \* m.loadingMsgs
    convErr,       \* m.convErr is set
    sent,          \* m.localSeq
    everConnected, \* m.everConnected
    \* requests in flight
    fetches,       \* loads and refreshes
    sending,       \* the send request of each message
    reacting,      \* reaction requests
    \* the server and the way from it
    store,         \* the messages of each chat
    outbox,        \* sends accepted and not yet dispatched by the bridge
    stream,        \* events on their way to Update
    link,          \* the event stream's connection
    now,           \* the clock, in steps of hasEcho's two-minute allowance
    \* bookkeeping of the model
    target,        \* the chat each message was sent to
    copies,        \* how many times the bridge has dispatched it
    news, reacts, faults

viewVars == <<mode, current, messages, failed, loading, convErr, sent, everConnected>>
reqVars == <<fetches, sending, reacting>>
srvVars == <<store, outbox, stream, link, now>>
bookVars == <<target, copies, news, reacts, faults>>
vars == <<viewVars, reqVars, srvVars, bookVars>>

Sends == 1..MaxSends
Epochs == 0..MaxEpoch

Local(l) == [kind |-> "local", n |-> l, k |-> 0]
Copy(l, k) == [kind |-> "copy", n |-> l, k |-> k]
Other(n) == [kind |-> "other", n |-> n, k |-> 0]
Ids == [kind : {"local", "copy"}, n : Sends, k : Nat]
          \cup [kind : {"other"}, n : Nat \ {0}, k : {0}]

(* ver counts the server's changes to a message, react is the user's own
   reaction. *)
Rows == [id : Ids, chat : Chats, at : Epochs, ver : Nat, react : BOOLEAN]
Fetches == [op : {"load", "refresh"}, chat : Chats,
            phase : {"asked", "answered", "failed"}, rows : SUBSET Rows]
Reactions == [id : Ids, chat : Chats, on : BOOLEAN, phase : {"asked", "failed"}]
EventTypes == {"connected", "upsert", "reaction", "deleted"}
Events == [type : EventTypes, chat : Chats \cup {NoChat}, rows : SUBSET Rows]

IsLocal(m) == m.id.kind = "local"
FromMe(m) == m.id.kind # "other"
SameText(m, r) == SendText[m.id.n] = SendText[r.id.n]
LocalRows(rows) == {m \in rows : IsLocal(m)}

TypeOK ==
    /\ mode \in {"list", "conversation", "insert", "react"}
    /\ current \in Chats \cup {NoChat}
    /\ mode # "list" => current \in Chats
    /\ messages \subseteq Rows
    /\ failed \subseteq Sends
    /\ loading \in BOOLEAN /\ convErr \in BOOLEAN /\ everConnected \in BOOLEAN
    /\ sent \in 0..MaxSends
    /\ fetches \subseteq Fetches
    /\ sending \in [Sends -> {"idle", "asked", "err"}]
    /\ reacting \subseteq Reactions
    /\ store \in [Chats -> SUBSET Rows]
    /\ outbox \in [Sends -> Nat]
    /\ stream \in Seq(Events)
    /\ link \in {"down", "up", "listening"}
    /\ now \in Epochs
    /\ target \in [Sends -> Chats \cup {NoChat}]
    /\ copies \in [Sends -> Nat]
    /\ news \in 0..MaxNews /\ reacts \in 0..MaxReacts /\ faults \in 0..MaxFaults

Init ==
    /\ mode = "list" /\ current = NoChat /\ messages = {} /\ failed = {}
    /\ loading = FALSE /\ convErr = FALSE /\ sent = 0 /\ everConnected = FALSE
    /\ fetches = {} /\ sending = [l \in Sends |-> "idle"] /\ reacting = {}
    /\ store = [c \in Chats |-> {}] /\ outbox = [l \in Sends |-> 0]
    /\ stream = <<>> /\ link = "down" /\ now = 0
    /\ target = [l \in Sends |-> NoChat] /\ copies = [l \in Sends |-> 0]
    /\ news = 0 /\ reacts = 0 /\ faults = 0

-----------------------------------------------------------------------------
(* The user. *)

Ask(op, c) == [op |-> op, chat |-> c, phase |-> "asked", rows |-> {}]

(* Start one more fetch; finished is the one whose result is being handled. *)
Issue(f, finished) ==
    /\ fetches' = (fetches \ finished) \cup {f}
    /\ Cardinality(fetches') <= MaxFetches

Open(c) ==
    /\ mode = "list"
    /\ mode' = "conversation"
    /\ current' = c
    /\ messages' = {}
    /\ convErr' = FALSE
    /\ loading' = TRUE
    /\ Issue(Ask("load", c), {})
    /\ UNCHANGED <<failed, sent, everConnected, sending, reacting, srvVars, bookVars>>

(* currentChatID and the rows survive the return to the list. *)
Back ==
    /\ mode = "conversation"
    /\ mode' = "list"
    /\ convErr' = FALSE
    /\ UNCHANGED <<current, messages, failed, loading, sent, everConnected, reqVars,
                   srvVars, bookVars>>

(* i, r, and the keys that give up composing or picking. *)
ChangeMode ==
    /\ \/ mode = "conversation" /\ mode' = "insert"
       \/ mode = "conversation" /\ messages # {} /\ mode' = "react"
       \/ mode \in {"insert", "react"} /\ mode' = "conversation"
    /\ UNCHANGED <<current, messages, failed, loading, convErr, sent, everConnected,
                   reqVars, srvVars, bookVars>>

SendInput ==
    /\ mode = "insert"
    /\ sent < MaxSends
    /\ LET l == sent + 1 IN
         /\ sent' = l
         /\ messages' = messages \cup
                {[id |-> Local(l), chat |-> current, at |-> now, ver |-> 0, react |-> FALSE]}
         /\ sending' = [sending EXCEPT ![l] = "asked"]
         /\ target' = [target EXCEPT ![l] = current]
    /\ mode' = "conversation"
    /\ UNCHANGED <<current, failed, loading, convErr, everConnected, fetches, reacting,
                   srvVars, copies, news, reacts, faults>>

(* Fault: the flag stays up while the message is sent again. *)
RetryKeepsFlag ==
    /\ mode = "conversation"
    /\ \E m \in messages :
         /\ IsLocal(m) /\ m.id.n \in failed
         /\ sending' = [sending EXCEPT ![m.id.n] = "asked"]
    /\ UNCHANGED <<mode, current, messages, failed, loading, convErr, sent, everConnected,
                   fetches, reacting, srvVars, bookVars>>

(* R on a row that has a failure flag. *)
RetryFailedSend ==
    /\ mode = "conversation"
    /\ \E m \in messages :
         /\ IsLocal(m) /\ m.id.n \in failed
         /\ failed' = failed \ {m.id.n}
         /\ sending' = [sending EXCEPT ![m.id.n] = "asked"]
    /\ UNCHANGED <<mode, current, messages, loading, convErr, sent, everConnected,
                   fetches, reacting, srvVars, bookVars>>

(* Any row can be reacted to, an optimistic one too. *)
ToggleReaction ==
    /\ mode = "react"
    /\ reacts < MaxReacts /\ reacts' = reacts + 1
    /\ \E m \in messages :
         /\ messages' = (messages \ {m}) \cup {[m EXCEPT !.react = ~m.react]}
         /\ reacting' = reacting \cup
                {[id |-> m.id, chat |-> current, on |-> ~m.react, phase |-> "asked"]}
    /\ mode' = "conversation"
    /\ UNCHANGED <<current, failed, loading, convErr, sent, everConnected, fetches,
                   sending, srvVars, target, copies, news, faults>>

PollTick ==
    /\ mode \in {"conversation", "insert"}
    /\ Issue(Ask("refresh", current), {})
    /\ UNCHANGED <<viewVars, sending, reacting, srvVars, bookVars>>

-----------------------------------------------------------------------------
(* Results. *)

(* Fault: the answer is shown whatever chat it is for. *)
LoadResultUnchecked(f) ==
    /\ f \in fetches /\ f.op = "load" /\ f.phase = "answered"
    /\ fetches' = fetches \ {f}
    /\ messages' = f.rows
    /\ loading' = FALSE
    /\ UNCHANGED <<mode, current, failed, convErr, sent, everConnected, sending, reacting,
                   srvVars, bookVars>>

LoadResult(f) ==
    /\ f \in fetches /\ f.op = "load" /\ f.phase = "answered"
    /\ fetches' = fetches \ {f}
    /\ IF f.chat = current
       THEN messages' = f.rows /\ loading' = FALSE
       ELSE UNCHANGED <<messages, loading>>
    /\ UNCHANGED <<mode, current, failed, convErr, sent, everConnected, sending, reacting,
                   srvVars, bookVars>>

(* Fault: the error is recorded, the spinner is left on. *)
LoadErrorKeepsLoading(f) ==
    /\ f \in fetches /\ f.op = "load" /\ f.phase = "failed"
    /\ fetches' = fetches \ {f}
    /\ convErr' = (convErr \/ f.chat = current)
    /\ UNCHANGED <<mode, current, messages, failed, loading, sent, everConnected, sending,
                   reacting, srvVars, bookVars>>

LoadError(f) ==
    /\ f \in fetches /\ f.op = "load" /\ f.phase = "failed"
    /\ fetches' = fetches \ {f}
    /\ IF f.chat = current
       THEN convErr' = TRUE /\ loading' = FALSE
       ELSE UNCHANGED <<convErr, loading>>
    /\ UNCHANGED <<mode, current, messages, failed, sent, everConnected, sending, reacting,
                   srvVars, bookVars>>

HasEcho(rows, m) ==
    \E r \in rows : FromMe(r) /\ ~IsLocal(r) /\ SameText(r, m) /\ r.at >= m.at

Echoed(rows) == {m \in LocalRows(messages) : HasEcho(rows, m)}

(* Fault: the refetched rows simply replace those on screen. *)
RefreshReplaces(rows) == messages' = rows /\ UNCHANGED failed

(* Fault: the flags are cleared with or without an echo. *)
RefreshClearsFlags(rows) ==
    /\ messages' = rows \cup (LocalRows(messages) \ Echoed(rows))
    /\ failed' = failed \ {m.id.n : m \in LocalRows(messages)}

(* Fault: a refresh adds the rows it does not know and keeps the others. *)
RefreshKeepsKnown(rows) ==
    /\ messages' = {r \in rows : \A m \in messages : m.id # r.id}
                      \cup (messages \ Echoed(rows))
    /\ failed' = failed \ {m.id.n : m \in Echoed(rows)}

(* The rows of a refresh, and the optimistic sends it does not carry yet. *)
Refreshed(rows) ==
    /\ messages' = rows \cup (LocalRows(messages) \ Echoed(rows))
    /\ failed' = failed \ {m.id.n : m \in Echoed(rows)}

(* A failed refresh has no result at all. *)
RefreshResult(f) ==
    /\ f \in fetches /\ f.op = "refresh" /\ f.phase = "answered"
    /\ fetches' = fetches \ {f}
    /\ IF f.chat = current THEN Refreshed(f.rows) ELSE UNCHANGED <<messages, failed>>
    /\ UNCHANGED <<mode, current, loading, convErr, sent, everConnected, sending, reacting,
                   srvVars, bookVars>>

SendError(l) ==
    /\ sending[l] = "err"
    /\ sending' = [sending EXCEPT ![l] = "idle"]
    /\ failed' = failed \cup {l}
    /\ IF current # NoChat THEN Issue(Ask("refresh", current), {}) ELSE UNCHANGED fetches
    /\ UNCHANGED <<mode, current, messages, loading, convErr, sent, everConnected,
                   reacting, srvVars, bookVars>>

ReactError(q) ==
    /\ q \in reacting /\ q.phase = "failed"
    /\ reacting' = reacting \ {q}
    /\ IF q.chat = current THEN Issue(Ask("load", current), {}) ELSE UNCHANGED fetches
    /\ UNCHANGED <<viewVars, sending, srvVars, bookVars>>

-----------------------------------------------------------------------------
(* The event stream, applied by Update. *)

NextEvent(type) == stream # <<>> /\ Head(stream).type = type /\ stream' = Tail(stream)

(* The first "connected" changes nothing; a later one refetches. *)
ApplyConnected ==
    /\ NextEvent("connected")
    /\ everConnected' = TRUE
    /\ IF everConnected /\ current # NoChat
       THEN Issue(Ask("load", current), {})
       ELSE UNCHANGED fetches
    /\ UNCHANGED <<mode, current, messages, failed, loading, convErr, sent, sending,
                   reacting, store, outbox, link, now, bookVars>>

(* Placeholders are in the order they were made, so the first that matches
   is the oldest. *)
Claimed(m) ==
    LET match == {r \in LocalRows(messages) : FromMe(m) /\ SameText(r, m)}
    IN  {r \in match : \A o \in match : r.id.n <= o.id.n}

(* Fault: a live message never claims a placeholder. *)
UpsertWithoutClaim(m) ==
    /\ messages' = {r \in messages : r.id # m.id} \cup {m}
    /\ UNCHANGED failed

Upsert(m) ==
    \/ /\ Claimed(m) # {}
       /\ messages' = (messages \ Claimed(m)) \cup {m}
       /\ failed' = failed \ {r.id.n : r \in Claimed(m)}
    \/ /\ Claimed(m) = {}
       /\ messages' = {r \in messages : r.id # m.id} \cup {m}
       /\ UNCHANGED failed

(* A message of a chat that is not in m.chats only has the list refetched.
   Whether a chat is listed is ChatList's business, and one opened from a
   search hit may not be, so an event of the open chat has both outcomes. *)
ApplyUpsert ==
    /\ NextEvent("upsert")
    /\ LET e == Head(stream) IN
         \/ /\ e.chat = current /\ mode \in {"conversation", "insert"}
            /\ \E m \in e.rows : Upsert(m)
         \/ UNCHANGED <<messages, failed>>
    /\ UNCHANGED <<mode, current, loading, convErr, sent, everConnected, reqVars, store,
                   outbox, link, now, bookVars>>

ApplyReaction ==
    /\ NextEvent("reaction")
    /\ IF Head(stream).chat = current /\ mode # "list"
       THEN Issue(Ask("refresh", current), {})
       ELSE UNCHANGED fetches
    /\ UNCHANGED <<viewVars, sending, reacting, store, outbox, link, now, bookVars>>

ApplyDeleted ==
    /\ NextEvent("deleted")
    /\ LET e == Head(stream) IN
         messages' = IF e.chat = current
                     THEN {m \in messages : \A r \in e.rows : r.id # m.id}
                     ELSE messages
    /\ UNCHANGED <<mode, current, failed, loading, convErr, sent, everConnected, reqVars,
                   store, outbox, link, now, bookVars>>

-----------------------------------------------------------------------------
(* The server. *)

Fails == faults < MaxFaults /\ faults' = faults + 1

Answer(f) ==
    /\ f \in fetches /\ f.phase = "asked"
    /\ fetches' = (fetches \ {f}) \cup {[f EXCEPT !.phase = "answered", !.rows = store[f.chat]]}
    /\ UNCHANGED <<viewVars, sending, reacting, srvVars, bookVars>>

FetchFails(f) ==
    /\ f \in fetches /\ f.phase = "asked"
    /\ Fails
    /\ fetches' = (fetches \ {f})
                     \cup (IF f.op = "load" THEN {[f EXCEPT !.phase = "failed"]} ELSE {})
    /\ UNCHANGED <<viewVars, sending, reacting, srvVars, target, copies, news, reacts>>

(* A send is accepted, and the answer may still be lost or come too late.
   The result of a good send changes nothing in the Model. *)
SendAccepted(l) ==
    /\ sending[l] = "asked"
    /\ outbox' = [outbox EXCEPT ![l] = @ + 1]
    /\ \/ sending' = [sending EXCEPT ![l] = "idle"] /\ UNCHANGED faults
       \/ sending' = [sending EXCEPT ![l] = "err"] /\ Fails
    /\ UNCHANGED <<viewVars, fetches, reacting, store, stream, link, now, target, copies,
                   news, reacts>>

SendRejected(l) ==
    /\ sending[l] = "asked"
    /\ Fails
    /\ sending' = [sending EXCEPT ![l] = "err"]
    /\ UNCHANGED <<viewVars, fetches, reacting, srvVars, target, copies, news, reacts>>

(* What happens in a chat is streamed to a subscribed client and missed by
   any other. *)
Publish(e) ==
    IF link = "listening"
    THEN Len(stream) < StreamCap /\ stream' = Append(stream, e)
    ELSE UNCHANGED stream

Event(type, c, rows) == [type |-> type, chat |-> c, rows |-> rows]

(* The bridge dispatches an accepted send: the server's copy appears. *)
Dispatch(l) ==
    /\ outbox[l] > 0
    /\ outbox' = [outbox EXCEPT ![l] = @ - 1]
    /\ copies' = [copies EXCEPT ![l] = @ + 1]
    /\ LET c == target[l]
           m == [id |-> Copy(l, copies[l] + 1), chat |-> c, at |-> now, ver |-> 0,
                 react |-> FALSE]
       IN  /\ store' = [store EXCEPT ![c] = @ \cup {m}]
           /\ Publish(Event("upsert", c, {m}))
    /\ UNCHANGED <<viewVars, reqVars, link, now, target, news, reacts, faults>>

(* Other people, and the user on another device, write, edit or react, and
   delete.  None of them writes what the user has just sent. *)
OthersAct(c) ==
    /\ news < MaxNews /\ news' = news + 1
    /\ \/ LET m == [id |-> Other(news + 1), chat |-> c, at |-> now, ver |-> 0,
                    react |-> FALSE]
          IN  /\ store' = [store EXCEPT ![c] = @ \cup {m}]
              /\ Publish(Event("upsert", c, {m}))
       \/ \E m \in store[c] :
            LET e == [m EXCEPT !.ver = @ + 1] IN
              /\ store' = [store EXCEPT ![c] = (@ \ {m}) \cup {e}]
              /\ Publish(Event("upsert", c, {e})) \/ Publish(Event("reaction", c, {}))
       \/ \E m \in store[c] :
            /\ store' = [store EXCEPT ![c] = @ \ {m}]
            /\ Publish(Event("deleted", c, {m}))
    /\ UNCHANGED <<viewVars, reqVars, outbox, link, now, target, copies, reacts, faults>>

(* A reaction to a message the server does not hold is refused. *)
ReactHandled(q) ==
    /\ q \in reacting /\ q.phase = "asked"
    /\ \/ \E m \in store[q.chat] :
            /\ m.id = q.id
            /\ store' = [store EXCEPT ![q.chat] = (@ \ {m}) \cup {[m EXCEPT !.react = q.on]}]
            /\ Publish(Event("reaction", q.chat, {}))
            /\ reacting' = reacting \ {q}
            /\ UNCHANGED faults
       \/ /\ \/ (\A m \in store[q.chat] : m.id # q.id) /\ UNCHANGED faults
             \/ Fails
          /\ reacting' = (reacting \ {q}) \cup {[q EXCEPT !.phase = "failed"]}
          /\ UNCHANGED <<store, stream>>
    /\ UNCHANGED <<viewVars, fetches, sending, outbox, link, now, target, copies, news,
                   reacts>>

(* The connection drops, with it the events still on the wire. *)
Drop ==
    /\ link # "down"
    /\ Fails
    /\ link' = "down"
    /\ \E k \in 0..Len(stream) : stream' = SubSeq(stream, 1, k)
    /\ UNCHANGED <<viewVars, reqVars, store, outbox, now, target, copies, news, reacts>>

(* The client reports "connected" once its subscription is written; the
   server acts on it some time later. *)
Connect ==
    /\ link = "down"
    /\ Len(stream) < StreamCap
    /\ link' = "up"
    /\ stream' = Append(stream, Event("connected", NoChat, {}))
    /\ UNCHANGED <<viewVars, reqVars, store, outbox, now, bookVars>>

Listen ==
    /\ link = "up"
    /\ link' = "listening"
    /\ UNCHANGED <<viewVars, reqVars, store, outbox, stream, now, bookVars>>

Tick ==
    /\ now < MaxEpoch
    /\ now' = now + 1
    /\ UNCHANGED <<viewVars, reqVars, store, outbox, stream, link, bookVars>>

-----------------------------------------------------------------------------

User ==
    \/ \E c \in Chats : Open(c)
    \/ Back \/ ChangeMode \/ SendInput \/ RetryFailedSend \/ ToggleReaction

Loaded == \E f \in fetches : LoadResult(f) \/ LoadError(f)
Polled == \E f \in fetches : RefreshResult(f)
Settled == (\E l \in Sends : SendError(l)) \/ (\E q \in reacting : ReactError(q))
ApplyEvent == ApplyConnected \/ ApplyUpsert \/ ApplyReaction \/ ApplyDeleted
Answered == \E f \in fetches : Answer(f)
SendHandled == \E l \in Sends : SendAccepted(l) \/ SendRejected(l)

Server ==
    \/ Answered \/ SendHandled
    \/ \E f \in fetches : FetchFails(f)
    \/ \E l \in Sends : Dispatch(l)
    \/ \E c \in Chats : OthersAct(c)
    \/ \E q \in reacting : ReactHandled(q)
    \/ Drop \/ Connect \/ Listen \/ Tick

Next == User \/ PollTick \/ Loaded \/ Polled \/ Settled \/ ApplyEvent \/ Server

Spec == Init /\ [][Next]_vars

(* Every command ends (each has a timeout) and its result is handled, the
   poll timer is re-armed by every tick, the stream is read, accepted sends
   are dispatched and the connection is retried for ever.  Nothing makes
   the user, other people or a fault act. *)
Fairness ==
    /\ WF_vars(PollTick) /\ WF_vars(Loaded) /\ WF_vars(Polled) /\ WF_vars(Settled)
    /\ WF_vars(ApplyEvent) /\ WF_vars(SendHandled)
    /\ \A c \in Chats, op \in {"load", "refresh"} : WF_vars(Answer(Ask(op, c)))
    /\ \A l \in Sends : WF_vars(Dispatch(l))
    /\ WF_vars(\E q \in reacting : ReactHandled(q))
    /\ WF_vars(Connect) /\ WF_vars(Listen)

FairSpec == Spec /\ Fairness

-----------------------------------------------------------------------------
(* Properties. *)

(* Whatever is still in flight for a chat opened before, only messages of
   the chat on screen are on screen (update.go:54-56, poll.go:77-79,
   wsevents.go:135). *)
RowsOfCurrentChat == \A m \in messages : m.chat = current

(* "any message replaces an existing one with the same ID instead of
   double-rendering" (wsevents.go:167-169): no server message is on screen
   twice. *)
OneRowPerMessage == \A m, r \in messages : m # r => m.id # r.id

(* No message is on screen twice: not the same server message, and not a
   placeholder beside the server's copy of it (wsevents.go:166-169,
   poll.go:71-75).  Of messages with equal texts it is not true: a placeholder
   is matched by its text. *)
IsCopyOf(r, m) == IsLocal(m) /\ r.id.kind = "copy" /\ r.id.n = m.id.n

NoDoubleRender == OneRowPerMessage /\ \A m, r \in messages : ~IsCopyOf(r, m)

(* A placeholder without a failure flag is on its way: its request is in
   flight, or the server has accepted it, or it has been dispatched.  A
   message is never left looking sent when it was not (update.go:111-122,
   messages.go:105-119). *)
LooksSentIsSent ==
    \A m \in LocalRows(messages) :
        LET l == m.id.n IN
          l \in failed \/ sending[l] # "idle" \/ outbox[l] > 0 \/ copies[l] > 0

(* A failure flag means that nothing is in flight for the message, so R
   starts the only request there is (messages.go:105-119). *)
OneRequestPerSend == \A l \in failed : sending[l] = "idle"

(* Neither a poll nor a live event removes the placeholder of a message as
   long as the bridge has dispatched no message of the same text, whatever is
   in flight: an older answer, a deletion, the copy of another message
   (poll.go:71-118, wsevents.go:170-190). *)
TextUnsent(l) == \A k \in Sends : SendText[k] = SendText[l] => copies[k] = 0

UnsentStaysOnScreen ==
    [][Polled \/ ApplyEvent =>
         \A m \in LocalRows(messages) : TextUnsent(m.id.n) => m \in messages']_vars

(* The rows of the open chat are those of the server, and beside them only
   messages that have not been sent. *)
HoldsServer ==
    /\ current \in Chats
    /\ messages \ LocalRows(messages) = store[current]
    /\ \A m \in messages, r \in store[current] : ~IsCopyOf(r, m)

(* They are on screen: an error of a load is shown in place of them
   (view.go:186-191). *)
ShowsServer == HoldsServer /\ ~convErr

(* A conversation that stays open has in the end the rows the server holds,
   in spite of missed events, stale answers and failures, refused reactions
   among them.  It shows them, unless a load of it has failed since it was
   opened: that error is never cleared (poll.go:13-17, update.go:145-151). *)
StaysOpen == <>[](mode \in {"conversation", "insert"})

Converges == StaysOpen => <>[]ShowsServer \/ <>[](HoldsServer /\ convErr)

(* "Loading messages" does not stay for ever: the load of the chat on screen
   ends or fails (update.go:54-57, 145-151). *)
LoadingEnds == loading ~> ~loading
=============================================================================
