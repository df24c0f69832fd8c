------------------------- MODULE ConversationProofs -------------------------
(***************************************************************************)
(* The conversation is well-typed, shows only messages of its own chat,    *)
(* never leaves an unsent message looking sent, and starts one request per *)
(* message, for every number of chats, messages and failures and whatever  *)
(* texts the messages have; no poll and no event removes a placeholder as  *)
(* long as nothing of its text has been dispatched.  With distinct texts,  *)
(* none puts a message on screen twice.                                    *)
(***************************************************************************)
EXTENDS Conversation, TLAPS

(* Sequence numbers in use are those handed out. *)
Known ==
    /\ \A l \in Sends : l <= sent => target[l] \in Chats
    /\ \A l \in Sends :
           l \in failed \/ sending[l] # "idle" \/ outbox[l] > 0 \/ copies[l] > 0 => l <= sent
    /\ \A m \in LocalRows(messages) : m.id.n <= sent

(* What the server holds, has answered or has streamed: its own messages,
   each under its chat, and copies only of what has been dispatched. *)
From(c, rows) ==
    \A m \in rows :
        /\ ~IsLocal(m)
        /\ m.chat = c
        /\ m.id.kind = "copy" => copies[m.id.n] > 0

Sources ==
    /\ \A c \in Chats : From(c, store[c])
    /\ \A f \in fetches : From(f.chat, f.rows)
    /\ \A i \in 1..Len(stream) : From(stream[i].chat, stream[i].rows)

(* A placeholder is on screen once. *)
Single == \A m, r \in LocalRows(messages) : m.id.n = r.id.n => m = r

Placeholders ==
    Known /\ Single /\ RowsOfCurrentChat /\ OneRequestPerSend /\ LooksSentIsSent

IInv == TypeOK /\ Sources /\ Placeholders

-----------------------------------------------------------------------------
(* Types. *)

LEMMA LocalRowType ==
    ASSUME NEW l \in Sends, NEW c \in Chats, NEW t \in Epochs
    PROVE  [id |-> Local(l), chat |-> c, at |-> t, ver |-> 0, react |-> FALSE] \in Rows
BY DEF Local, Rows, Ids

LEMMA CopyRowType ==
    ASSUME NEW l \in Sends, NEW k \in Nat, NEW c \in Chats, NEW t \in Epochs
    PROVE  [id |-> Copy(l, k), chat |-> c, at |-> t, ver |-> 0, react |-> FALSE] \in Rows
BY DEF Copy, Rows, Ids

LEMMA OtherRowType ==
    ASSUME NEW n \in Nat, n > 0, NEW c \in Chats, NEW t \in Epochs
    PROVE  [id |-> Other(n), chat |-> c, at |-> t, ver |-> 0, react |-> FALSE] \in Rows
BY DEF Other, Rows, Ids

LEMMA ChangedRowType ==
    ASSUME NEW m \in Rows, NEW b \in BOOLEAN
    PROVE  /\ [m EXCEPT !.ver = @ + 1] \in Rows
           /\ [m EXCEPT !.react = b] \in Rows
           /\ m.react \in BOOLEAN /\ m.id \in Ids /\ m.chat \in Chats /\ m.at \in Epochs
BY DEF Rows

LEMMA LocalIdType ==
    ASSUME NEW m \in Rows, IsLocal(m)
    PROVE  m.id.n \in Sends
BY DEF Rows, Ids, IsLocal

LEMMA PublishType ==
    ASSUME TypeOK, NEW type \in EventTypes, NEW c \in Chats \cup {NoChat},
           NEW rows \in SUBSET Rows, Publish(Event(type, c, rows))
    PROVE  stream' \in Seq(Events)
<1>1. Event(type, c, rows) \in Events
  BY DEF Event, Events
<1>2. stream \in Seq(Events)
  BY DEF TypeOK
<1>3. QED
  BY <1>1, <1>2 DEF Publish

LEMMA NextEventType ==
    ASSUME TypeOK, NEW type \in EventTypes, NextEvent(type)
    PROVE  /\ stream' \in Seq(Events)
           /\ Head(stream) \in Events
           /\ Head(stream).rows \subseteq Rows
<1>1. stream \in Seq(Events) /\ stream # <<>>
  BY DEF TypeOK, NextEvent
<1>2. stream' = Tail(stream)
  BY DEF NextEvent
<1>3. Head(stream) \in Events
  BY <1>1
<1>4. QED
  BY <1>1, <1>2, <1>3 DEF Events

LEMMA IssueType ==
    ASSUME TypeOK, NEW op \in {"load", "refresh"}, NEW c \in Chats, NEW done,
           Issue(Ask(op, c), done)
    PROVE  fetches' \subseteq Fetches
<1>1. Ask(op, c) \in Fetches
  BY DEF Ask, Fetches
<1>2. QED
  BY <1>1 DEF Issue, TypeOK

LEMMA TypeInit == Init => TypeOK
<1> SUFFICES ASSUME Init PROVE TypeOK
  OBVIOUS
<1>1. stream \in Seq(Events)
  BY DEF Init
<1>2. now \in Epochs /\ sent \in 0..MaxSends /\ news \in 0..MaxNews
      /\ reacts \in 0..MaxReacts /\ faults \in 0..MaxFaults
  BY NatAssumption DEF Init, Epochs
<1>3. QED
  BY <1>1, <1>2 DEF Init, TypeOK

(* The user's actions and the poll. *)
LEMMA UserType ==
    ASSUME TypeOK, Known, User \/ PollTick
    PROVE  TypeOK'
<1>1. ASSUME NEW c \in Chats, Open(c) PROVE TypeOK'
  <2>1. fetches' \subseteq Fetches
    BY <1>1, IssueType DEF Open
  <2>2. QED
    BY <1>1, <2>1 DEF Open, TypeOK, srvVars, bookVars
<1>2. CASE Back
  BY <1>2 DEF Back, TypeOK, reqVars, srvVars, bookVars
<1>3. CASE ChangeMode
  BY <1>3 DEF ChangeMode, TypeOK, reqVars, srvVars, bookVars
<1>4. CASE SendInput
  <2>1. sent + 1 \in Sends /\ current \in Chats /\ now \in Epochs
    BY <1>4, NatAssumption DEF SendInput, TypeOK, Sends
  <2>2. [id |-> Local(sent + 1), chat |-> current, at |-> now, ver |-> 0, react |-> FALSE] \in Rows
    BY <2>1, LocalRowType
  <2>3. messages' \subseteq Rows
    BY <1>4, <2>2 DEF SendInput, TypeOK
  <2>4. sent' \in 0..MaxSends
    BY <1>4, <2>1 DEF SendInput, Sends
  <2>5. sending' \in [Sends -> {"idle", "asked", "err"}]
        /\ target' \in [Sends -> Chats \cup {NoChat}]
    BY <1>4, <2>1 DEF SendInput, TypeOK
  <2>6. QED
    BY <1>4, <2>1, <2>3, <2>4, <2>5 DEF SendInput, TypeOK, srvVars
<1>5. CASE RetryFailedSend
  BY <1>5 DEF RetryFailedSend, TypeOK, srvVars, bookVars
<1>6. CASE ToggleReaction
  <2>1. PICK m \in messages :
            /\ messages' = (messages \ {m}) \cup {[m EXCEPT !.react = ~m.react]}
            /\ reacting' = reacting \cup
                   {[id |-> m.id, chat |-> current, on |-> ~m.react, phase |-> "asked"]}
    BY <1>6 DEF ToggleReaction
  <2>2. m \in Rows /\ current \in Chats
    BY <1>6 DEF ToggleReaction, TypeOK
  <2>3. [m EXCEPT !.react = ~m.react] \in Rows /\ m.id \in Ids
    BY <2>2 DEF Rows
  <2>4. messages' \subseteq Rows
    BY <2>1, <2>3 DEF TypeOK
  <2>5. [id |-> m.id, chat |-> current, on |-> ~m.react, phase |-> "asked"] \in Reactions
    BY <2>2, <2>3, Zenon DEF Reactions
  <2>6. reacting' \subseteq Reactions
    BY <2>1, <2>5 DEF TypeOK
  <2>7. reacts' \in 0..MaxReacts
    BY <1>6, NatAssumption DEF ToggleReaction, TypeOK
  <2>8. QED
    BY <1>6, <2>2, <2>4, <2>6, <2>7 DEF ToggleReaction, TypeOK, srvVars
<1>7. CASE PollTick
  <2>1. current \in Chats
    BY <1>7 DEF PollTick, TypeOK
  <2>2. fetches' \subseteq Fetches
    BY <1>7, <2>1, IssueType DEF PollTick
  <2>3. QED
    BY <1>7, <2>2 DEF PollTick, TypeOK, viewVars, srvVars, bookVars
<1>8. QED
  BY <1>1, <1>2, <1>3, <1>4, <1>5, <1>6, <1>7 DEF User

(* The handlers of results. *)
LEMMA ResultType ==
    ASSUME TypeOK, Known, Loaded \/ Polled \/ Settled
    PROVE  TypeOK'
<1>1. ASSUME NEW f \in fetches, LoadResult(f) PROVE TypeOK'
  <2>1. f.rows \subseteq Rows
    BY DEF TypeOK, Fetches
  <2>2. messages' \subseteq Rows /\ loading' \in BOOLEAN /\ fetches' \subseteq Fetches
    BY <1>1, <2>1 DEF LoadResult, TypeOK
  <2>3. QED
    BY <1>1, <2>2 DEF LoadResult, TypeOK, srvVars, bookVars
<1>2. ASSUME NEW f \in fetches, LoadError(f) PROVE TypeOK'
  <2>1. convErr' \in BOOLEAN /\ loading' \in BOOLEAN /\ fetches' \subseteq Fetches
    BY <1>2 DEF LoadError, TypeOK
  <2>2. QED
    BY <1>2, <2>1 DEF LoadError, TypeOK, srvVars, bookVars
<1>3. ASSUME NEW f \in fetches, RefreshResult(f) PROVE TypeOK'
  <2>1. f.rows \subseteq Rows
    BY DEF TypeOK, Fetches
  <2>2. messages' \subseteq Rows /\ failed' \subseteq Sends
    BY <1>3, <2>1 DEF RefreshResult, Refreshed, LocalRows, TypeOK
  <2>3. QED
    BY <1>3, <2>2 DEF RefreshResult, TypeOK, srvVars, bookVars
<1>4. ASSUME NEW l \in Sends, SendError(l) PROVE TypeOK'
  <2>1. fetches' \subseteq Fetches
    <3>1. CASE current # NoChat
      <4>1. current \in Chats
        BY <3>1 DEF TypeOK
      <4>2. QED
        BY <1>4, <3>1, <4>1, IssueType DEF SendError
    <3>2. CASE current = NoChat
      BY <1>4, <3>2 DEF SendError, TypeOK
    <3>3. QED
      BY <3>1, <3>2
  <2>2. QED
    BY <1>4, <2>1 DEF SendError, TypeOK, srvVars, bookVars
<1>5. ASSUME NEW q \in reacting, ReactError(q) PROVE TypeOK'
  <2>1. fetches' \subseteq Fetches
    <3>1. CASE q.chat = current
      <4>1. current \in Chats
        BY <3>1 DEF TypeOK, Reactions
      <4>2. QED
        BY <1>5, <3>1, <4>1, IssueType DEF ReactError
    <3>2. CASE q.chat # current
      BY <1>5, <3>2 DEF ReactError, TypeOK
    <3>3. QED
      BY <3>1, <3>2
  <2>2. QED
    BY <1>5, <2>1 DEF ReactError, TypeOK, viewVars, srvVars, bookVars
<1>6. QED
  BY <1>1, <1>2, <1>3, <1>4, <1>5 DEF Loaded, Polled, Settled

(* The handlers of events. *)
LEMMA EventType ==
    ASSUME TypeOK, Known, ApplyEvent
    PROVE  TypeOK'
<1>1. CASE ApplyConnected
  <2>1. stream' \in Seq(Events)
    BY <1>1, NextEventType DEF ApplyConnected, EventTypes
  <2>2. fetches' \subseteq Fetches
    <3>1. CASE everConnected /\ current # NoChat
      <4>1. current \in Chats
        BY <3>1 DEF TypeOK
      <4>2. QED
        BY <1>1, <3>1, <4>1, IssueType DEF ApplyConnected
    <3>2. CASE ~(everConnected /\ current # NoChat)
      BY <1>1, <3>2 DEF ApplyConnected, TypeOK
    <3>3. QED
      BY <3>1, <3>2
  <2>3. QED
    BY <1>1, <2>1, <2>2 DEF ApplyConnected, TypeOK, bookVars
<1>2. CASE ApplyUpsert
  <2>1. stream' \in Seq(Events) /\ Head(stream).rows \subseteq Rows
    BY <1>2, NextEventType DEF ApplyUpsert, EventTypes
  <2>2. ASSUME NEW m \in Rows, Upsert(m) PROVE messages' \subseteq Rows /\ failed' \subseteq Sends
    BY <2>2 DEF Upsert, TypeOK
  <2>3. messages' \subseteq Rows /\ failed' \subseteq Sends
    BY <1>2, <2>1, <2>2 DEF ApplyUpsert, TypeOK
  <2>4. QED
    BY <1>2, <2>1, <2>3 DEF ApplyUpsert, TypeOK, reqVars, bookVars
<1>3. CASE ApplyReaction
  <2>1. stream' \in Seq(Events) /\ Head(stream) \in Events
    BY <1>3, NextEventType DEF ApplyReaction, EventTypes
  <2>2. fetches' \subseteq Fetches
    <3>1. CASE Head(stream).chat = current /\ mode # "list"
      <4>1. current \in Chats
        BY <3>1 DEF TypeOK
      <4>2. QED
        BY <1>3, <3>1, <4>1, IssueType DEF ApplyReaction
    <3>2. CASE ~(Head(stream).chat = current /\ mode # "list")
      BY <1>3, <3>2 DEF ApplyReaction, TypeOK
    <3>3. QED
      BY <3>1, <3>2
  <2>3. QED
    BY <1>3, <2>1, <2>2 DEF ApplyReaction, TypeOK, viewVars, bookVars
<1>4. CASE ApplyDeleted
  <2>1. stream' \in Seq(Events)
    BY <1>4, NextEventType DEF ApplyDeleted, EventTypes
  <2>2. messages' \subseteq Rows
    BY <1>4 DEF ApplyDeleted, TypeOK
  <2>3. QED
    BY <1>4, <2>1, <2>2 DEF ApplyDeleted, TypeOK, reqVars, bookVars
<1>5. QED
  BY <1>1, <1>2, <1>3, <1>4 DEF ApplyEvent

(* The server. *)
LEMMA FailsType == TypeOK /\ Fails => faults' \in 0..MaxFaults
BY NatAssumption DEF TypeOK, Fails

LEMMA RequestType ==
    ASSUME TypeOK, Known, Answered \/ SendHandled \/ (\E f \in fetches : FetchFails(f))
    PROVE  TypeOK'
<1>1. ASSUME NEW f \in fetches, Answer(f) PROVE TypeOK'
  <2>1. store[f.chat] \subseteq Rows /\ f \in Fetches
    BY DEF TypeOK, Fetches
  <2>2. [f EXCEPT !.phase = "answered", !.rows = store[f.chat]] \in Fetches
    BY <2>1 DEF Fetches
  <2>3. fetches' \subseteq Fetches
    BY <1>1, <2>2 DEF Answer, TypeOK
  <2>4. QED
    BY <1>1, <2>3 DEF Answer, TypeOK, viewVars, srvVars, bookVars
<1>2. ASSUME NEW f \in fetches, FetchFails(f) PROVE TypeOK'
  <2>1. [f EXCEPT !.phase = "failed"] \in Fetches
    BY DEF TypeOK, Fetches
  <2>2. fetches' \subseteq Fetches
    BY <1>2, <2>1 DEF FetchFails, TypeOK
  <2>3. QED
    BY <1>2, <2>2, FailsType DEF FetchFails, TypeOK, viewVars, srvVars
<1>3. ASSUME NEW l \in Sends, SendAccepted(l) PROVE TypeOK'
  <2>1. outbox' \in [Sends -> Nat]
    <3>1. outbox \in [Sends -> Nat] /\ outbox[l] + 1 \in Nat
      BY DEF TypeOK
    <3>2. outbox' = [outbox EXCEPT ![l] = outbox[l] + 1]
      BY <1>3 DEF SendAccepted
    <3>3. QED
      BY <3>1, <3>2
  <2>2. faults' \in 0..MaxFaults
    BY <1>3, FailsType DEF SendAccepted, TypeOK
  <2>3. sending' \in [Sends -> {"idle", "asked", "err"}]
    BY <1>3 DEF SendAccepted, TypeOK
  <2>4. QED
    BY <1>3, <2>1, <2>2, <2>3 DEF SendAccepted, TypeOK, viewVars
<1>4. ASSUME NEW l \in Sends, SendRejected(l) PROVE TypeOK'
  BY <1>4, FailsType DEF SendRejected, TypeOK, viewVars, srvVars
<1>5. QED
  BY <1>1, <1>2, <1>3, <1>4 DEF Answered, SendHandled

LEMMA StoreType ==
    ASSUME TypeOK, Known,
           \/ \E l \in Sends : Dispatch(l)
           \/ \E c \in Chats : OthersAct(c)
           \/ \E q \in reacting : ReactHandled(q)
    PROVE  TypeOK'
<1>1. ASSUME NEW l \in Sends, Dispatch(l) PROVE TypeOK'
  <2> DEFINE m == [id |-> Copy(l, copies[l] + 1), chat |-> target[l], at |-> now, ver |-> 0,
                   react |-> FALSE]
  <2>1. target[l] \in Chats /\ copies[l] + 1 \in Nat /\ now \in Epochs
        /\ outbox[l] \in Nat /\ outbox[l] > 0
    BY <1>1 DEF Dispatch, TypeOK, Known, Sends
  <2>2. m \in Rows
    BY <2>1, CopyRowType
  <2>3. stream' \in Seq(Events)
    <3>1. Publish(Event("upsert", target[l], {m}))
      BY <1>1 DEF Dispatch
    <3>2. QED
      BY <2>1, <2>2, <3>1, PublishType DEF EventTypes
  <2>4. store' = [store EXCEPT ![target[l]] = @ \cup {m}]
    BY <1>1 DEF Dispatch
  <2>5. store' \in [Chats -> SUBSET Rows]
    BY <2>2, <2>4 DEF TypeOK
  <2>6. outbox' \in [Sends -> Nat] /\ copies' \in [Sends -> Nat]
    BY <1>1, <2>1 DEF Dispatch, TypeOK
  <2>7. QED
    BY <1>1, <2>3, <2>5, <2>6 DEF Dispatch, TypeOK, viewVars, reqVars
<1>2. ASSUME NEW c \in Chats, OthersAct(c) PROVE TypeOK'
  <2>1. news' \in 0..MaxNews /\ news \in Nat /\ news + 1 > 0 /\ now \in Epochs
    BY <1>2, NatAssumption DEF OthersAct, TypeOK
  <2>2. stream' \in Seq(Events) /\ store' \in [Chats -> SUBSET Rows]
    <3> DEFINE n == [id |-> Other(news + 1), chat |-> c, at |-> now, ver |-> 0,
                     react |-> FALSE]
    <3>1. n \in Rows
      BY <2>1, OtherRowType
    <3>2. CASE store' = [store EXCEPT ![c] = @ \cup {n}] /\ Publish(Event("upsert", c, {n}))
      <4>1. store' \in [Chats -> SUBSET Rows]
        BY <3>1, <3>2 DEF TypeOK
      <4>2. QED
        BY <3>1, <3>2, <4>1, PublishType DEF EventTypes
    <3>3. ASSUME NEW m \in store[c],
                 store' = [store EXCEPT ![c] = (@ \ {m}) \cup {[m EXCEPT !.ver = @ + 1]}],
                 \/ Publish(Event("upsert", c, {[m EXCEPT !.ver = @ + 1]}))
                 \/ Publish(Event("reaction", c, {}))
          PROVE  stream' \in Seq(Events) /\ store' \in [Chats -> SUBSET Rows]
      <4>1. m \in Rows
        BY DEF TypeOK
      <4>2. [m EXCEPT !.ver = @ + 1] \in Rows
        BY <4>1, ChangedRowType
      <4>3. store' \in [Chats -> SUBSET Rows]
        BY <3>3, <4>2 DEF TypeOK
      <4>4. QED
        BY <3>3, <4>2, <4>3, PublishType DEF EventTypes
    <3>4. ASSUME NEW m \in store[c],
                 store' = [store EXCEPT ![c] = @ \ {m}],
                 Publish(Event("deleted", c, {m}))
          PROVE  stream' \in Seq(Events) /\ store' \in [Chats -> SUBSET Rows]
      <4>1. m \in Rows
        BY DEF TypeOK
      <4>2. store' \in [Chats -> SUBSET Rows]
        BY <3>4 DEF TypeOK
      <4>3. QED
        BY <3>4, <4>1, <4>2, PublishType DEF EventTypes
    <3>5. QED
      BY <1>2, <3>2, <3>3, <3>4 DEF OthersAct
  <2>3. QED
    BY <1>2, <2>1, <2>2 DEF OthersAct, TypeOK, viewVars, reqVars
<1>3. ASSUME NEW q \in reacting, ReactHandled(q) PROVE TypeOK'
  <2>1. q \in Reactions /\ q.chat \in Chats /\ q.on \in BOOLEAN
    BY DEF TypeOK, Reactions
  <2>2. CASE \E m \in store[q.chat] :
               /\ m.id = q.id
               /\ store' = [store EXCEPT ![q.chat] = (@ \ {m}) \cup {[m EXCEPT !.react = q.on]}]
               /\ Publish(Event("reaction", q.chat, {}))
               /\ reacting' = reacting \ {q}
               /\ UNCHANGED faults
    <3>1. PICK m \in store[q.chat] :
               /\ store' = [store EXCEPT ![q.chat] = (@ \ {m}) \cup {[m EXCEPT !.react = q.on]}]
               /\ Publish(Event("reaction", q.chat, {}))
               /\ reacting' = reacting \ {q}
               /\ UNCHANGED faults
      BY <2>2
    <3>2. [m EXCEPT !.react = q.on] \in Rows
      BY <2>1, ChangedRowType DEF TypeOK
    <3>3. store' \in [Chats -> SUBSET Rows] /\ reacting' \subseteq Reactions
      BY <3>1, <3>2 DEF TypeOK
    <3>4. stream' \in Seq(Events)
      BY <2>1, <3>1, PublishType DEF EventTypes
    <3>5. QED
      BY <1>3, <3>1, <3>3, <3>4 DEF ReactHandled, TypeOK, viewVars
  <2>3. CASE /\ \/ (\A m \in store[q.chat] : m.id # q.id) /\ UNCHANGED faults
                \/ Fails
             /\ reacting' = (reacting \ {q}) \cup {[q EXCEPT !.phase = "failed"]}
             /\ UNCHANGED <<store, stream>>
    <3>1. [q EXCEPT !.phase = "failed"] \in Reactions
      BY <2>1 DEF Reactions
    <3>2. reacting' \subseteq Reactions
      BY <2>3, <3>1 DEF TypeOK
    <3>3. faults' \in 0..MaxFaults
      BY <2>3, FailsType DEF TypeOK
    <3>4. QED
      BY <1>3, <2>3, <3>2, <3>3 DEF ReactHandled, TypeOK, viewVars
  <2>4. QED
    BY <1>3, <2>2, <2>3 DEF ReactHandled
<1>4. QED
  BY <1>1, <1>2, <1>3

LEMMA LinkType ==
    ASSUME TypeOK, Known, Drop \/ Connect \/ Listen \/ Tick
    PROVE  TypeOK'
<1>1. CASE Drop
  <2>1. PICK k \in 0..Len(stream) : stream' = SubSeq(stream, 1, k)
    BY <1>1 DEF Drop
  <2>2. stream' \in Seq(Events)
    BY <2>1 DEF TypeOK
  <2>3. QED
    BY <1>1, <2>2, FailsType DEF Drop, TypeOK, viewVars, reqVars
<1>2. CASE Connect
  <2>1. Event("connected", NoChat, {}) \in Events
    BY DEF Event, Events, EventTypes
  <2>2. stream' \in Seq(Events)
    BY <1>2, <2>1 DEF Connect, TypeOK
  <2>3. QED
    BY <1>2, <2>2 DEF Connect, TypeOK, viewVars, reqVars, bookVars
<1>3. CASE Listen
  BY <1>3 DEF Listen, TypeOK, viewVars, reqVars, bookVars
<1>4. CASE Tick
  BY <1>4, NatAssumption DEF Tick, TypeOK, viewVars, reqVars, bookVars, Epochs
<1>5. QED
  BY <1>1, <1>2, <1>3, <1>4

LEMMA TypeStep ==
    ASSUME TypeOK, Known, [Next]_vars
    PROVE  TypeOK'
<1>1. CASE UNCHANGED vars
  BY <1>1 DEF vars, viewVars, reqVars, srvVars, bookVars, TypeOK
<1>2. CASE Next
  BY <1>2, UserType, ResultType, EventType, RequestType, StoreType, LinkType DEF Next, Server
<1>3. QED
  BY <1>1, <1>2

-----------------------------------------------------------------------------
(* Where rows come from. *)

LEMMA SourcesUntouched ==
    ASSUME Sources, UNCHANGED <<store, fetches, stream, copies>>
    PROVE  Sources'
BY DEF Sources, From

(* Asking for a fetch and handling one bring no rows. *)
LEMMA SourcesFetches ==
    ASSUME Sources, UNCHANGED <<store, stream, copies>>,
           \A f \in fetches' : f \in fetches \/ f.rows = {}
    PROVE  Sources'
BY DEF Sources, From

(* Nor does reading the stream. *)
LEMMA SourcesTail ==
    ASSUME TypeOK, Sources, UNCHANGED <<store, copies>>,
           stream # <<>>, stream' = Tail(stream),
           \A f \in fetches' : f \in fetches \/ f.rows = {}
    PROVE  Sources'
<1>1. stream \in Seq(Events)
  BY DEF TypeOK
<1>2. \A i \in 1..Len(stream') : stream'[i] = stream[i + 1] /\ i + 1 \in 1..Len(stream)
  BY <1>1
<1>3. \A i \in 1..Len(stream') : From(stream'[i].chat, stream'[i].rows)
  BY <1>2 DEF Sources
<1>4. QED
  BY <1>3 DEF Sources, From

(* Publishing rows of the server's. *)
LEMMA PublishFrom ==
    ASSUME TypeOK, Sources, UNCHANGED copies,
           NEW type, NEW c, NEW rows, From(c, rows), Publish(Event(type, c, rows))
    PROVE  \A i \in 1..Len(stream') : From(stream'[i].chat, stream'[i].rows)
<1> DEFINE e == Event(type, c, rows)
<1>1. stream \in Seq(Events)
  BY DEF TypeOK
<1>2. e.chat = c /\ e.rows = rows
  BY DEF Event
<1>3. CASE stream' = stream
  BY <1>3 DEF Sources
<1>4. CASE stream' = Append(stream, e)
  <2> HIDE DEF e
  <2>1. \A i \in 1..Len(stream') :
            \/ i \in 1..Len(stream) /\ stream'[i] = stream[i]
            \/ stream'[i] = e
    BY <1>1, <1>4
  <2>2. QED
    BY <1>2, <2>1 DEF Sources
<1>5. QED
  BY <1>3, <1>4 DEF Publish

LEMMA IssueRows ==
    ASSUME NEW op, NEW c, NEW done, Issue(Ask(op, c), done)
    PROVE  \A f \in fetches' : f \in fetches \/ f.rows = {}
BY DEF Issue, Ask

LEMMA SourcesUser ==
    ASSUME TypeOK, Sources, User \/ PollTick
    PROVE  Sources'
<1>1. ASSUME NEW c \in Chats, Open(c) PROVE Sources'
  BY <1>1, IssueRows, SourcesFetches DEF Open, srvVars, bookVars
<1>2. CASE Back \/ ChangeMode \/ SendInput \/ RetryFailedSend \/ ToggleReaction
  BY <1>2, SourcesUntouched
     DEF Back, ChangeMode, SendInput, RetryFailedSend, ToggleReaction, reqVars, srvVars, bookVars
<1>3. CASE PollTick
  BY <1>3, IssueRows, SourcesFetches DEF PollTick, srvVars, bookVars
<1>4. QED
  BY <1>1, <1>2, <1>3 DEF User

LEMMA SourcesResult ==
    ASSUME TypeOK, Sources, Loaded \/ Polled \/ Settled
    PROVE  Sources'
<1>1. ASSUME NEW f \in fetches, LoadResult(f) \/ LoadError(f) \/ RefreshResult(f) PROVE Sources'
  BY <1>1, SourcesFetches DEF LoadResult, LoadError, RefreshResult, srvVars, bookVars
<1>2. ASSUME NEW l \in Sends, SendError(l) PROVE Sources'
  BY <1>2, IssueRows, SourcesFetches DEF SendError, srvVars, bookVars
<1>3. ASSUME NEW q \in reacting, ReactError(q) PROVE Sources'
  BY <1>3, IssueRows, SourcesFetches DEF ReactError, srvVars, bookVars
<1>4. QED
  BY <1>1, <1>2, <1>3 DEF Loaded, Polled, Settled

LEMMA SourcesEvent ==
    ASSUME TypeOK, Sources, ApplyEvent
    PROVE  Sources'
<1>1. CASE ApplyConnected
  BY <1>1, IssueRows, SourcesTail DEF ApplyConnected, NextEvent, bookVars
<1>2. CASE ApplyUpsert
  BY <1>2, SourcesTail DEF ApplyUpsert, NextEvent, reqVars, bookVars
<1>3. CASE ApplyReaction
  BY <1>3, IssueRows, SourcesTail DEF ApplyReaction, NextEvent, bookVars
<1>4. CASE ApplyDeleted
  BY <1>4, SourcesTail DEF ApplyDeleted, NextEvent, reqVars, bookVars
<1>5. QED
  BY <1>1, <1>2, <1>3, <1>4 DEF ApplyEvent

LEMMA SourcesRequest ==
    ASSUME TypeOK, Sources, Answered \/ SendHandled \/ (\E f \in fetches : FetchFails(f))
    PROVE  Sources'
<1>1. ASSUME NEW f \in fetches, Answer(f) PROVE Sources'
  <2> DEFINE g == [f EXCEPT !.phase = "answered", !.rows = store[f.chat]]
  <2>1. f \in Fetches
    BY DEF TypeOK
  <2>2. g.chat = f.chat /\ g.rows = store[f.chat] /\ f.chat \in Chats
    BY <2>1 DEF Fetches
  <2>3. From(g.chat, g.rows)
    BY <2>2 DEF Sources
  <2>4. fetches' = (fetches \ {f}) \cup {g}
    BY <1>1 DEF Answer
  <2> HIDE DEF g
  <2>5. \A h \in fetches' : From(h.chat, h.rows)
    BY <2>3, <2>4 DEF Sources
  <2>6. UNCHANGED <<store, stream, copies>>
    BY <1>1 DEF Answer, srvVars, bookVars
  <2>7. QED
    BY <2>5, <2>6 DEF Sources, From
<1>2. ASSUME NEW f \in fetches, FetchFails(f) PROVE Sources'
  <2>1. f \in Fetches
    BY DEF TypeOK
  <2>2. \A h \in fetches' : \E g \in fetches : h.chat = g.chat /\ h.rows = g.rows
    BY <1>2, <2>1 DEF FetchFails, Fetches
  <2>3. UNCHANGED <<store, stream, copies>>
    BY <1>2 DEF FetchFails, srvVars
  <2>4. QED
    BY <2>2, <2>3 DEF Sources, From
<1>3. ASSUME NEW l \in Sends, SendAccepted(l) \/ SendRejected(l) PROVE Sources'
  BY <1>3, SourcesUntouched DEF SendAccepted, SendRejected, srvVars
<1>4. QED
  BY <1>1, <1>2, <1>3 DEF Answered, SendHandled

LEMMA SourcesStore ==
    ASSUME TypeOK, Known, Sources,
           \/ \E l \in Sends : Dispatch(l)
           \/ \E c \in Chats : OthersAct(c)
           \/ \E q \in reacting : ReactHandled(q)
    PROVE  Sources'
<1>1. ASSUME NEW l \in Sends, Dispatch(l) PROVE Sources'
  <2>1. copies \in [Sends -> Nat] /\ stream \in Seq(Events)
    BY DEF TypeOK
  <2>2. copies' = [copies EXCEPT ![l] = copies[l] + 1]
    BY <1>1 DEF Dispatch
  <2>3. \A n \in Sends : copies'[n] \in Nat /\ copies'[n] >= copies[n]
    BY <2>1, <2>2
  <2>4. copies'[l] > 0
    BY <2>1, <2>2
  <2>5. PICK c, m, e :
            /\ m.chat = c /\ m.id.kind = "copy" /\ m.id.n = l
            /\ e.chat = c /\ e.rows = {m}
            /\ store' = [store EXCEPT ![c] = store[c] \cup {m}]
            /\ stream' = stream \/ stream' = Append(stream, e)
    <3> DEFINE m == [id |-> Copy(l, copies[l] + 1), chat |-> target[l], at |-> now,
                     ver |-> 0, react |-> FALSE]
               e == Event("upsert", target[l], {m})
    <3>1. /\ m.chat = target[l] /\ m.id.kind = "copy" /\ m.id.n = l
          /\ e.chat = target[l] /\ e.rows = {m}
      BY DEF Copy, Event
    <3>2. /\ store' = [store EXCEPT ![target[l]] = store[target[l]] \cup {m}]
          /\ stream' = stream \/ stream' = Append(stream, e)
      BY <1>1 DEF Dispatch, Publish
    <3> HIDE DEF m, e
    <3>3. QED
      BY <3>1, <3>2
  <2>6. UNCHANGED fetches
    BY <1>1 DEF Dispatch, reqVars
  <2> DEFINE Good(d, r) == /\ r.id.kind # "local" /\ r.chat = d
                           /\ r.id.kind = "copy" => copies'[r.id.n] > 0
  <2>7. ASSUME NEW d, NEW rows, rows \subseteq Rows, From(d, rows)
        PROVE  \A r \in rows : Good(d, r)
    BY <2>1, <2>3, <2>7 DEF From, Rows, Ids, IsLocal
  <2>8. Good(c, m)
    BY <2>4, <2>5
  <2>9. ASSUME NEW d \in Chats PROVE From(d, store[d])'
    <3>1. store[d] \subseteq Rows /\ From(d, store[d]) /\ store \in [Chats -> SUBSET Rows]
      BY DEF Sources, TypeOK
    <3>2. store'[d] \subseteq store[d] \/ (d = c /\ store'[d] = store[d] \cup {m})
      BY <2>5, <3>1
    <3>3. \A r \in store'[d] : Good(d, r)
      BY <2>7, <2>8, <3>1, <3>2
    <3>4. QED
      BY <3>3 DEF From, IsLocal
  <2>10. ASSUME NEW f \in fetches PROVE From(f.chat, f.rows)'
    <3>1. From(f.chat, f.rows) /\ f.rows \subseteq Rows
      BY DEF Sources, TypeOK, Fetches
    <3>2. \A r \in f.rows : Good(f.chat, r)
      BY <2>7, <3>1
    <3>3. QED
      BY <2>6, <3>2 DEF From, IsLocal
  <2>11. ASSUME NEW i \in 1..Len(stream') PROVE From(stream[i].chat, stream[i].rows)'
    <3>1. \A j \in 1..Len(stream) : stream[j] \in Events
      BY <2>1
    <3>2. \/ i \in 1..Len(stream) /\ stream'[i] = stream[i]
          \/ stream'[i] = e
      BY <2>1, <2>5, <2>11
    <3>3. CASE stream'[i] = e
      BY <2>5, <2>8, <3>3 DEF From, IsLocal
    <3>4. CASE i \in 1..Len(stream) /\ stream'[i] = stream[i]
      <4>1. From(stream[i].chat, stream[i].rows) /\ stream[i].rows \subseteq Rows
        BY <3>1, <3>4 DEF Sources, Events
      <4>2. \A r \in stream[i].rows : Good(stream[i].chat, r)
        BY <2>7, <4>1
      <4>3. QED
        BY <3>4, <4>2 DEF From, IsLocal
    <3>5. QED
      BY <3>2, <3>3, <3>4
  <2>12. QED
    BY <2>6, <2>9, <2>10, <2>11 DEF Sources
<1>2. ASSUME NEW c \in Chats, OthersAct(c) PROVE Sources'
  <2>1. UNCHANGED <<fetches, copies>> /\ store \in [Chats -> SUBSET Rows]
    BY <1>2 DEF OthersAct, reqVars, TypeOK
  <2>2. From(c, store[c])
    BY DEF Sources
  <2>3. From(c, {})
    BY DEF From
  <2> DEFINE n == [id |-> Other(news + 1), chat |-> c, at |-> now, ver |-> 0, react |-> FALSE]
  <2>4. From(c, {n})
    BY DEF From, Other, IsLocal
  <2>5. ASSUME NEW m \in store[c] PROVE From(c, {m}) /\ From(c, {[m EXCEPT !.ver = @ + 1]})
    <3>1. m \in Rows
      BY <2>1
    <3>2. [m EXCEPT !.ver = @ + 1].id = m.id /\ [m EXCEPT !.ver = @ + 1].chat = m.chat
      BY <3>1 DEF Rows
    <3>3. QED
      BY <2>2, <3>2 DEF From, IsLocal
  <2>6. PICK new, type, told :
          /\ From(c, new) /\ From(c, told)
          /\ store'[c] \subseteq store[c] \cup new
          /\ \A d \in Chats : d # c => store'[d] = store[d]
          /\ Publish(Event(type, c, told))
    <3>1. CASE store' = [store EXCEPT ![c] = @ \cup {n}] /\ Publish(Event("upsert", c, {n}))
      <4> HIDE DEF n
      <4>1. store'[c] = store[c] \cup {n} /\ \A d \in Chats : d # c => store'[d] = store[d]
        BY <2>1, <3>1
      <4>2. QED
        BY <2>4, <3>1, <4>1
    <3>2. ASSUME NEW m \in store[c],
                 store' = [store EXCEPT ![c] = (@ \ {m}) \cup {[m EXCEPT !.ver = @ + 1]}],
                 \/ Publish(Event("upsert", c, {[m EXCEPT !.ver = @ + 1]}))
                 \/ Publish(Event("reaction", c, {}))
          PROVE  \E new, type, told :
                   /\ From(c, new) /\ From(c, told)
                   /\ store'[c] \subseteq store[c] \cup new
                   /\ \A d \in Chats : d # c => store'[d] = store[d]
                   /\ Publish(Event(type, c, told))
      <4> DEFINE e == [m EXCEPT !.ver = @ + 1]
      <4>1. From(c, {e}) /\ (Publish(Event("upsert", c, {e})) \/ Publish(Event("reaction", c, {})))
        BY <2>5, <3>2
      <4>2. store' = [store EXCEPT ![c] = (store[c] \ {m}) \cup {e}]
        BY <3>2
      <4> HIDE DEF e
      <4>3. store'[c] \subseteq store[c] \cup {e} /\ \A d \in Chats : d # c => store'[d] = store[d]
        BY <2>1, <4>2
      <4>4. QED
        BY <2>3, <4>1, <4>3
    <3>3. ASSUME NEW m \in store[c],
                 store' = [store EXCEPT ![c] = @ \ {m}],
                 Publish(Event("deleted", c, {m}))
          PROVE  \E new, type, told :
                   /\ From(c, new) /\ From(c, told)
                   /\ store'[c] \subseteq store[c] \cup new
                   /\ \A d \in Chats : d # c => store'[d] = store[d]
                   /\ Publish(Event(type, c, told))
      <4>1. store'[c] \subseteq store[c] \cup {} /\ \A d \in Chats : d # c => store'[d] = store[d]
        BY <2>1, <3>3
      <4>2. QED
        BY <2>3, <2>5, <3>3, <4>1
    <3>4. QED
      BY <1>2, <3>1, <3>2, <3>3 DEF OthersAct
  <2>7. \A i \in 1..Len(stream') : From(stream'[i].chat, stream'[i].rows)
    BY <2>1, <2>6, PublishFrom
  <2>8. \A d \in Chats : From(d, store'[d])
    BY <2>2, <2>6 DEF Sources, From
  <2>9. QED
    BY <2>1, <2>7, <2>8 DEF Sources, From
<1>3. ASSUME NEW q \in reacting, ReactHandled(q) PROVE Sources'
  <2>1. /\ UNCHANGED <<fetches, copies>> /\ store \in [Chats -> SUBSET Rows]
        /\ q.chat \in Chats
    BY <1>3 DEF ReactHandled, TypeOK, Reactions
  <2>2. CASE UNCHANGED <<store, stream>>
    BY <2>1, <2>2, SourcesUntouched
  <2>3. ASSUME NEW m \in store[q.chat],
               store' = [store EXCEPT ![q.chat] = (@ \ {m}) \cup {[m EXCEPT !.react = q.on]}],
               Publish(Event("reaction", q.chat, {}))
        PROVE  Sources'
    <3> DEFINE c == q.chat
               e == [m EXCEPT !.react = q.on]
    <3>1. m \in Rows /\ m \in store[c] /\ From(c, store[c]) /\ From(c, {})
      BY <2>1 DEF Sources, From
    <3>2. e.id = m.id /\ e.chat = m.chat
      BY <3>1 DEF Rows
    <3>3. store' = [store EXCEPT ![c] = (store[c] \ {m}) \cup {e}]
      BY <2>3
    <3>4. \A i \in 1..Len(stream') : From(stream'[i].chat, stream'[i].rows)
      BY <2>1, <2>3, <3>1, PublishFrom
    <3> HIDE DEF e, c
    <3>5. From(c, {e})
      BY <3>1, <3>2 DEF From, IsLocal
    <3>6. store'[c] \subseteq store[c] \cup {e} /\ \A d \in Chats : d # c => store'[d] = store[d]
      BY <2>1, <3>3
    <3>7. \A d \in Chats : From(d, store'[d])
      BY <3>1, <3>5, <3>6 DEF Sources, From
    <3>8. QED
      BY <2>1, <3>4, <3>7 DEF Sources, From
  <2>4. QED
    BY <1>3, <2>2, <2>3 DEF ReactHandled
<1>4. QED
  BY <1>1, <1>2, <1>3

LEMMA SourcesLink ==
    ASSUME TypeOK, Sources, Drop \/ Connect \/ Listen \/ Tick
    PROVE  Sources'
<1>1. CASE Drop
  <2>1. PICK k \in 0..Len(stream) : stream' = SubSeq(stream, 1, k)
    BY <1>1 DEF Drop
  <2>2. stream \in Seq(Events)
    BY DEF TypeOK
  <2>3. \A i \in 1..Len(stream') : stream'[i] = stream[i] /\ i \in 1..Len(stream)
    BY <2>1, <2>2
  <2>4. UNCHANGED <<store, fetches, copies>>
    BY <1>1 DEF Drop, reqVars
  <2>5. QED
    BY <2>3, <2>4 DEF Sources, From
<1>2. CASE Connect
  <2> DEFINE e == Event("connected", NoChat, {})
  <2>1. stream' = Append(stream, e) /\ UNCHANGED <<store, fetches, copies>>
    BY <1>2 DEF Connect, reqVars, bookVars
  <2>2. stream \in Seq(Events) /\ e.rows = {}
    BY DEF TypeOK, Event
  <2> HIDE DEF e
  <2>3. \A i \in 1..Len(stream') :
            \/ i \in 1..Len(stream) /\ stream'[i] = stream[i]
            \/ stream'[i].rows = {}
    BY <2>1, <2>2
  <2>4. QED
    BY <2>1, <2>3 DEF Sources, From
<1>3. CASE Listen \/ Tick
  BY <1>3, SourcesUntouched DEF Listen, Tick, reqVars, bookVars
<1>4. QED
  BY <1>1, <1>2, <1>3

LEMMA SourcesStep ==
    ASSUME TypeOK, Known, Sources, [Next]_vars
    PROVE  Sources'
<1>1. CASE UNCHANGED vars
  BY <1>1, SourcesUntouched DEF vars, reqVars, srvVars, bookVars
<1>2. CASE Next
  BY <1>2, SourcesUser, SourcesResult, SourcesEvent, SourcesRequest, SourcesStore, SourcesLink
     DEF Next, Server
<1>3. QED
  BY <1>1, <1>2

-----------------------------------------------------------------------------
(* Placeholders and their flags. *)

LEMMA PlaceholdersUntouched ==
    ASSUME Placeholders,
           UNCHANGED <<messages, failed, sending, outbox, copies, sent, target, current>>
    PROVE  Placeholders'
BY DEF Placeholders, Known, Single, RowsOfCurrentChat, OneRequestPerSend, LooksSentIsSent,
       LocalRows, IsLocal

(* The rows may be replaced by rows of the current chat among which no
   placeholder is new, and flags dropped if their placeholders go. *)
LEMMA FewerPlaceholders ==
    ASSUME TypeOK, Placeholders,
           UNCHANGED <<sending, outbox, copies, sent, target>>,
           \A m \in messages' : m.chat = current' /\ (IsLocal(m) => m \in messages),
           failed' \subseteq failed,
           \A m \in messages' : IsLocal(m) /\ m.id.n \in failed => m.id.n \in failed'
    PROVE  Placeholders'
<1>1. Known'
  BY DEF Placeholders, Known, LocalRows, IsLocal
<1>2. Single'
  BY DEF Placeholders, Single, LocalRows, IsLocal
<1>3. RowsOfCurrentChat' /\ OneRequestPerSend'
  BY DEF Placeholders, RowsOfCurrentChat, OneRequestPerSend
<1>4. LooksSentIsSent'
  BY DEF Placeholders, LooksSentIsSent, LocalRows, IsLocal
<1>5. QED
  BY <1>1, <1>2, <1>3, <1>4 DEF Placeholders

(* A request or a failure of a known message, its rows as they were. *)
LEMMA PlaceholdersRequests ==
    ASSUME TypeOK, Placeholders, NEW l \in Sends, l <= sent,
           UNCHANGED <<messages, current, sent, target>>,
           \A k \in Sends : k # l =>
               /\ k \in failed' <=> k \in failed
               /\ sending'[k] = sending[k] /\ outbox'[k] = outbox[k] /\ copies'[k] = copies[k],
           l \in failed' => sending'[l] = "idle",
           l \in failed' \/ sending'[l] # "idle" \/ outbox'[l] > 0 \/ copies'[l] > 0,
           failed' \subseteq Sends
    PROVE  Placeholders'
<1>1. \A m \in LocalRows(messages) : m.id.n \in Sends
  BY LocalIdType DEF LocalRows, TypeOK
<1>2. Known'
  BY DEF Placeholders, Known, LocalRows, IsLocal
<1>3. Single' /\ RowsOfCurrentChat'
  BY DEF Placeholders, Single, RowsOfCurrentChat, LocalRows, IsLocal
<1>4. OneRequestPerSend'
  BY DEF Placeholders, OneRequestPerSend
<1>5. LooksSentIsSent'
  BY <1>1 DEF Placeholders, LooksSentIsSent, LocalRows, IsLocal
<1>6. QED
  BY <1>2, <1>3, <1>4, <1>5 DEF Placeholders

LEMMA PlaceholdersUser ==
    ASSUME TypeOK, Placeholders, User \/ PollTick
    PROVE  Placeholders'
<1>1. ASSUME NEW c \in Chats, Open(c) PROVE Placeholders'
  BY <1>1, FewerPlaceholders DEF Open, srvVars, bookVars
<1>2. CASE Back \/ ChangeMode \/ PollTick
  BY <1>2, PlaceholdersUntouched DEF Back, ChangeMode, PollTick, viewVars, reqVars, srvVars, bookVars
<1>3. CASE SendInput
  <2> DEFINE l == sent + 1
             m == [id |-> Local(l), chat |-> current, at |-> now, ver |-> 0, react |-> FALSE]
  <2>1. l \in Sends /\ l > sent /\ sent \in Nat /\ current \in Chats
    BY <1>3, NatAssumption DEF SendInput, TypeOK, Sends
  <2>2. m.chat = current /\ m.id.n = l /\ IsLocal(m)
    BY DEF Local, IsLocal
  <2>3. /\ messages' = messages \cup {m} /\ sent' = l
        /\ sending' = [sending EXCEPT ![l] = "asked"]
        /\ target' = [target EXCEPT ![l] = current]
        /\ UNCHANGED <<current, failed, outbox, copies>>
    BY <1>3 DEF SendInput, srvVars
  <2>4. /\ sending \in [Sends -> {"idle", "asked", "err"}]
        /\ target \in [Sends -> Chats \cup {NoChat}]
        /\ failed \subseteq Sends
        /\ \A r \in LocalRows(messages) : r.id.n \in Sends /\ r.id.n <= sent
    BY LocalIdType DEF TypeOK, LocalRows, Placeholders, Known
  <2>5. /\ sending'[l] = "asked" /\ target'[l] = current
        /\ \A k \in Sends : k # l => sending'[k] = sending[k] /\ target'[k] = target[k]
    BY <2>1, <2>3, <2>4
  <2>6. \A k \in Sends : k \in Nat
    BY DEF Sends
  <2>7. \A k \in Sends : k <= sent' => k = l \/ k <= sent
    BY <2>1, <2>3, <2>6
  <2>8. LocalRows(messages)' = LocalRows(messages) \cup {m}
    BY <2>2, <2>3 DEF LocalRows, IsLocal
  <2> HIDE DEF l, m
  <2>9. \A k \in Sends : k <= sent => k <= sent' /\ k # l
    BY <2>1, <2>3, <2>6 DEF l
  <2>10. Known'
    <3>1. \A k \in Sends : k <= sent' => target'[k] \in Chats
      BY <2>1, <2>5, <2>7 DEF Placeholders, Known
    <3>2. \A k \in Sends : k \in failed' \/ sending'[k] # "idle" \/ outbox'[k] > 0
                              \/ copies'[k] > 0 => k <= sent'
      <4>1. l <= sent'
        BY <2>3, <2>1, <2>6
      <4>2. QED
        BY <2>3, <2>5, <2>9, <4>1 DEF Placeholders, Known
    <3>3. \A r \in LocalRows(messages)' : r.id.n <= sent'
      BY <2>1, <2>2, <2>3, <2>4, <2>6, <2>8, <2>9
    <3>4. QED
      BY <3>1, <3>2, <3>3 DEF Known, LocalRows
  <2>11. Single'
    BY <2>2, <2>4, <2>8, <2>9 DEF Placeholders, Single, LocalRows
  <2>12. RowsOfCurrentChat'
    BY <2>2, <2>3 DEF Placeholders, RowsOfCurrentChat
  <2>13. OneRequestPerSend'
    BY <2>3, <2>4, <2>5, <2>9 DEF Placeholders, OneRequestPerSend, Known
  <2>14. LooksSentIsSent'
    BY <2>2, <2>3, <2>4, <2>5, <2>8, <2>9 DEF Placeholders, LooksSentIsSent, LocalRows
  <2>15. QED
    BY <2>10, <2>11, <2>12, <2>13, <2>14 DEF Placeholders
<1>4. CASE RetryFailedSend
  <2>1. PICK m \in messages :
            /\ IsLocal(m) /\ m.id.n \in failed
            /\ failed' = failed \ {m.id.n}
            /\ sending' = [sending EXCEPT ![m.id.n] = "asked"]
    BY <1>4 DEF RetryFailedSend
  <2>2. /\ m.id.n \in Sends /\ m.id.n <= sent /\ failed \subseteq Sends
        /\ sending \in [Sends -> {"idle", "asked", "err"}]
    BY <2>1 DEF TypeOK, Placeholders, Known
  <2>3. UNCHANGED <<messages, current, sent, target, outbox, copies>>
    BY <1>4 DEF RetryFailedSend, srvVars, bookVars
  <2>4. sending'[m.id.n] = "asked" /\ \A k \in Sends : k # m.id.n => sending'[k] = sending[k]
    BY <2>1, <2>2
  <2>5. failed' \subseteq Sends /\ m.id.n \notin failed'
        /\ \A k \in Sends : k # m.id.n => (k \in failed' <=> k \in failed)
    BY <2>1, <2>2
  <2>6. QED
    BY <2>2, <2>3, <2>4, <2>5, PlaceholdersRequests
<1>5. CASE ToggleReaction
  <2>1. PICK m \in messages : messages' = (messages \ {m}) \cup {[m EXCEPT !.react = ~m.react]}
    BY <1>5 DEF ToggleReaction
  <2>2. /\ [m EXCEPT !.react = ~m.react].id = m.id
        /\ [m EXCEPT !.react = ~m.react].chat = m.chat
    BY <2>1 DEF TypeOK, Rows
  <2>3. PICK r : r.id = m.id /\ r.chat = m.chat /\ messages' = (messages \ {m}) \cup {r}
    BY <2>1, <2>2
  <2>4. UNCHANGED <<current, failed, sent, sending, outbox, copies, target>>
    BY <1>5 DEF ToggleReaction, srvVars
  <2>5. Known' /\ RowsOfCurrentChat' /\ OneRequestPerSend' /\ LooksSentIsSent'
    BY <2>3, <2>4 DEF Placeholders, Known, RowsOfCurrentChat, OneRequestPerSend,
                      LooksSentIsSent, LocalRows, IsLocal
  <2>6. Single'
    BY <2>3 DEF Placeholders, Single, LocalRows, IsLocal
  <2>7. QED
    BY <2>5, <2>6 DEF Placeholders
<1>6. QED
  BY <1>1, <1>2, <1>3, <1>4, <1>5 DEF User

LEMMA PlaceholdersResult ==
    ASSUME TypeOK, Sources, Placeholders, Loaded \/ Polled \/ Settled
    PROVE  Placeholders'
<1>1. ASSUME NEW f \in fetches, LoadResult(f) PROVE Placeholders'
  <2>1. UNCHANGED <<current, failed, sending, outbox, copies, sent, target>>
    BY <1>1 DEF LoadResult, srvVars, bookVars
  <2>2. CASE f.chat = current
    <3>1. messages' = f.rows /\ From(current, f.rows)
      BY <1>1, <2>2 DEF LoadResult, Sources
    <3>2. \A m \in messages' : m.chat = current' /\ ~IsLocal(m)
      BY <2>1, <3>1 DEF From
    <3>3. QED
      BY <2>1, <3>2, FewerPlaceholders
  <2>3. CASE f.chat # current
    BY <1>1, <2>1, <2>3, PlaceholdersUntouched DEF LoadResult
  <2>4. QED
    BY <2>2, <2>3
<1>2. ASSUME NEW f \in fetches, LoadError(f) PROVE Placeholders'
  BY <1>2, PlaceholdersUntouched DEF LoadError, srvVars, bookVars
<1>3. ASSUME NEW f \in fetches, RefreshResult(f) PROVE Placeholders'
  <2>1. UNCHANGED <<current, sending, outbox, copies, sent, target>>
    BY <1>3 DEF RefreshResult, srvVars, bookVars
  <2>2. CASE f.chat = current
    <3>1. From(current, f.rows) /\ Refreshed(f.rows)
      BY <1>3, <2>2 DEF RefreshResult, Sources
    <3> DEFINE gone == Echoed(f.rows)
    <3>2. /\ messages' = f.rows \cup (LocalRows(messages) \ gone)
          /\ failed' = failed \ {m.id.n : m \in gone}
          /\ gone \subseteq LocalRows(messages)
      BY <3>1 DEF Refreshed, Echoed
    <3> HIDE DEF gone
    <3>3. \A m \in messages' : m.chat = current' /\ (IsLocal(m) => m \in LocalRows(messages) \ gone)
      BY <2>1, <3>1, <3>2 DEF From, LocalRows, Placeholders, RowsOfCurrentChat
    <3>4. \A m \in messages' : IsLocal(m) /\ m.id.n \in failed => m.id.n \in failed'
      BY <3>2, <3>3 DEF Placeholders, Single
    <3>5. QED
      BY <2>1, <3>2, <3>3, <3>4, FewerPlaceholders DEF LocalRows
  <2>3. CASE f.chat # current
    BY <1>3, <2>1, <2>3, PlaceholdersUntouched DEF RefreshResult
  <2>4. QED
    BY <2>2, <2>3
<1>4. ASSUME NEW l \in Sends, SendError(l) PROVE Placeholders'
  <2>1. /\ sending[l] = "err" /\ sending' = [sending EXCEPT ![l] = "idle"]
        /\ failed' = failed \cup {l}
        /\ UNCHANGED <<messages, current, sent, target, outbox, copies>>
    BY <1>4 DEF SendError, srvVars, bookVars
  <2>2. /\ l <= sent /\ failed \subseteq Sends
        /\ sending \in [Sends -> {"idle", "asked", "err"}]
    BY <2>1 DEF TypeOK, Placeholders, Known
  <2>3. sending'[l] = "idle" /\ \A k \in Sends : k # l => sending'[k] = sending[k]
    BY <2>1, <2>2
  <2>4. QED
    BY <2>1, <2>2, <2>3, PlaceholdersRequests
<1>5. ASSUME NEW q \in reacting, ReactError(q) PROVE Placeholders'
  BY <1>5, PlaceholdersUntouched DEF ReactError, viewVars, srvVars, bookVars
<1>6. QED
  BY <1>1, <1>2, <1>3, <1>4, <1>5 DEF Loaded, Polled, Settled

(* What an event brings is the server's. *)
LEMMA HeadFrom ==
    ASSUME TypeOK, Sources, stream # <<>>
    PROVE  From(Head(stream).chat, Head(stream).rows)
<1>1. stream \in Seq(Events)
  BY DEF TypeOK
<1>2. Head(stream) = stream[1] /\ 1 \in 1..Len(stream)
  BY <1>1
<1>3. QED
  BY <1>2 DEF Sources

LEMMA PlaceholdersEvent ==
    ASSUME TypeOK, Sources, Placeholders, ApplyEvent
    PROVE  Placeholders'
<1>1. CASE ApplyConnected \/ ApplyReaction
  BY <1>1, PlaceholdersUntouched DEF ApplyConnected, ApplyReaction, viewVars, bookVars
<1>2. CASE ApplyUpsert
  <2>1. UNCHANGED <<current, sending, outbox, copies, sent, target>>
    BY <1>2 DEF ApplyUpsert, reqVars, bookVars
  <2>2. CASE UNCHANGED <<messages, failed>>
    BY <2>1, <2>2, PlaceholdersUntouched
  <2>3. ASSUME NEW m \in Head(stream).rows, Head(stream).chat = current, Upsert(m)
        PROVE  Placeholders'
    <3>1. ~IsLocal(m) /\ m.chat = current
      BY <1>2, <2>3, HeadFrom DEF ApplyUpsert, NextEvent, From
    <3> DEFINE gone == Claimed(m)
    <3>2. gone \subseteq LocalRows(messages)
      BY DEF Claimed
    <3>3. /\ messages' \subseteq (messages \ gone) \cup {m}
          /\ failed' = failed \ {r.id.n : r \in gone}
      <4>1. CASE gone # {}
        BY <2>3, <4>1 DEF Upsert
      <4>2. CASE gone = {}
        BY <2>3, <4>2 DEF Upsert
      <4>3. QED
        BY <4>1, <4>2
    <3> HIDE DEF gone
    <3>4. \A r \in messages' : r.chat = current' /\ (IsLocal(r) => r \in LocalRows(messages) \ gone)
      BY <2>1, <3>1, <3>3 DEF LocalRows, Placeholders, RowsOfCurrentChat
    <3>5. \A r \in messages' : IsLocal(r) /\ r.id.n \in failed => r.id.n \in failed'
      BY <3>2, <3>3, <3>4 DEF Placeholders, Single
    <3>6. QED
      BY <2>1, <3>3, <3>4, <3>5, FewerPlaceholders DEF LocalRows
  <2>4. QED
    BY <1>2, <2>2, <2>3 DEF ApplyUpsert
<1>3. CASE ApplyDeleted
  <2>1. messages' \subseteq messages
    BY <1>3 DEF ApplyDeleted
  <2>2. UNCHANGED <<current, failed, sending, outbox, copies, sent, target>>
    BY <1>3 DEF ApplyDeleted, reqVars, bookVars
  <2>3. \A m \in messages' : m.chat = current'
    BY <2>1, <2>2 DEF Placeholders, RowsOfCurrentChat
  <2>4. QED
    BY <2>1, <2>2, <2>3, FewerPlaceholders
<1>4. QED
  BY <1>1, <1>2, <1>3 DEF ApplyEvent

LEMMA PlaceholdersServer ==
    ASSUME TypeOK, Placeholders, Server
    PROVE  Placeholders'
<1>1. ASSUME NEW l \in Sends, SendAccepted(l) \/ SendRejected(l) \/ Dispatch(l)
      PROVE  Placeholders'
  <2>1. UNCHANGED <<messages, current, sent, target, failed>>
    BY <1>1 DEF SendAccepted, SendRejected, Dispatch, viewVars
  <2>2. /\ sending \in [Sends -> {"idle", "asked", "err"}]
        /\ outbox \in [Sends -> Nat] /\ copies \in [Sends -> Nat] /\ failed \subseteq Sends
    BY DEF TypeOK
  <2>3. CASE SendAccepted(l)
    <3>1. /\ sending[l] = "asked" /\ UNCHANGED copies
          /\ outbox' = [outbox EXCEPT ![l] = outbox[l] + 1]
          /\ \A k \in Sends : k # l => sending'[k] = sending[k]
      BY <2>2, <2>3 DEF SendAccepted
    <3>2. outbox'[l] > 0 /\ \A k \in Sends : k # l => outbox'[k] = outbox[k]
      BY <2>2, <3>1
    <3>3. l <= sent /\ l \notin failed
      BY <3>1 DEF Placeholders, Known, OneRequestPerSend
    <3>4. QED
      BY <2>1, <2>2, <3>1, <3>2, <3>3, PlaceholdersRequests
  <2>4. CASE SendRejected(l)
    <3>1. /\ sending[l] = "asked" /\ sending'[l] = "err" /\ UNCHANGED <<copies, outbox>>
          /\ \A k \in Sends : k # l => sending'[k] = sending[k]
      BY <2>2, <2>4 DEF SendRejected, srvVars
    <3>2. l <= sent /\ l \notin failed
      BY <3>1 DEF Placeholders, Known, OneRequestPerSend
    <3>3. QED
      BY <2>1, <2>2, <3>1, <3>2, PlaceholdersRequests
  <2>5. CASE Dispatch(l)
    <3>1. /\ outbox[l] > 0 /\ UNCHANGED sending
          /\ outbox' = [outbox EXCEPT ![l] = outbox[l] - 1]
          /\ copies' = [copies EXCEPT ![l] = copies[l] + 1]
      BY <2>5 DEF Dispatch, reqVars
    <3>2. copies'[l] > 0
          /\ \A k \in Sends : k # l => outbox'[k] = outbox[k] /\ copies'[k] = copies[k]
      BY <2>2, <3>1
    <3>3. l <= sent /\ (l \in failed => sending[l] = "idle")
      BY <3>1 DEF Placeholders, Known, OneRequestPerSend
    <3>4. QED
      BY <2>1, <2>2, <3>1, <3>2, <3>3, PlaceholdersRequests
  <2>6. QED
    BY <1>1, <2>3, <2>4, <2>5
<1>2. CASE \/ Answered \/ (\E f \in fetches : FetchFails(f))
           \/ (\E c \in Chats : OthersAct(c)) \/ (\E q \in reacting : ReactHandled(q))
           \/ Drop \/ Connect \/ Listen \/ Tick
  BY <1>2, PlaceholdersUntouched
     DEF Answered, Answer, FetchFails, OthersAct, ReactHandled, Drop, Connect, Listen, Tick,
         viewVars, reqVars, srvVars, bookVars
<1>3. QED
  BY <1>1, <1>2 DEF Server, SendHandled

LEMMA InvInit == Init => IInv
<1> SUFFICES ASSUME Init PROVE IInv
  OBVIOUS
<1>1. TypeOK
  BY TypeInit
<1>2. Sources
  BY DEF Init, Sources, From
<1>3. Placeholders
  BY NatAssumption DEF Init, Placeholders, Known, Single, RowsOfCurrentChat,
                       OneRequestPerSend, LooksSentIsSent, LocalRows, Sends
<1>4. QED
  BY <1>1, <1>2, <1>3 DEF IInv

LEMMA InvStep == IInv /\ [Next]_vars => IInv'
<1> SUFFICES ASSUME IInv, [Next]_vars PROVE IInv'
  OBVIOUS
<1>1. TypeOK /\ Known /\ Sources /\ Placeholders
  BY DEF IInv, Placeholders
<1>2. TypeOK' /\ Sources'
  BY <1>1, TypeStep, SourcesStep
<1>3. Placeholders'
  <2>1. CASE UNCHANGED vars
    BY <1>1, <2>1, PlaceholdersUntouched DEF vars, viewVars, reqVars, srvVars, bookVars
  <2>2. CASE Next
    BY <1>1, <2>2, PlaceholdersUser, PlaceholdersResult, PlaceholdersEvent, PlaceholdersServer
       DEF Next
  <2>3. QED
    BY <2>1, <2>2
<1>4. QED
  BY <1>2, <1>3 DEF IInv

LEMMA Invariance == Spec => []IInv
<1>1. QED
  BY InvInit, InvStep, PTL DEF Spec

-----------------------------------------------------------------------------
(* The theorems. *)

(* Every variable keeps its type. *)
THEOREM ConversationTypeCorrect == Spec => []TypeOK
<1>1. IInv => TypeOK
  BY DEF IInv
<1>2. QED
  BY <1>1, Invariance, PTL

(* However late an answer or an event is, it brings only rows of the chat on
   screen. *)
THEOREM ConversationOwnRows == Spec => []RowsOfCurrentChat
<1>1. IInv => RowsOfCurrentChat
  BY DEF IInv, Placeholders
<1>2. QED
  BY <1>1, Invariance, PTL

(* No message is left looking sent that was not: whatever the texts, a poll
   or an event that takes a flag takes its placeholder too. *)
THEOREM ConversationLooksSent == Spec => []LooksSentIsSent
<1>1. IInv => LooksSentIsSent
  BY DEF IInv, Placeholders
<1>2. QED
  BY <1>1, Invariance, PTL

(* A message that can be retried has no request in flight. *)
THEOREM ConversationOneRequest == Spec => []OneRequestPerSend
<1>1. IInv => OneRequestPerSend
  BY DEF IInv, Placeholders
<1>2. QED
  BY <1>1, Invariance, PTL

(* An echo is a message of the same text that has been dispatched. *)
LEMMA EchoIsDispatched ==
    ASSUME TypeOK, NEW c, NEW rows, rows \subseteq Rows, From(c, rows),
           NEW r \in rows, FromMe(r), NEW m \in LocalRows(messages), SameText(r, m)
    PROVE  ~TextUnsent(m.id.n)
<1>1. r \in Rows /\ r.id.kind = "copy" /\ r.id.n \in Sends
  BY DEF From, IsLocal, FromMe, Rows, Ids
<1>2. SendText[r.id.n] = SendText[m.id.n]
  BY DEF SameText
<1>3. copies[r.id.n] > 0 /\ copies[r.id.n] \in Nat
  BY <1>1 DEF From, TypeOK
<1>4. copies[r.id.n] # 0
  BY <1>3
<1>5. QED
  BY <1>1, <1>2, <1>4 DEF TextUnsent

(* Whatever the texts of the messages are, neither a poll nor an event takes
   the placeholder of a message as long as none of its text has been
   dispatched (poll.go:71-118, wsevents.go:170-190). *)
THEOREM ConversationKeepsUnsent == Spec => UnsentStaysOnScreen
<1>1. ASSUME IInv, Polled \/ ApplyEvent,
             NEW m \in LocalRows(messages), TextUnsent(m.id.n)
      PROVE  m \in messages'
  <2>1. TypeOK /\ Sources /\ m \in messages /\ IsLocal(m) /\ m \in Rows
    BY <1>1 DEF IInv, LocalRows, TypeOK
  <2>3. ASSUME NEW f \in fetches, RefreshResult(f) PROVE m \in messages'
    <3>1. CASE f.chat = current
      <4>1. f.rows \subseteq Rows /\ From(f.chat, f.rows)
        BY <2>1 DEF TypeOK, Fetches, Sources
      <4>2. ~HasEcho(f.rows, m)
        BY <1>1, <2>1, <4>1, EchoIsDispatched DEF HasEcho
      <4>3. QED
        BY <1>1, <2>3, <3>1, <4>2 DEF RefreshResult, Refreshed, Echoed
    <3>2. CASE f.chat # current
      BY <2>1, <2>3, <3>2 DEF RefreshResult
    <3>3. QED
      BY <3>1, <3>2
  <2>4. CASE ApplyConnected \/ ApplyReaction
    BY <2>1, <2>4 DEF ApplyConnected, ApplyReaction, viewVars
  <2>5. CASE ApplyUpsert
    <3>1. /\ Head(stream).rows \subseteq Rows
          /\ From(Head(stream).chat, Head(stream).rows)
      BY <2>1, <2>5, HeadFrom, NextEventType DEF ApplyUpsert, NextEvent, EventTypes
    <3>2. ASSUME NEW r \in Head(stream).rows, Upsert(r) PROVE m \in messages'
      <4>1. ~IsLocal(r) /\ r.id # m.id
        BY <2>1, <3>1 DEF From, IsLocal
      <4>2. m \notin Claimed(r)
        <5>1. ~(FromMe(r) /\ SameText(m, r))
          <6>1. SameText(m, r) => SameText(r, m)
            BY DEF SameText
          <6>2. QED
            BY <1>1, <2>1, <3>1, <6>1, EchoIsDispatched
        <5>2. QED
          BY <5>1 DEF Claimed
      <4>3. QED
        BY <2>1, <3>2, <4>1, <4>2 DEF Upsert
    <3>3. QED
      BY <2>1, <2>5, <3>2 DEF ApplyUpsert
  <2>6. CASE ApplyDeleted
    <3>1. From(Head(stream).chat, Head(stream).rows)
      BY <2>1, <2>6, HeadFrom DEF ApplyDeleted, NextEvent
    <3>2. \A r \in Head(stream).rows : r.id # m.id
      BY <2>1, <3>1 DEF From, IsLocal
    <3>3. QED
      BY <2>1, <2>6, <3>2 DEF ApplyDeleted
  <2>7. QED
    BY <1>1, <2>3, <2>4, <2>5, <2>6 DEF Polled, ApplyEvent
<1>2. IInv /\ [Next]_vars =>
        [Polled \/ ApplyEvent =>
           \A m \in LocalRows(messages) : TextUnsent(m.id.n) => m \in messages']_vars
  BY <1>1
<1>3. QED
  BY <1>2, Invariance, PTL DEF Spec, UnsentStaysOnScreen
-----------------------------------------------------------------------------
(* Nothing is shown twice, when no two messages have the same text. *)
DistinctSends == \A k, l \in Sends : SendText[k] = SendText[l] => k = l

(* Rows the server held at some time: copies that have been dispatched, none
   of them older than its placeholder, and other messages that were made. *)
Fits(rows, screen, dispatched, made) ==
    \A r \in rows :
        /\ r.id.kind = "copy" =>
             /\ r.id.k <= dispatched[r.id.n]
             /\ \A m \in screen : IsCopyOf(r, m) => m.at <= r.at
        /\ r.id.kind = "other" => r.id.n <= made

Unique(rows) == \A m, r \in rows : m.id = r.id => m = r

(* The server gives every message an identity of its own, and no echo is
   older than the placeholder it is the echo of. *)
Ledger ==
    /\ \A c \in Chats : Fits(store[c], messages, copies, news) /\ Unique(store[c])
    /\ \A f \in fetches : Fits(f.rows, messages, copies, news) /\ Unique(f.rows)
    /\ \A i \in 1..Len(stream) : Fits(stream[i].rows, messages, copies, news)
    /\ \A m \in messages : IsLocal(m) => m.at <= now
    /\ \A m \in messages : m.id.kind = "copy" => copies[m.id.n] > 0

(* The placeholders of one screen are among those of another. *)
Carries(old, new) ==
    \A m \in new : IsLocal(m) => \E o \in old : IsLocal(o) /\ o.id = m.id /\ o.at = m.at

LEMMA FitsKept ==
    ASSUME NEW rows \in SUBSET Rows, NEW old, NEW new, Carries(old, new),
           NEW d \in [Sends -> Nat], NEW e \in [Sends -> Nat], \A l \in Sends : d[l] <= e[l],
           NEW n \in Nat, NEW k \in Nat, n <= k, Fits(rows, old, d, n)
    PROVE  Fits(rows, new, e, k)
<1> SUFFICES ASSUME NEW r \in rows
    PROVE  /\ r.id.kind = "copy" =>
                /\ r.id.k <= e[r.id.n]
                /\ \A m \in new : IsCopyOf(r, m) => m.at <= r.at
           /\ r.id.kind = "other" => r.id.n <= k
  BY DEF Fits
<1>1. r \in Rows /\ r.id \in Ids
  BY DEF Rows
<1>2. CASE r.id.kind = "copy"
  <2>1. r.id.n \in Sends /\ r.id.k \in Nat /\ r.id.k <= d[r.id.n]
    BY <1>1, <1>2 DEF Fits, Ids
  <2>2. r.id.k <= e[r.id.n]
    BY <2>1
  <2>3. \A m \in new : IsCopyOf(r, m) => m.at <= r.at
    BY <1>2 DEF Fits, Carries, IsCopyOf
  <2>4. QED
    BY <1>2, <2>2, <2>3
<1>3. CASE r.id.kind = "other"
  <2>1. r.id.n \in Nat /\ r.id.n <= n
    BY <1>1, <1>3 DEF Fits, Ids
  <2>2. QED
    BY <1>3, <2>1
<1>4. QED
  BY <1>2, <1>3

LEMMA FitsPart ==
    ASSUME NEW rows, NEW screen, NEW d, NEW n, NEW part, part \subseteq rows,
           Fits(rows, screen, d, n)
    PROVE  Fits(part, screen, d, n)
BY DEF Fits

(* What the server's side holds moves on its way to Update, the screen loses
   placeholders and the clock advances. *)
LEMMA LedgerMoves ==
    ASSUME TypeOK, TypeOK', Ledger, UNCHANGED <<store, copies, news>>,
           Carries(messages, messages'), now <= now',
           \A f \in fetches' : \/ f.rows = {}
                               \/ \E g \in fetches : f.rows = g.rows
                               \/ \E c \in Chats : f.rows = store[c],
           \A i \in 1..Len(stream') : \/ stream'[i].rows = {}
                                      \/ \E j \in 1..Len(stream) : stream'[i] = stream[j],
           \A m \in messages' : m.id.kind = "copy" => copies[m.id.n] > 0
    PROVE  Ledger'
<1>1. /\ copies \in [Sends -> Nat] /\ news \in Nat
      /\ store \in [Chats -> SUBSET Rows] /\ stream \in Seq(Events)
      /\ \A f \in fetches : f.rows \subseteq Rows
      /\ \A m \in messages : m.at \in Nat
  BY NatAssumption DEF TypeOK, Fetches, Rows, Epochs
<1>2. \A j \in 1..Len(stream) : stream[j].rows \subseteq Rows
  <2>1. \A j \in 1..Len(stream) : stream[j] \in Events
    BY <1>1
  <2>2. QED
    BY <2>1 DEF Events
<1>3. ASSUME NEW rows \in SUBSET Rows, Fits(rows, messages, copies, news)
      PROVE  Fits(rows, messages', copies, news)
  <2>1. \A l \in Sends : copies[l] <= copies[l]
    BY <1>1
  <2>2. news <= news
    BY <1>1
  <2>3. QED
    BY <1>1, <1>3, <2>1, <2>2, FitsKept
<1>4. Fits({}, messages', copies, news) /\ Unique({})
  BY DEF Fits, Unique
<1>5. \A c \in Chats : Fits(store[c], messages', copies, news) /\ Unique(store[c])
  BY <1>1, <1>3 DEF Ledger
<1>6. \A f \in fetches' : Fits(f.rows, messages', copies, news) /\ Unique(f.rows)
  <2>1. \A g \in fetches : Fits(g.rows, messages', copies, news) /\ Unique(g.rows)
    BY <1>1, <1>3 DEF Ledger
  <2>2. QED
    BY <1>4, <1>5, <2>1
<1>7. \A i \in 1..Len(stream') : Fits(stream'[i].rows, messages', copies, news)
  <2>1. \A j \in 1..Len(stream) : Fits(stream[j].rows, messages', copies, news)
    BY <1>2, <1>3 DEF Ledger
  <2>2. QED
    BY <1>4, <2>1
<1>8. \A m \in messages' : IsLocal(m) => m.at <= now'
  <2>1. now \in Nat /\ now' \in Nat
    BY NatAssumption DEF TypeOK, Epochs
  <2>2. \A m \in messages : IsLocal(m) => m.at <= now
    BY DEF Ledger
  <2>3. QED
    BY <1>1, <2>1, <2>2 DEF Carries
<1>9. \A m \in messages' : m.id.kind = "copy" => copies'[m.id.n] > 0
  OBVIOUS
<1> HIDE DEF Fits, Unique
<1>10. QED
  BY <1>5, <1>6, <1>7, <1>8, <1>9 DEF Ledger
LEMMA LedgerUser ==
    ASSUME TypeOK, TypeOK', Sources, Placeholders, Ledger, User \/ PollTick
    PROVE  Ledger'
<1> USE DEF Carries
<1>1. now \in Nat /\ now <= now
  BY NatAssumption DEF TypeOK, Epochs
<1>2. ASSUME NEW c \in Chats, Open(c) PROVE Ledger'
  BY <1>1, <1>2, IssueRows, LedgerMoves DEF Open, srvVars, bookVars
<1>3. CASE Back \/ ChangeMode \/ RetryFailedSend
  BY <1>1, <1>3, LedgerMoves
     DEF Back, ChangeMode, RetryFailedSend, reqVars, srvVars, bookVars, Ledger
<1>4. CASE PollTick
  BY <1>1, <1>4, IssueRows, LedgerMoves DEF PollTick, viewVars, srvVars, bookVars, Ledger
<1>5. CASE ToggleReaction
  <2>1. PICK m \in messages : messages' = (messages \ {m}) \cup {[m EXCEPT !.react = ~m.react]}
    BY <1>5 DEF ToggleReaction
  <2>2. /\ [m EXCEPT !.react = ~m.react].id = m.id
        /\ [m EXCEPT !.react = ~m.react].at = m.at
    BY <2>1 DEF TypeOK, Rows
  <2>3. PICK r : r.id = m.id /\ r.at = m.at /\ messages' = (messages \ {m}) \cup {r}
    BY <2>1, <2>2
  <2>4. UNCHANGED <<store, copies, news, now, fetches, stream>>
    BY <1>5 DEF ToggleReaction, srvVars
  <2>5. Carries(messages, messages')
    BY <2>3 DEF IsLocal
  <2>6. \A o \in messages' : o.id.kind = "copy" => copies[o.id.n] > 0
    BY <2>3 DEF Ledger
  <2>7. QED
    BY <1>1, <2>4, <2>5, <2>6, LedgerMoves
<1>6. CASE SendInput
  <2> DEFINE l == sent + 1
             m == [id |-> Local(l), chat |-> current, at |-> now, ver |-> 0, react |-> FALSE]
  <2>1. messages' = messages \cup {m} /\ UNCHANGED <<store, copies, news, now, fetches, stream>>
    BY <1>6 DEF SendInput, srvVars
  <2>2. m.id.n = l /\ IsLocal(m) /\ m.at = now
    BY DEF Local, IsLocal
  <2>3. l \in Sends /\ ~(l <= sent) /\ ~(copies[l] > 0)
    BY <1>6, NatAssumption DEF SendInput, TypeOK, Sends, Placeholders, Known
  <2> HIDE DEF l, m
  <2>4. ASSUME NEW c, NEW rows, From(c, rows), Fits(rows, messages, copies, news)
        PROVE  Fits(rows, messages', copies, news)
    BY <2>1, <2>2, <2>3, <2>4 DEF From, Fits, IsCopyOf
  <2>5. \A c \in Chats : Fits(store[c], messages', copies, news)
    BY <2>4 DEF Sources, Ledger
  <2>6. \A f \in fetches : Fits(f.rows, messages', copies, news)
    BY <2>4 DEF Sources, Ledger
  <2>7. \A i \in 1..Len(stream) : Fits(stream[i].rows, messages', copies, news)
    BY <2>4 DEF Sources, Ledger
  <2>8. \A o \in messages' : /\ IsLocal(o) => o.at <= now
                             /\ o.id.kind = "copy" => copies[o.id.n] > 0
    BY <1>1, <2>1, <2>2 DEF Ledger, IsLocal
  <2> HIDE DEF Fits, Unique
  <2>9. QED
    BY <2>1, <2>5, <2>6, <2>7, <2>8 DEF Ledger
<1>7. QED
  BY <1>2, <1>3, <1>4, <1>5, <1>6 DEF User

LEMMA LedgerResult ==
    ASSUME TypeOK, TypeOK', Sources, Ledger, Loaded \/ Polled \/ Settled
    PROVE  Ledger'
<1> USE DEF Carries
<1>1. now \in Nat /\ now <= now
  BY NatAssumption DEF TypeOK, Epochs
<1>2. ASSUME NEW f \in fetches,
             UNCHANGED <<store, stream, copies, news, now>>, fetches' = fetches \ {f},
             \A m \in messages' : m \in messages \/ m \in f.rows
      PROVE  Ledger'
  <2>1. \A m \in f.rows : ~IsLocal(m) /\ (m.id.kind = "copy" => copies[m.id.n] > 0)
    BY DEF Sources, From
  <2>2. QED
    BY <1>1, <1>2, <2>1, LedgerMoves DEF Ledger
<1>3. ASSUME NEW f \in fetches, LoadResult(f) \/ LoadError(f) PROVE Ledger'
  BY <1>2, <1>3 DEF LoadResult, LoadError, srvVars, bookVars
<1>4. ASSUME NEW f \in fetches, RefreshResult(f) PROVE Ledger'
  BY <1>2, <1>4 DEF RefreshResult, Refreshed, LocalRows, srvVars, bookVars
<1>5. ASSUME NEW l \in Sends, SendError(l) PROVE Ledger'
  BY <1>1, <1>5, IssueRows, LedgerMoves DEF SendError, srvVars, bookVars, Ledger
<1>6. ASSUME NEW q \in reacting, ReactError(q) PROVE Ledger'
  BY <1>1, <1>6, IssueRows, LedgerMoves DEF ReactError, viewVars, srvVars, bookVars, Ledger
<1>7. QED
  BY <1>3, <1>4, <1>5, <1>6 DEF Loaded, Polled, Settled

LEMMA LedgerEvent ==
    ASSUME TypeOK, TypeOK', Sources, Ledger, ApplyEvent
    PROVE  Ledger'
<1> USE DEF Carries
<1>1. now \in Nat /\ now <= now /\ stream \in Seq(Events)
  BY NatAssumption DEF TypeOK, Epochs
<1>2. stream # <<>> /\ stream' = Tail(stream) /\ UNCHANGED <<store, copies, news, now>>
  BY DEF ApplyEvent, ApplyConnected, ApplyUpsert, ApplyReaction, ApplyDeleted, NextEvent,
         bookVars
<1>3. \A i \in 1..Len(stream') : stream'[i] = stream[i + 1] /\ i + 1 \in 1..Len(stream)
  BY <1>1, <1>2
<1>4. CASE ApplyConnected
  BY <1>1, <1>2, <1>3, <1>4, IssueRows, LedgerMoves DEF ApplyConnected, Ledger
<1>5. CASE ApplyUpsert
  <2>1. From(Head(stream).chat, Head(stream).rows)
    BY <1>2, HeadFrom
  <2>2. \A m \in Head(stream).rows : ~IsLocal(m) /\ (m.id.kind = "copy" => copies[m.id.n] > 0)
    BY <2>1 DEF From
  <2>3. \A m \in messages' : m \in messages \/ m \in Head(stream).rows
    BY <1>5 DEF ApplyUpsert, Upsert
  <2>4. UNCHANGED fetches
    BY <1>5 DEF ApplyUpsert, reqVars
  <2>5. QED
    BY <1>1, <1>2, <1>3, <2>2, <2>3, <2>4, LedgerMoves DEF Ledger
<1>6. CASE ApplyReaction
  BY <1>1, <1>2, <1>3, <1>6, IssueRows, LedgerMoves DEF ApplyReaction, viewVars, Ledger
<1>7. CASE ApplyDeleted
  BY <1>1, <1>2, <1>3, <1>7, LedgerMoves DEF ApplyDeleted, reqVars, Ledger
<1>8. QED
  BY <1>4, <1>5, <1>6, <1>7 DEF ApplyEvent

LEMMA LedgerRequest ==
    ASSUME TypeOK, TypeOK', Ledger,
           \/ Answered \/ SendHandled \/ (\E f \in fetches : FetchFails(f))
           \/ Drop \/ Connect \/ Listen \/ Tick
    PROVE  Ledger'
<1> USE DEF Carries
<1>1. now \in Nat /\ now <= now /\ now <= now + 1 /\ stream \in Seq(Events)
  BY NatAssumption DEF TypeOK, Epochs
<1>2. ASSUME NEW f \in fetches, Answer(f) \/ FetchFails(f) PROVE Ledger'
  <2>1. f \in Fetches /\ f.chat \in Chats
    BY DEF TypeOK, Fetches
  <2>2. /\ [f EXCEPT !.phase = "answered", !.rows = store[f.chat]].rows = store[f.chat]
        /\ [f EXCEPT !.phase = "failed"].rows = f.rows
    BY <2>1 DEF Fetches
  <2>3. \A g \in fetches' : \/ \E h \in fetches : g.rows = h.rows
                            \/ \E c \in Chats : g.rows = store[c]
    BY <1>2, <2>1, <2>2 DEF Answer, FetchFails
  <2>4. UNCHANGED <<messages, store, stream, copies, news, now>>
    BY <1>2 DEF Answer, FetchFails, viewVars, srvVars, bookVars
  <2>5. QED
    BY <1>1, <2>3, <2>4, LedgerMoves DEF Ledger
<1>3. ASSUME NEW l \in Sends, SendAccepted(l) \/ SendRejected(l) PROVE Ledger'
  BY <1>1, <1>3, LedgerMoves DEF SendAccepted, SendRejected, viewVars, srvVars, Ledger
<1>4. CASE Drop
  <2>1. PICK k \in 0..Len(stream) : stream' = SubSeq(stream, 1, k)
    BY <1>4 DEF Drop
  <2>2. \A i \in 1..Len(stream') : stream'[i] = stream[i] /\ i \in 1..Len(stream)
    BY <1>1, <2>1
  <2>3. UNCHANGED <<messages, store, fetches, copies, news, now>>
    BY <1>4 DEF Drop, viewVars, reqVars
  <2>4. QED
    BY <1>1, <2>2, <2>3, LedgerMoves DEF Ledger
<1>5. CASE Connect
  <2> DEFINE e == Event("connected", NoChat, {})
  <2>1. e.rows = {}
    BY DEF Event
  <2>2. stream' = Append(stream, e) /\ UNCHANGED <<messages, store, fetches, copies, news, now>>
    BY <1>5 DEF Connect, viewVars, reqVars, bookVars
  <2> HIDE DEF e
  <2>3. \A i \in 1..Len(stream') : \/ stream'[i].rows = {}
                                   \/ i \in 1..Len(stream) /\ stream'[i] = stream[i]
    BY <1>1, <2>1, <2>2
  <2>4. QED
    BY <1>1, <2>2, <2>3, LedgerMoves DEF Ledger
<1>6. CASE Listen \/ Tick
  BY <1>1, <1>6, LedgerMoves DEF Listen, Tick, viewVars, reqVars, bookVars, Ledger
<1>7. QED
  BY <1>2, <1>3, <1>4, <1>5, <1>6 DEF Answered, SendHandled
(* An edit and a reaction keep what a row is known by. *)
LEMMA EditFits ==
    ASSUME NEW rows, NEW screen, NEW d, NEW n, Unique(rows), Fits(rows, screen, d, n),
           NEW m \in rows, NEW e, e.id = m.id, e.at = m.at
    PROVE  /\ Unique((rows \ {m}) \cup {e})
           /\ Fits((rows \ {m}) \cup {e}, screen, d, n)
           /\ Fits({e}, screen, d, n)
<1>1. Unique((rows \ {m}) \cup {e})
  BY DEF Unique
<1>2. Fits((rows \ {m}) \cup {e}, screen, d, n) /\ Fits({e}, screen, d, n)
  BY DEF Fits, IsCopyOf
<1>3. QED
  BY <1>1, <1>2

(* One more event at the end of a queue. *)
LEMMA Appended ==
    ASSUME NEW S, NEW s \in Seq(S), NEW e, NEW i \in 1..Len(Append(s, e))
    PROVE  \/ i \in 1..Len(s) /\ Append(s, e)[i] = s[i]
           \/ Append(s, e)[i] = e
OBVIOUS

(* The server changes one chat and may tell of it. *)
LEMMA LedgerChange ==
    ASSUME TypeOK, TypeOK', Ledger, UNCHANGED <<messages, fetches, now>>,
           \A l \in Sends : copies[l] <= copies'[l], news <= news',
           NEW c \in Chats, \A d \in Chats : d # c => store'[d] = store[d],
           Unique(store'[c]), Fits(store'[c], messages, copies', news'),
           NEW e, Fits(e.rows, messages, copies', news'),
           stream' = stream \/ stream' = Append(stream, e)
    PROVE  Ledger'
<1>1. /\ copies \in [Sends -> Nat] /\ copies' \in [Sends -> Nat]
      /\ news \in Nat /\ news' \in Nat
      /\ store \in [Chats -> SUBSET Rows] /\ stream \in Seq(Events)
      /\ \A f \in fetches : f.rows \subseteq Rows
      /\ messages \subseteq Rows
  BY NatAssumption DEF TypeOK, Fetches
<1>2. \A j \in 1..Len(stream) : stream[j].rows \subseteq Rows
  <2>1. \A j \in 1..Len(stream) : stream[j] \in Events
    BY <1>1
  <2>2. QED
    BY <2>1 DEF Events
<1>3. ASSUME NEW rows \in SUBSET Rows, Fits(rows, messages, copies, news)
      PROVE  Fits(rows, messages, copies', news')
  <2>1. Carries(messages, messages)
    BY DEF Carries
  <2>2. QED
    BY <1>1, <1>3, <2>1, FitsKept
<1>4. \A d \in Chats : Fits(store'[d], messages, copies', news') /\ Unique(store'[d])
  BY <1>1, <1>3 DEF Ledger
<1>5. \A f \in fetches : Fits(f.rows, messages, copies', news') /\ Unique(f.rows)
  BY <1>1, <1>3 DEF Ledger
<1>6. \A i \in 1..Len(stream') : Fits(stream'[i].rows, messages, copies', news')
  <2>1. \A i \in 1..Len(stream') :
            \/ i \in 1..Len(stream) /\ stream'[i] = stream[i]
            \/ stream'[i] = e
    <3>1. stream \in Seq(Events)
      BY <1>1
    <3>2. CASE stream' = stream
      BY <3>2
    <3>3. CASE stream' = Append(stream, e)
      BY <3>1, <3>3, Appended
    <3>4. QED
      BY <3>2, <3>3
  <2>2. \A j \in 1..Len(stream) : Fits(stream[j].rows, messages, copies', news')
    BY <1>2, <1>3 DEF Ledger
  <2>3. QED
    BY <2>1, <2>2
<1>7. \A m \in messages : m.id.kind = "copy" => copies'[m.id.n] > 0
  <2>1. ASSUME NEW m \in messages, m.id.kind = "copy" PROVE copies'[m.id.n] > 0
    <3>1. m.id.n \in Sends /\ copies[m.id.n] > 0
      BY <1>1, <2>1 DEF Ledger, Rows, Ids
    <3>2. QED
      BY <1>1, <3>1
  <2>2. QED
    BY <2>1
<1> HIDE DEF Fits, Unique
<1>8. QED
  BY <1>4, <1>5, <1>6, <1>7 DEF Ledger

LEMMA LedgerStore ==
    ASSUME TypeOK, TypeOK', Known, Ledger,
           \/ \E l \in Sends : Dispatch(l)
           \/ \E c \in Chats : OthersAct(c)
           \/ \E q \in reacting : ReactHandled(q)
    PROVE  Ledger'
<1>1. /\ copies \in [Sends -> Nat] /\ news \in Nat /\ now \in Nat
      /\ store \in [Chats -> SUBSET Rows] /\ stream \in Seq(Events)
      /\ \A l \in Sends : copies[l] <= copies[l]
      /\ news <= news /\ news <= news + 1
  BY NatAssumption DEF TypeOK, Epochs
<1>2. \A c \in Chats : Unique(store[c]) /\ Fits(store[c], messages, copies, news)
  BY DEF Ledger
<1>3. ASSUME NEW l \in Sends, Dispatch(l) PROVE Ledger'
  <2> DEFINE c == target[l]
             m == [id |-> Copy(l, copies[l] + 1), chat |-> c, at |-> now, ver |-> 0,
                   react |-> FALSE]
             e == Event("upsert", c, {m})
  <2>1. c \in Chats
    BY <1>1, <1>3 DEF Dispatch, TypeOK, Known, Sends
  <2>2. m.id.kind = "copy" /\ m.id.n = l /\ m.id.k = copies[l] + 1 /\ m.at = now
        /\ e.rows = {m}
    BY DEF Copy, Event
  <2>3. /\ store' = [store EXCEPT ![c] = store[c] \cup {m}]
        /\ copies' = [copies EXCEPT ![l] = copies[l] + 1]
        /\ stream' = stream \/ stream' = Append(stream, e)
        /\ UNCHANGED <<messages, fetches, now, news>>
    BY <1>3 DEF Dispatch, Publish, viewVars, reqVars
  <2> HIDE DEF c, m, e
  <2>4. /\ store'[c] = store[c] \cup {m}
        /\ \A d \in Chats : d # c => store'[d] = store[d]
        /\ copies'[l] = copies[l] + 1
        /\ \A n \in Sends : copies'[n] \in Nat /\ copies[n] <= copies'[n]
    BY <1>1, <2>1, <2>3
  <2>5. \A r \in store[c] : r.id # m.id
    <3>1. ASSUME NEW r \in store[c], r.id = m.id PROVE FALSE
      <4>1. copies[l] + 1 <= copies[l]
        BY <1>2, <2>1, <2>2, <3>1 DEF Fits
      <4>2. QED
        BY <1>1, <4>1
    <3>2. QED
      BY <3>1
  <2>6. Unique(store'[c])
    BY <1>2, <2>1, <2>4, <2>5 DEF Unique
  <2>7. Fits({m}, messages, copies', news')
    <3>1. \A o \in messages : IsLocal(o) => o.at <= now
      BY DEF Ledger
    <3>2. copies[l] + 1 <= copies'[l]
      BY <1>1, <2>4
    <3>3. QED
      BY <2>2, <3>1, <3>2 DEF Fits, IsCopyOf
  <2>8. Fits(store'[c], messages, copies', news')
    <3>1. Fits(store[c], messages, copies', news')
      <4>1. Carries(messages, messages)
        BY DEF Carries
      <4>2. copies' \in [Sends -> Nat] /\ news' = news
        BY <2>3 DEF TypeOK
      <4>3. QED
        BY <1>1, <1>2, <2>1, <2>4, <4>1, <4>2, FitsKept
    <3>2. QED
      BY <2>4, <2>7, <3>1 DEF Fits
  <2>9. QED
    BY <1>1, <2>1, <2>2, <2>3, <2>4, <2>6, <2>7, <2>8, LedgerChange
<1>4. ASSUME NEW c \in Chats, NEW m \in store[c], NEW n, n.id = m.id, n.at = m.at,
             store' = [store EXCEPT ![c] = (store[c] \ {m}) \cup {n}],
             NEW e, e.rows \subseteq {n}, stream' = stream \/ stream' = Append(stream, e),
             UNCHANGED <<messages, fetches, now, copies>>, news <= news'
      PROVE  Ledger'
  <2>1. /\ store'[c] = (store[c] \ {m}) \cup {n}
        /\ \A d \in Chats : d # c => store'[d] = store[d]
    BY <1>1, <1>4
  <2>2. /\ Carries(messages, messages)
        /\ news' \in Nat
    BY NatAssumption DEF Carries, TypeOK
  <2>3. Fits(store[c], messages, copies, news')
    BY <1>1, <1>2, <1>4, <2>2, FitsKept
  <2>4. /\ Unique(store'[c]) /\ Fits(store'[c], messages, copies, news')
        /\ Fits({n}, messages, copies, news')
    <3>1. Unique(store[c]) /\ n.id = m.id /\ n.at = m.at
      BY <1>2, <1>4
    <3>2. /\ Unique((store[c] \ {m}) \cup {n})
          /\ Fits((store[c] \ {m}) \cup {n}, messages, copies, news')
          /\ Fits({n}, messages, copies, news')
      BY <2>3, <3>1, EditFits
    <3>3. QED
      BY <2>1, <3>2
  <2>5. Fits(e.rows, messages, copies, news')
    BY <1>4, <2>4, FitsPart
  <2>6. QED
    BY <1>1, <1>4, <2>1, <2>4, <2>5, LedgerChange
<1>5. ASSUME NEW c \in Chats, OthersAct(c) PROVE Ledger'
  <2>1. news' = news + 1 /\ UNCHANGED <<messages, fetches, now, copies>>
    BY <1>5 DEF OthersAct, viewVars, reqVars
  <2> DEFINE n == [id |-> Other(news + 1), chat |-> c, at |-> now, ver |-> 0, react |-> FALSE]
             e == Event("upsert", c, {n})
  <2>2. CASE store' = [store EXCEPT ![c] = @ \cup {n}] /\ Publish(e)
    <3>1. n.id.kind = "other" /\ n.id.n = news + 1 /\ e.rows = {n}
      BY DEF Other, Event
    <3>2. stream' = stream \/ stream' = Append(stream, e)
      BY <2>2 DEF Publish
    <3>3. store' = [store EXCEPT ![c] = store[c] \cup {n}]
      BY <2>2
    <3> HIDE DEF n, e
    <3>4. /\ store'[c] = store[c] \cup {n}
          /\ \A d \in Chats : d # c => store'[d] = store[d]
      BY <1>1, <3>3
    <3>5. \A r \in store[c] : r.id # n.id
      <4>1. ASSUME NEW r \in store[c], r.id = n.id PROVE FALSE
        <5>1. news + 1 <= news
          BY <1>2, <3>1, <4>1 DEF Fits
        <5>2. QED
          BY <1>1, <5>1
      <4>2. QED
        BY <4>1
    <3>6. Unique(store'[c])
      BY <1>2, <3>4, <3>5 DEF Unique
    <3>7. Fits({n}, messages, copies, news')
      BY <1>1, <2>1, <3>1 DEF Fits
    <3>8. Fits(store[c], messages, copies, news')
      <4>1. Carries(messages, messages) /\ news' \in Nat
        BY <1>1, <2>1 DEF Carries
      <4>2. QED
        BY <1>1, <1>2, <2>1, <4>1, FitsKept
    <3>9. Fits(store'[c], messages, copies, news')
      BY <3>4, <3>7, <3>8 DEF Fits
    <3>10. QED
      BY <1>1, <2>1, <3>1, <3>2, <3>4, <3>6, <3>7, <3>9, LedgerChange
  <2>3. ASSUME NEW m \in store[c],
               store' = [store EXCEPT ![c] = (@ \ {m}) \cup {[m EXCEPT !.ver = @ + 1]}],
               \/ Publish(Event("upsert", c, {[m EXCEPT !.ver = @ + 1]}))
               \/ Publish(Event("reaction", c, {}))
        PROVE  Ledger'
    <3> DEFINE o == [m EXCEPT !.ver = @ + 1]
    <3>1. o.id = m.id /\ o.at = m.at
      BY <1>1 DEF Rows
    <3>2. store' = [store EXCEPT ![c] = (store[c] \ {m}) \cup {o}]
      BY <2>3
    <3>3. PICK f : f.rows \subseteq {o} /\ (stream' = stream \/ stream' = Append(stream, f))
      BY <2>3 DEF Publish, Event
    <3> HIDE DEF o
    <3>4. QED
      BY <1>1, <1>4, <2>1, <3>1, <3>2, <3>3
  <2>4. ASSUME NEW m \in store[c], store' = [store EXCEPT ![c] = @ \ {m}],
               Publish(Event("deleted", c, {m}))
        PROVE  Ledger'
    <3>1. PICK f : f.rows = {m} /\ (stream' = stream \/ stream' = Append(stream, f))
      BY <2>4 DEF Publish, Event
    <3>2. /\ store'[c] \subseteq store[c] /\ {m} \subseteq store[c]
          /\ \A d \in Chats : d # c => store'[d] = store[d]
      BY <1>1, <2>4
    <3>3. Unique(store'[c])
      BY <1>2, <3>2 DEF Unique
    <3>4. Fits(store[c], messages, copies, news')
      <4>1. Carries(messages, messages) /\ news' \in Nat
        BY <1>1, <2>1 DEF Carries
      <4>2. QED
        BY <1>1, <1>2, <2>1, <4>1, FitsKept
    <3>5. Fits(store'[c], messages, copies, news') /\ Fits(f.rows, messages, copies, news')
      BY <3>1, <3>2, <3>4, FitsPart
    <3>6. QED
      BY <1>1, <2>1, <3>1, <3>2, <3>3, <3>5, LedgerChange
  <2>5. QED
    BY <1>5, <2>2, <2>3, <2>4 DEF OthersAct
<1>6. ASSUME NEW q \in reacting, ReactHandled(q) PROVE Ledger'
  <2>1. /\ UNCHANGED <<messages, fetches, now, copies, news>> /\ q.chat \in Chats
    BY <1>6 DEF ReactHandled, TypeOK, Reactions, viewVars
  <2>2. CASE UNCHANGED <<store, stream>>
    BY <1>1, <2>1, <2>2, LedgerMoves DEF Ledger, Carries
  <2>3. ASSUME NEW m \in store[q.chat],
               store' = [store EXCEPT ![q.chat] = (@ \ {m}) \cup {[m EXCEPT !.react = q.on]}],
               Publish(Event("reaction", q.chat, {}))
        PROVE  Ledger'
    <3> DEFINE o == [m EXCEPT !.react = q.on]
    <3>1. o.id = m.id /\ o.at = m.at
      BY <1>1, <2>1 DEF Rows
    <3>2. store' = [store EXCEPT ![q.chat] = (store[q.chat] \ {m}) \cup {o}]
      BY <2>3
    <3>3. PICK f : f.rows \subseteq {o} /\ (stream' = stream \/ stream' = Append(stream, f))
      BY <2>3 DEF Publish, Event
    <3> HIDE DEF o
    <3>4. news <= news'
      BY <1>1, <2>1
    <3>5. QED
      BY <1>4, <2>1, <3>1, <3>2, <3>3, <3>4
  <2>4. QED
    BY <1>6, <2>2, <2>3 DEF ReactHandled
<1>7. QED
  BY <1>3, <1>5, <1>6

LEMMA LedgerStep ==
    ASSUME TypeOK, TypeOK', Sources, Placeholders, Ledger, [Next]_vars
    PROVE  Ledger'
<1>1. CASE UNCHANGED vars
  <2>1. now <= now
    BY NatAssumption DEF TypeOK, Epochs
  <2>2. QED
    BY <1>1, <2>1, LedgerMoves
       DEF vars, viewVars, reqVars, srvVars, bookVars, Carries, Ledger
<1>2. CASE Next
  BY <1>2, LedgerUser, LedgerResult, LedgerEvent, LedgerRequest, LedgerStore
     DEF Next, Server, Placeholders
<1>3. QED
  BY <1>1, <1>2
LEMMA FewerRows ==
    ASSUME NoDoubleRender, messages' \subseteq messages
    PROVE  NoDoubleRender'
BY DEF NoDoubleRender, OneRowPerMessage

(* Rows of the server's beside placeholders none of them is the copy of. *)
LEMMA RowsBeside ==
    ASSUME Single, NEW c, NEW rows, From(c, rows), Unique(rows),
           NEW kept \in SUBSET LocalRows(messages),
           \A m \in kept, r \in rows : ~IsCopyOf(r, m),
           messages' = rows \cup kept
    PROVE  NoDoubleRender'
<1>1. \A r \in rows : ~IsLocal(r)
  BY DEF From
<1>2. \A m \in kept : m \in LocalRows(messages) /\ IsLocal(m)
  BY DEF LocalRows
<1>3. \A m, r \in kept : m.id = r.id => m = r
  BY <1>2 DEF Single
<1>4. \A m \in kept, r \in rows : m.id # r.id
  BY <1>1, <1>2 DEF IsLocal
<1>5. \A m, r \in messages' : m # r => m.id # r.id
  BY <1>3, <1>4 DEF Unique
<1>6. \A m, r \in messages' : ~IsCopyOf(r, m)
  BY <1>1, <1>2 DEF IsCopyOf, IsLocal
<1>7. QED
  BY <1>5, <1>6 DEF NoDoubleRender, OneRowPerMessage

LEMMA OnceUser ==
    ASSUME TypeOK, Placeholders, Ledger, NoDoubleRender, User \/ PollTick
    PROVE  NoDoubleRender'
<1>1. CASE (\E c \in Chats : Open(c)) \/ Back \/ ChangeMode \/ RetryFailedSend \/ PollTick
  BY <1>1, FewerRows DEF Open, Back, ChangeMode, RetryFailedSend, PollTick, viewVars
<1>2. CASE ToggleReaction
  <2>1. PICK m \in messages : messages' = (messages \ {m}) \cup {[m EXCEPT !.react = ~m.react]}
    BY <1>2 DEF ToggleReaction
  <2>2. [m EXCEPT !.react = ~m.react].id = m.id
    BY <2>1 DEF TypeOK, Rows
  <2>3. PICK r : r.id = m.id /\ messages' = (messages \ {m}) \cup {r}
    BY <2>1, <2>2
  <2>4. QED
    BY <2>3 DEF NoDoubleRender, OneRowPerMessage, IsCopyOf, IsLocal
<1>3. CASE SendInput
  <2> DEFINE l == sent + 1
             m == [id |-> Local(l), chat |-> current, at |-> now, ver |-> 0, react |-> FALSE]
  <2>1. messages' = messages \cup {m}
    BY <1>3 DEF SendInput
  <2>2. m.id.n = l /\ IsLocal(m)
    BY DEF Local, IsLocal
  <2>3. l \in Sends /\ ~(l <= sent) /\ ~(copies[l] > 0)
    BY <1>3, NatAssumption DEF SendInput, TypeOK, Sends, Placeholders, Known
  <2> HIDE DEF l, m
  <2>4. \A r \in messages : r.id # m.id
    BY <2>2, <2>3 DEF Placeholders, Known, LocalRows, IsLocal
  <2>5. /\ \A r \in messages : ~IsCopyOf(r, m) /\ ~IsCopyOf(m, r)
        /\ ~IsCopyOf(m, m)
    BY <2>2, <2>3 DEF Ledger, IsCopyOf, IsLocal
  <2>6. OneRowPerMessage'
    BY <2>1, <2>4 DEF NoDoubleRender, OneRowPerMessage
  <2>7. QED
    BY <2>1, <2>5, <2>6 DEF NoDoubleRender
<1>4. QED
  BY <1>1, <1>2, <1>3 DEF User

LEMMA OnceResult ==
    ASSUME TypeOK, Sources, Placeholders, Ledger, NoDoubleRender, Loaded \/ Polled \/ Settled
    PROVE  NoDoubleRender'
<1>1. ASSUME NEW f \in fetches, LoadResult(f) PROVE NoDoubleRender'
  <2>1. CASE messages' = f.rows
    <3>1. messages' = f.rows \cup {} /\ From(f.chat, f.rows) /\ Unique(f.rows)
      BY <2>1 DEF Sources, Ledger
    <3>2. {} \in SUBSET LocalRows(messages) /\ \A m \in {}, r \in f.rows : ~IsCopyOf(r, m)
      OBVIOUS
    <3>3. QED
      BY <3>1, <3>2, RowsBeside DEF Placeholders
  <2>2. CASE UNCHANGED messages
    BY <2>2, FewerRows
  <2>3. QED
    BY <1>1, <2>1, <2>2 DEF LoadResult
<1>2. ASSUME NEW f \in fetches, RefreshResult(f) PROVE NoDoubleRender'
  <2>1. CASE Refreshed(f.rows)
    <3> DEFINE kept == LocalRows(messages) \ Echoed(f.rows)
    <3>1. messages' = f.rows \cup kept /\ From(f.chat, f.rows) /\ Unique(f.rows)
      BY <2>1 DEF Refreshed, Sources, Ledger
    <3>2. ASSUME NEW m \in kept, NEW r \in f.rows, IsCopyOf(r, m) PROVE FALSE
      <4>1. ~HasEcho(f.rows, m) /\ m \in messages /\ m \in Rows
        BY DEF Echoed, LocalRows, TypeOK
      <4>2. r \in Rows /\ r.id.kind = "copy"
        BY <3>2 DEF TypeOK, Fetches, IsCopyOf
      <4>3. r.at >= m.at
        <5>1. Fits(f.rows, messages, copies, news)
          BY DEF Ledger
        <5>2. m.at <= r.at
          BY <3>2, <4>1, <4>2, <5>1 DEF Fits
        <5>3. m.at \in Nat /\ r.at \in Nat
          BY <4>1, <4>2 DEF Rows, Epochs
        <5>4. QED
          BY <5>2, <5>3
      <4>4. FromMe(r) /\ ~IsLocal(r) /\ SameText(r, m)
        BY <3>2 DEF IsCopyOf, FromMe, IsLocal, SameText
      <4>5. QED
        BY <4>1, <4>3, <4>4 DEF HasEcho
    <3>3. kept \in SUBSET LocalRows(messages)
      OBVIOUS
    <3> HIDE DEF kept
    <3>4. QED
      BY <3>1, <3>2, <3>3, RowsBeside DEF Placeholders
  <2>2. CASE UNCHANGED messages
    BY <2>2, FewerRows
  <2>3. QED
    BY <1>2, <2>1, <2>2 DEF RefreshResult
<1>3. CASE (\E f \in fetches : LoadError(f)) \/ Settled
  BY <1>3, FewerRows DEF LoadError, Settled, SendError, ReactError, viewVars
<1>4. QED
  BY <1>1, <1>2, <1>3 DEF Loaded, Polled

(* With distinct texts an arriving copy claims its own placeholder. *)
LEMMA ClaimIsOwn ==
    ASSUME DistinctSends, TypeOK, Single, NEW r \in Rows, ~IsLocal(r)
    PROVE  /\ \A m \in Claimed(r) : m \in messages /\ IsCopyOf(r, m)
           /\ \A m \in messages : IsCopyOf(r, m) => m \in Claimed(r)
<1>1. \A m \in LocalRows(messages) : m \in messages /\ IsLocal(m) /\ m.id.n \in Sends
  BY LocalIdType DEF LocalRows, TypeOK
<1>2. \A o \in LocalRows(messages) : FromMe(r) /\ SameText(o, r) => IsCopyOf(r, o)
  <2>1. FromMe(r) => r.id.kind = "copy" /\ r.id.n \in Sends
    BY DEF FromMe, IsLocal, Rows, Ids
  <2>2. QED
    BY <1>1, <2>1 DEF SameText, DistinctSends, IsCopyOf
<1>3. \A m \in Claimed(r) : m \in messages /\ IsCopyOf(r, m)
  BY <1>1, <1>2 DEF Claimed
<1>4. ASSUME NEW m \in messages, IsCopyOf(r, m) PROVE m \in Claimed(r)
  <2>1. /\ m \in LocalRows(messages) /\ FromMe(r) /\ SameText(m, r)
        /\ r.id.n = m.id.n /\ m.id.n \in Nat
    BY <1>1, <1>4 DEF IsCopyOf, LocalRows, FromMe, SameText, Sends
  <2>2. \A o \in LocalRows(messages) : FromMe(r) /\ SameText(o, r) => m.id.n <= o.id.n
    BY <1>2, <2>1 DEF IsCopyOf
  <2>3. QED
    BY <2>1, <2>2 DEF Claimed
<1>5. QED
  BY <1>3, <1>4

LEMMA OnceEvent ==
    ASSUME DistinctSends, TypeOK, Sources, Placeholders, NoDoubleRender, ApplyEvent
    PROVE  NoDoubleRender'
<1>1. CASE ApplyConnected \/ ApplyReaction \/ ApplyDeleted
  BY <1>1, FewerRows DEF ApplyConnected, ApplyReaction, ApplyDeleted, viewVars
<1>2. CASE ApplyUpsert
  <2>1. CASE UNCHANGED messages
    BY <2>1, FewerRows
  <2>2. ASSUME NEW r \in Head(stream).rows, Upsert(r) PROVE NoDoubleRender'
    <3>1. ~IsLocal(r) /\ r \in Rows
      BY <1>2, <2>2, HeadFrom, NextEventType DEF ApplyUpsert, NextEvent, From, EventTypes
    <3>2. /\ \A m \in Claimed(r) : m \in messages /\ IsCopyOf(r, m)
          /\ \A m \in messages : IsCopyOf(r, m) => m \in Claimed(r)
      BY <3>1, ClaimIsOwn DEF Placeholders
    <3>3. PICK kept : /\ messages' = kept \cup {r} /\ kept \subseteq messages
                      /\ \A m \in kept : m.id # r.id /\ ~IsCopyOf(r, m)
      <4>1. CASE Claimed(r) # {}
        <5>1. messages' = (messages \ Claimed(r)) \cup {r}
          BY <2>2, <4>1 DEF Upsert
        <5>2. PICK m \in messages : IsCopyOf(r, m)
          BY <3>2, <4>1
        <5>3. \A o \in messages : o.id # r.id
          BY <5>2 DEF NoDoubleRender, OneRowPerMessage, IsCopyOf, IsLocal
        <5>4. \A o \in messages \ Claimed(r) : o.id # r.id /\ ~IsCopyOf(r, o)
          BY <3>2, <5>3
        <5>5. QED
          BY <5>1, <5>4
      <4>2. CASE Claimed(r) = {}
        BY <2>2, <3>2, <4>2 DEF Upsert
      <4>3. QED
        BY <4>1, <4>2
    <3>4. ~IsCopyOf(r, r) /\ \A m \in kept : ~IsCopyOf(m, r)
      BY <3>1 DEF IsCopyOf
    <3>5. OneRowPerMessage'
      BY <3>3 DEF NoDoubleRender, OneRowPerMessage
    <3>6. QED
      BY <3>3, <3>4, <3>5 DEF NoDoubleRender
  <2>3. QED
    BY <1>2, <2>1, <2>2 DEF ApplyUpsert
<1>3. QED
  BY <1>1, <1>2 DEF ApplyEvent

(* With distinct texts, no message is on screen twice: however late its copy
   comes, by the stream, a poll or a load, it takes its placeholder's place. *)
THEOREM ConversationRendersOnce ==
    ASSUME DistinctSends
    PROVE  Spec => []NoDoubleRender
<1>1. Init => Ledger /\ NoDoubleRender
  BY DEF Init, Ledger, Fits, Unique, NoDoubleRender, OneRowPerMessage
<1>2. ASSUME IInv, IInv', Ledger, NoDoubleRender, [Next]_vars PROVE Ledger' /\ NoDoubleRender'
  <2>1. TypeOK /\ TypeOK' /\ Sources /\ Placeholders
    BY <1>2 DEF IInv
  <2>2. Ledger'
    BY <1>2, <2>1, LedgerStep
  <2>3. ASSUME UNCHANGED vars PROVE NoDoubleRender'
    BY <1>2, <2>3, FewerRows DEF vars, viewVars
  <2>4. ASSUME Server PROVE NoDoubleRender'
    BY <1>2, <2>4, FewerRows
       DEF Server, Answered, Answer, SendHandled, SendAccepted, SendRejected, FetchFails,
           Dispatch, OthersAct, ReactHandled, Drop, Connect, Listen, Tick, viewVars
  <2>5. ASSUME User \/ PollTick \/ Loaded \/ Polled \/ Settled \/ ApplyEvent
        PROVE  NoDoubleRender'
    BY <1>2, <2>1, <2>5, OnceUser, OnceResult, OnceEvent
  <2>6. QED
    BY <1>2, <2>2, <2>3, <2>4, <2>5 DEF Next
<1>3. QED
  BY <1>1, <1>2, Invariance, PTL DEF Spec
=============================================================================
