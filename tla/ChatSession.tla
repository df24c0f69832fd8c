---------------------------- MODULE ChatSession ----------------------------
(***************************************************************************)
(* The assistant tab of internal/ui/chat.go: one question at a time, the   *)
(* agent goroutine that answers it (runChatSession), the bounded channel   *)
(* it reports on, the commands that carry the channel's events to Update   *)
(* one by one, cancellation, and the check of the model server that has to *)
(* come first.                                                             *)
(*                                                                         *)
(* Questions are numbered; so are the goroutine and the channel of each,   *)
(* and the chain of commands that starts with it.  A command reads one     *)
(* event and delivers it at some later moment; Update then re-arms it on   *)
(* the channel of whatever response is current.  The transcript is its     *)
(* last turn, the only one an event can touch.  Reasoning deltas, which    *)
(* are only counted, are left out.                                         *)
(***************************************************************************)
EXTENDS Naturals, Sequences

CONSTANTS
    Tools,         \* names of tools
    Cap,           \* capacity of an events channel
    MaxRounds,     \* maxChatSteps
    MaxQuestions,  \* bound: questions asked
    MaxTokens,     \* bound: tokens of a reply
    MaxCalls       \* bound: tool calls of a reply

ASSUME ChatAssumption ==
    /\ Tools # {}
    /\ Cap \in Nat \ {0} /\ MaxRounds \in Nat \ {0}
    /\ MaxQuestions \in Nat /\ MaxTokens \in Nat /\ MaxCalls \in Nat

VARIABLES
    \* the Model
    mode,       \* m.mode, as far as the tab is concerned
    session,    \* m.chatSession: the question being answered, 0 for nil
    turn,       \* the last of m.chatTurns
    detecting,  \* m.chatDetecting
    checked,    \* m.chatChecked
    chatErr,    \* m.chatErr is set
    hasModel,   \* the client's model is known
    asked,      \* questions asked so far
    \* each response's goroutine, channel and context
    pc, round, spoken, calls, tool,
    chan, closed, cancelled,
    \* the commands that read the channels
    listener

uiVars == <<mode, detecting, checked, chatErr, hasModel>>
turnVars == <<session, turn, asked>>
goVars == <<pc, round, spoken, calls, tool>>
chanVars == <<chan, closed>>
vars == <<uiVars, turnVars, goVars, chanVars, cancelled, listener>>

Questions == 1..MaxQuestions

Token(q, n) == [kind |-> "token", of |-> q, n |-> n]
ToolStart(q, t) == [kind |-> "toolStart", of |-> q, tool |-> t]
ToolEnd(q, t) == [kind |-> "toolEnd", of |-> q, tool |-> t]
Done(q) == [kind |-> "done", of |-> q]
Err(q) == [kind |-> "err", of |-> q]

Events ==
    [kind : {"token"}, of : Questions, n : Nat \ {0}]
        \cup [kind : {"toolStart", "toolEnd"}, of : Questions, tool : Tools]
        \cup [kind : {"done", "err"}, of : Questions]

Steps == [of : Questions, tool : Tools, running : BOOLEAN]
NoTurn == [owner |-> 0, text |-> <<>>, steps |-> <<>>, streaming |-> FALSE, err |-> FALSE]
NewTurn(q) == [NoTurn EXCEPT !.owner = q, !.streaming = TRUE]
Turns == [owner : 0..MaxQuestions, text : Seq([of : Questions, n : Nat \ {0}]),
          steps : Seq(Steps), streaming : BOOLEAN, err : BOOLEAN]

Off == [phase |-> "off"]
Reading(q) == [phase |-> "reading", on |-> q]
Got(q, e) == [phase |-> "got", on |-> q, ev |-> e]
Listeners ==
    {Off} \cup [phase : {"reading"}, on : Questions]
        \cup [phase : {"got"}, on : Questions, ev : Events]

Points == {"idle", "streaming", "answered", "failing", "calling", "tool", "toolEnd",
           "closing", "done"}

TypeOK ==
    /\ mode \in {"away", "chat", "insert"}
    /\ session \in 0..asked /\ asked \in 0..MaxQuestions
    /\ turn \in Turns
    /\ turn.streaming <=> session # 0
    /\ session # 0 => turn.owner = session
    /\ detecting \in BOOLEAN /\ checked \in BOOLEAN
    /\ chatErr \in BOOLEAN /\ hasModel \in BOOLEAN
    /\ pc \in [Questions -> Points]
    /\ round \in [Questions -> 1..MaxRounds]
    /\ spoken \in [Questions -> Nat]
    /\ calls \in [Questions -> 0..MaxCalls]
    /\ tool \in [Questions -> Tools]
    /\ chan \in [Questions -> Seq(Events)]
    /\ closed \in [Questions -> BOOLEAN]
    /\ cancelled \in [Questions -> BOOLEAN]
    /\ listener \in [Questions -> Listeners]
    /\ \A q \in Questions : Len(chan[q]) <= Cap

Init ==
    /\ mode = "away" /\ session = 0 /\ turn = NoTurn /\ asked = 0
    /\ detecting = FALSE /\ checked = FALSE /\ chatErr = FALSE
    /\ hasModel \in BOOLEAN
    /\ pc = [q \in Questions |-> "idle"] /\ round = [q \in Questions |-> 1]
    /\ spoken = [q \in Questions |-> 0] /\ calls = [q \in Questions |-> 0]
    /\ tool = [q \in Questions |-> CHOOSE t \in Tools : TRUE]
    /\ chan = [q \in Questions |-> <<>>]
    /\ closed = [q \in Questions |-> FALSE]
    /\ cancelled = [q \in Questions |-> FALSE]
    /\ listener = [q \in Questions |-> Off]

-----------------------------------------------------------------------------
(* The user and the check of the model server. *)

(* Tab to the assistant: the server is checked on the first visit. *)
EnterTab ==
    /\ mode = "away"
    /\ mode' = "chat"
    /\ detecting' = (detecting \/ ~checked)
    /\ UNCHANGED <<checked, chatErr, hasModel, turnVars, goVars, chanVars, cancelled,
                   listener>>

LeaveTab ==
    /\ mode = "chat"
    /\ mode' = "away"
    /\ UNCHANGED <<detecting, checked, chatErr, hasModel, turnVars, goVars, chanVars,
                   cancelled, listener>>

(* DetectModel's answer: a client with no model takes the server's first,
   and fails where the server has none to offer. *)
Detected ==
    /\ detecting
    /\ detecting' = FALSE
    /\ checked' = TRUE
    /\ \/ chatErr' = TRUE /\ UNCHANGED hasModel
       \/ chatErr' = FALSE /\ hasModel' = TRUE
    /\ UNCHANGED <<mode, turnVars, goVars, chanVars, cancelled, listener>>

(* enter, i or r after a failure. *)
RetryEndpoint ==
    /\ mode = "chat" /\ chatErr
    /\ ~detecting /\ session = 0
    /\ chatErr' = FALSE /\ checked' = FALSE /\ detecting' = TRUE
    /\ UNCHANGED <<mode, hasModel, turnVars, goVars, chanVars, cancelled, listener>>

(* enter or i: start typing, even while a response streams. *)
Insert ==
    /\ mode = "chat" /\ ~chatErr
    /\ ~detecting /\ checked
    /\ mode' = "insert"
    /\ UNCHANGED <<detecting, checked, chatErr, hasModel, turnVars, goVars, chanVars,
                   cancelled, listener>>

EscInsert ==
    /\ mode = "insert"
    /\ mode' = "chat"
    /\ UNCHANGED <<detecting, checked, chatErr, hasModel, turnVars, goVars, chanVars,
                   cancelled, listener>>

(* Fault: a question is taken while another is being answered. *)
SubmitWhileAnswering ==
    /\ mode = "insert" /\ asked < MaxQuestions
    /\ LET q == asked + 1 IN
         /\ asked' = q /\ session' = q /\ turn' = NewTurn(q)
         /\ pc' = [pc EXCEPT ![q] = "streaming"]
         /\ listener' = [listener EXCEPT ![q] = Reading(q)]
    /\ chatErr' = FALSE
    /\ mode' = "chat"
    /\ UNCHANGED <<detecting, checked, hasModel, round, spoken, calls, tool, chanVars,
                   cancelled>>

(* submitChatInput: a turn for the answer, a goroutine with a context and a
   channel of its own, a command that reads it. *)
Submit ==
    /\ mode = "insert" /\ asked < MaxQuestions
    /\ session = 0
    /\ LET q == asked + 1 IN
         /\ asked' = q /\ session' = q /\ turn' = NewTurn(q)
         /\ pc' = [pc EXCEPT ![q] = "streaming"]
         /\ listener' = [listener EXCEPT ![q] = Reading(q)]
    /\ chatErr' = FALSE
    /\ mode' = "chat"
    /\ UNCHANGED <<detecting, checked, hasModel, round, spoken, calls, tool, chanVars,
                   cancelled>>

(* esc: cancelChatSession, which keeps the partial text. *)
Cancel ==
    /\ mode = "chat" /\ session # 0
    /\ cancelled' = [cancelled EXCEPT ![session] = TRUE]
    /\ session' = 0
    /\ turn' = [turn EXCEPT
                  !.streaming = FALSE,
                  !.err = @ \/ turn.text = <<>>,
                  !.steps = [i \in DOMAIN @ |-> [@[i] EXCEPT !.running = FALSE]]]
    /\ UNCHANGED <<uiVars, asked, goVars, chanVars, listener>>

(* Fault: the transcript is cleared under a response in progress. *)
ClearWhileAnswering ==
    /\ mode = "chat"
    /\ turn' = NoTurn
    /\ UNCHANGED <<uiVars, session, asked, goVars, chanVars, cancelled, listener>>

(* c: clear the transcript. *)
ClearTurns ==
    /\ mode = "chat" /\ session = 0
    /\ turn' = NoTurn
    /\ UNCHANGED <<uiVars, session, asked, goVars, chanVars, cancelled, listener>>

-----------------------------------------------------------------------------
(* The goroutine of question q: runChatSession. *)

(* Fault: emit with a default case, which drops the event when the channel
   is full. *)
EmitDropsWhenFull(q, e) ==
    chan' = IF Len(chan[q]) < Cap THEN [chan EXCEPT ![q] = Append(@, e)] ELSE chan

(* Fault: emit as a plain send, deaf to the context. *)
EmitDeafToCancel(q, e) ==
    /\ Len(chan[q]) < Cap
    /\ chan' = [chan EXCEPT ![q] = Append(@, e)]

(* emit: a send that waits for room, raced against the cancelled context. *)
Emit(q, e) ==
    \/ /\ Len(chan[q]) < Cap
       /\ chan' = [chan EXCEPT ![q] = Append(@, e)]
    \/ /\ cancelled[q]
       /\ UNCHANGED chan

Goto(q, point) == pc' = [pc EXCEPT ![q] = point]

(* The model's next piece of text (OnDelta). *)
Speak(q) ==
    /\ pc[q] = "streaming"
    /\ spoken[q] < round[q] * MaxTokens
    /\ spoken' = [spoken EXCEPT ![q] = @ + 1]
    /\ Emit(q, Token(q, spoken[q] + 1))
    /\ UNCHANGED <<uiVars, turnVars, pc, round, calls, tool, closed, cancelled, listener>>

(* The reply is complete: an answer, or calls of tools. *)
ReplyEnds(q) ==
    /\ pc[q] = "streaming"
    /\ \/ Goto(q, "answered") /\ UNCHANGED calls
       \/ /\ Goto(q, "calling")
          /\ \E k \in 1..MaxCalls : calls' = [calls EXCEPT ![q] = k]
    /\ UNCHANGED <<uiVars, turnVars, round, spoken, tool, chanVars, cancelled, listener>>

(* Stream fails; a cancelled context is why, or hides why. *)
StreamFails(q) ==
    /\ pc[q] = "streaming"
    /\ Goto(q, IF cancelled[q] THEN "closing" ELSE "failing")
    /\ UNCHANGED <<uiVars, turnVars, round, spoken, calls, tool, chanVars, cancelled,
                   listener>>

EmitDone(q) ==
    /\ pc[q] = "answered"
    /\ Emit(q, Done(q))
    /\ Goto(q, "closing")
    /\ UNCHANGED <<uiVars, turnVars, round, spoken, calls, tool, closed, cancelled, listener>>

EmitErr(q) ==
    /\ pc[q] = "failing"
    /\ Emit(q, Err(q))
    /\ Goto(q, "closing")
    /\ UNCHANGED <<uiVars, turnVars, round, spoken, calls, tool, closed, cancelled, listener>>

CallTool(q) ==
    /\ pc[q] = "calling"
    /\ \E t \in Tools :
         /\ tool' = [tool EXCEPT ![q] = t]
         /\ Emit(q, ToolStart(q, t))
    /\ Goto(q, "tool")
    /\ UNCHANGED <<uiVars, turnVars, round, spoken, calls, closed, cancelled, listener>>

(* execChatTool returns, with a result or with the text of an error, and
   the context is looked at. *)
ToolReturns(q) ==
    /\ pc[q] = "tool"
    /\ Goto(q, IF cancelled[q] THEN "closing" ELSE "toolEnd")
    /\ UNCHANGED <<uiVars, turnVars, round, spoken, calls, tool, chanVars, cancelled,
                   listener>>

(* After the last call of a reply: the next round, or "stopped after". *)
NextRound(q) ==
    \/ /\ round[q] < MaxRounds
       /\ round' = [round EXCEPT ![q] = @ + 1]
       /\ Goto(q, "streaming")
    \/ /\ round[q] = MaxRounds
       /\ UNCHANGED round
       /\ Goto(q, "failing")

EmitToolEnd(q) ==
    /\ pc[q] = "toolEnd"
    /\ Emit(q, ToolEnd(q, tool[q]))
    /\ calls' = [calls EXCEPT ![q] = @ - 1]
    /\ \/ calls[q] > 1 /\ Goto(q, "calling") /\ UNCHANGED round
       \/ calls[q] = 1 /\ NextRound(q)
    /\ UNCHANGED <<uiVars, turnVars, spoken, tool, closed, cancelled, listener>>

(* The deferred close(events); the loop's variables end with the goroutine. *)
CloseChannel(q) ==
    /\ pc[q] = "closing"
    /\ closed' = [closed EXCEPT ![q] = TRUE]
    /\ round' = [round EXCEPT ![q] = 1]
    /\ calls' = [calls EXCEPT ![q] = 0]
    /\ Goto(q, "done")
    /\ UNCHANGED <<uiVars, turnVars, spoken, tool, chan, cancelled, listener>>

Answer(q) ==
    \/ Speak(q) \/ ReplyEnds(q) \/ StreamFails(q) \/ EmitDone(q) \/ EmitErr(q)
    \/ CallTool(q) \/ ToolReturns(q) \/ EmitToolEnd(q) \/ CloseChannel(q)

-----------------------------------------------------------------------------
(* The commands that carry events to Update; l names a chain of them by the
   question that started it. *)

(* The command's receive; a closed channel reads as an answer's end. *)
Read(l) ==
    /\ listener[l].phase = "reading"
    /\ LET q == listener[l].on IN
         \/ /\ chan[q] # <<>>
            /\ chan' = [chan EXCEPT ![q] = Tail(@)]
            /\ listener' = [listener EXCEPT ![l] = Got(q, Head(chan[q]))]
         \/ /\ chan[q] = <<>> /\ closed[q]
            /\ UNCHANGED chan
            /\ listener' = [listener EXCEPT ![l] = Got(q, Done(q))]
    /\ UNCHANGED <<uiVars, turnVars, goVars, closed, cancelled>>

(* The newest running step of that name, if any, is completed. *)
CompleteStep(steps, e) ==
    LET running == {i \in DOMAIN steps : steps[i].running /\ steps[i].tool = e.tool}
        newest == {i \in running : \A j \in running : j <= i}
    IN  [i \in DOMAIN steps |->
            IF i \in newest THEN [of |-> e.of, tool |-> e.tool, running |-> FALSE]
            ELSE steps[i]]

(* What an event does to the turn it is folded into. *)
Fold(t, e) ==
    CASE e.kind = "token" -> [t EXCEPT !.text = Append(@, [of |-> e.of, n |-> e.n])]
      [] e.kind = "toolStart" ->
            [t EXCEPT !.steps = Append(@, [of |-> e.of, tool |-> e.tool, running |-> TRUE])]
      [] e.kind = "toolEnd" -> [t EXCEPT !.steps = CompleteStep(@, e)]
      [] e.kind = "done" -> [t EXCEPT !.streaming = FALSE]
      [] e.kind = "err" -> [t EXCEPT !.streaming = FALSE, !.err = TRUE]

(* Fault: the end of a tool call is taken for the end of the chain. *)
RearmExceptToolEnd(l, e) ==
    listener' = [listener EXCEPT ![l] =
                    IF e.kind \in {"done", "err", "toolEnd"} THEN Off ELSE Reading(session)]

(* waitForChatEvent, on the current response's channel, unless the event
   ended that response. *)
Rearm(l, e) ==
    listener' = [listener EXCEPT ![l] =
                    IF e.kind \in {"done", "err"} THEN Off ELSE Reading(session)]

(* Fault: an event is folded into the last turn even when nothing is being
   answered. *)
ApplyLate(l) ==
    LET e == listener[l].ev IN
    /\ listener[l].phase = "got"
    /\ turn # NoTurn
    /\ turn' = Fold(turn, e)
    /\ listener' = [listener EXCEPT ![l] =
                       IF session = 0 \/ e.kind \in {"done", "err"} THEN Off
                       ELSE Reading(session)]
    /\ session' = IF e.kind \in {"done", "err"} THEN 0 ELSE session
    /\ chatErr' = (e.kind = "err")
    /\ UNCHANGED <<mode, detecting, checked, hasModel, asked, goVars, chanVars, cancelled>>

(* applyChatEvent. *)
ApplyChatEvent(l) ==
    /\ listener[l].phase = "got"
    /\ LET e == listener[l].ev IN
         \/ /\ session = 0 \/ turn = NoTurn
            /\ listener' = [listener EXCEPT ![l] = Off]
            /\ UNCHANGED <<session, turn, chatErr>>
         \/ /\ session # 0 /\ turn # NoTurn
            /\ turn' = Fold(turn, e)
            /\ session' = IF e.kind \in {"done", "err"} THEN 0 ELSE session
            /\ chatErr' = IF e.kind = "toolEnd" THEN chatErr ELSE e.kind = "err"
            /\ Rearm(l, e)
    /\ UNCHANGED <<mode, detecting, checked, hasModel, asked, goVars, chanVars, cancelled>>

-----------------------------------------------------------------------------

User ==
    \/ EnterTab \/ LeaveTab \/ RetryEndpoint \/ Insert \/ EscInsert \/ Submit
    \/ Cancel \/ ClearTurns

Next ==
    \/ User \/ Detected
    \/ \E q \in Questions : Answer(q)
    \/ \E l \in Questions : Read(l) \/ ApplyChatEvent(l)

Spec == Init /\ [][Next]_vars

(* Goroutines and commands keep taking the steps they can take: the model
   server ends its replies, tools return.  Nothing makes the user act. *)
Fairness ==
    \A q \in Questions :
        WF_vars(Answer(q)) /\ WF_vars(Read(q)) /\ WF_vars(ApplyChatEvent(q))

FairSpec == Spec /\ Fairness

-----------------------------------------------------------------------------
(* Properties. *)

(* A response in progress has a command on its channel, or one about to be
   re-armed there: the chain that its question started
   (chat.go:247-259, 305).  Nothing would ever end a response without one. *)
SomeoneListens ==
    session # 0 => listener[session].phase # "off" /\ listener[session].on = session

(* The model is fixed before any goroutine runs, and the server is never
   checked while a question can be asked or is being answered
   (chat.go:129-137, 395-415): DetectModel writes the client's model, with
   no lock, and Stream reads it. *)
ModelSettled ==
    /\ detecting => session = 0 /\ mode # "insert"
    /\ \A q \in Questions : pc[q] # "idle" => hasModel

NothingCancelled == \A q \in Questions : ~cancelled[q]

(* Until a response is cancelled, every answer is exactly what its own
   goroutine said: its tokens from the first on, in order, none lost or
   foreign, all of them once it has ended; and it ends with no tool still
   shown as running (chat.go:189-228, 262-306). *)
AnswerInOrder ==
    NothingCancelled /\ turn.owner # 0 =>
        LET q == turn.owner IN
        /\ Len(turn.text) <= spoken[q]
        /\ \A i \in DOMAIN turn.text : turn.text[i] = [of |-> q, n |-> i]
        /\ ~turn.streaming =>
              /\ Len(turn.text) = spoken[q]
              /\ \A i \in DOMAIN turn.steps : ~turn.steps[i].running

(* Until a response is cancelled, at most one goroutine answers: the others
   have nothing left to do but close their channel (chat.go:141-164). *)
OneAnswerAtATime ==
    NothingCancelled =>
        \A q \in Questions : pc[q] \notin {"idle", "closing", "done"} => q = session

(* What is still in flight from a response that is over, cancelled or not,
   changes nothing on screen until the next question: "keeping partial text"
   (chat.go:262-266, 308-326). *)
LateEventsIgnored ==
    [][session = 0 /\ asked' = asked => turn' \in {turn, NoTurn}]_<<session, asked, turn>>

(* A cancelled goroutine ends, even one blocked on a full channel that
   nobody reads any more (chat.go:191-196, 218-220). *)
CancelledEnds == \A q \in Questions : cancelled[q] ~> pc[q] = "done"

(* A response always ends, by an answer, an error or the bound on tool
   rounds, whatever arrives in between (chat.go:189-228, 262-306). *)
ResponseEnds == \A q \in Questions : session = q ~> session # q
=============================================================================
