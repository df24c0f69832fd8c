-------------------------- MODULE AssistantProofs --------------------------
(***************************************************************************)
(* The assistant's session is well-typed, always has a reader, never runs  *)
(* before the model is known, never has two goroutines at work before one  *)
(* is cancelled, ignores what arrives after its end and shows what its     *)
(* goroutine said in the order it said it: for any number of questions,    *)
(* rounds, tools and tokens and any capacity of the channels.              *)
(*                                                                         *)
(* For any people and any replies, names leave the vault as tokens and the *)
(* names shown for tokens lead back to them; a reply loses nothing on its  *)
(* way to the screen, nobody is named in it who is not meant, and what is  *)
(* shown is what the whole reply says, however it is cut and whatever the  *)
(* vault learns meanwhile.                                                 *)
(***************************************************************************)
EXTENDS ChatSession, TokenStream, SequenceTheorems, WellFoundedInduction, TLAPS

LEMMA ConstantTypes ==
    /\ Tools # {} /\ Cap \in Nat /\ Cap > 0 /\ MaxRounds \in Nat /\ MaxRounds > 0
    /\ MaxQuestions \in Nat /\ MaxTokens \in Nat /\ MaxCalls \in Nat
  BY ChatAssumption

LEMMA EventTypes ==
    /\ \A q \in Questions, n \in Nat : n > 0 => Token(q, n) \in Events
    /\ \A q \in Questions, t \in Tools : ToolStart(q, t) \in Events /\ ToolEnd(q, t) \in Events
    /\ \A q \in Questions : Done(q) \in Events /\ Err(q) \in Events
  BY DEF Events, Token, ToolStart, ToolEnd, Done, Err

LEMMA EventFields ==
    ASSUME NEW e \in Events
    PROVE  /\ e.of \in Questions
           /\ e.kind \in {"token", "toolStart", "toolEnd", "done", "err"}
           /\ e.kind = "token" => e.n \in Nat \ {0}
           /\ e.kind \in {"toolStart", "toolEnd"} => e.tool \in Tools
  BY DEF Events

LEMMA ListenerTypes ==
    /\ Off \in Listeners
    /\ \A q \in Questions : Reading(q) \in Listeners
    /\ \A q \in Questions, e \in Events : Got(q, e) \in Listeners
    /\ \A k \in Listeners :
          /\ k.phase \in {"off", "reading", "got"}
          /\ k.phase # "off" => k.on \in Questions
          /\ k.phase = "got" => k.ev \in Events
  BY DEF Listeners, Off, Reading, Got

LEMMA TurnTypes ==
    /\ NoTurn \in Turns /\ NoTurn.streaming = FALSE /\ NoTurn.owner = 0
    /\ \A q \in Questions :
           NewTurn(q) \in Turns /\ NewTurn(q).streaming = TRUE /\ NewTurn(q).owner = q
<1>1. <<>> \in Seq([of : Questions, n : Nat \ {0}]) /\ <<>> \in Seq(Steps)
  OBVIOUS
<1>2. 0 \in 0..MaxQuestions /\ \A q \in Questions : q \in 0..MaxQuestions
  BY ConstantTypes DEF Questions
<1>3. NoTurn \in Turns
  BY <1>1, <1>2 DEF NoTurn, Turns
<1>4. \A q \in Questions : NewTurn(q) \in Turns
  BY <1>2, <1>3 DEF NewTurn, Turns
<1>5. NoTurn.streaming = FALSE /\ NoTurn.owner = 0
  BY DEF NoTurn
<1>6. \A q \in Questions : NewTurn(q).streaming = TRUE /\ NewTurn(q).owner = q
  BY DEF NewTurn, NoTurn
<1>7. QED
  BY <1>3, <1>4, <1>5, <1>6

LEMMA StepsType ==
    ASSUME NEW steps \in Seq(Steps), NEW e \in Events, e.kind = "toolEnd"
    PROVE  CompleteStep(steps, e) \in Seq(Steps)
<1>1. [of |-> e.of, tool |-> e.tool, running |-> FALSE] \in Steps
  BY EventFields DEF Steps
<1>2. \A i \in 1..Len(steps) : steps[i] \in Steps
  OBVIOUS
<1>3. DOMAIN steps = 1..Len(steps) /\ Len(steps) \in Nat
  OBVIOUS
<1>4. CompleteStep(steps, e) \in [1..Len(steps) -> Steps]
  BY <1>1, <1>2, <1>3 DEF CompleteStep
<1>5. QED
  BY <1>3, <1>4

(* Folding an event keeps a turn a turn, and stops it exactly when the event
   ends the response. *)
LEMMA FoldType ==
    ASSUME NEW t \in Turns, NEW e \in Events
    PROVE  /\ Fold(t, e) \in Turns
           /\ Fold(t, e).owner = t.owner
           /\ Fold(t, e).streaming = (t.streaming /\ e.kind \notin {"done", "err"})
<1> USE DEF Turns
<1>1. CASE e.kind = "token"
  <2>1. [of |-> e.of, n |-> e.n] \in [of : Questions, n : Nat \ {0}]
    BY <1>1, EventFields
  <2>2. Append(t.text, [of |-> e.of, n |-> e.n]) \in Seq([of : Questions, n : Nat \ {0}])
    BY <2>1
  <2>3. Fold(t, e) = [t EXCEPT !.text = Append(@, [of |-> e.of, n |-> e.n])]
    BY <1>1 DEF Fold
  <2>4. QED
    BY <1>1, <2>2, <2>3
<1>2. CASE e.kind = "toolStart"
  <2>1. [of |-> e.of, tool |-> e.tool, running |-> TRUE] \in Steps
    BY <1>2, EventFields DEF Steps
  <2>2. Append(t.steps, [of |-> e.of, tool |-> e.tool, running |-> TRUE]) \in Seq(Steps)
    BY <2>1
  <2>3. Fold(t, e) = [t EXCEPT !.steps =
                         Append(@, [of |-> e.of, tool |-> e.tool, running |-> TRUE])]
    BY <1>2 DEF Fold
  <2>4. QED
    BY <1>2, <2>2, <2>3
<1>3. CASE e.kind = "toolEnd"
  <2>1. CompleteStep(t.steps, e) \in Seq(Steps)
    BY <1>3, StepsType
  <2>2. Fold(t, e) = [t EXCEPT !.steps = CompleteStep(@, e)]
    BY <1>3 DEF Fold
  <2>3. QED
    BY <1>3, <2>1, <2>2
<1>4. CASE e.kind = "done"
  <2>1. Fold(t, e) = [t EXCEPT !.streaming = FALSE]
    BY <1>4 DEF Fold
  <2>2. QED
    BY <1>4, <2>1
<1>5. CASE e.kind = "err"
  <2>1. Fold(t, e) = [t EXCEPT !.streaming = FALSE, !.err = TRUE]
    BY <1>5 DEF Fold
  <2>2. QED
    BY <1>5, <2>1
<1>6. QED
  BY <1>1, <1>2, <1>3, <1>4, <1>5, EventFields

(* An emit keeps the channels well-typed and within their capacity. *)
LEMMA EmitType ==
    ASSUME TypeOK, NEW q \in Questions, NEW e \in Events, Emit(q, e)
    PROVE  /\ chan' \in [Questions -> Seq(Events)]
           /\ \A p \in Questions : Len(chan'[p]) <= Cap
<1>1. chan \in [Questions -> Seq(Events)] /\ \A p \in Questions : Len(chan[p]) <= Cap
  BY DEF TypeOK
<1>2. CASE UNCHANGED chan
  BY <1>1, <1>2
<1>3. CASE Len(chan[q]) < Cap /\ chan' = [chan EXCEPT ![q] = Append(@, e)]
  <2>1. chan[q] \in Seq(Events) /\ Append(chan[q], e) \in Seq(Events)
    BY <1>1
  <2>2. Len(Append(chan[q], e)) = Len(chan[q]) + 1 /\ Len(chan[q]) \in Nat
    BY <2>1
  <2>3. QED
    BY <1>1, <1>3, <2>1, <2>2, ConstantTypes
<1>4. QED
  BY <1>2, <1>3 DEF Emit

-----------------------------------------------------------------------------
(* Types. *)

LEMMA TypeInit == Init => TypeOK
<1> SUFFICES ASSUME Init PROVE TypeOK
  OBVIOUS
<1>1. (CHOOSE t \in Tools : TRUE) \in Tools
  BY ConstantTypes
<1>2. <<>> \in Seq(Events) /\ Len(<<>>) = 0
  OBVIOUS
<1>3. turn \in Turns /\ ~turn.streaming
  BY TurnTypes DEF Init
<1>4. listener \in [Questions -> Listeners]
  BY ListenerTypes DEF Init
<1>5. chan \in [Questions -> Seq(Events)] /\ \A q \in Questions : Len(chan[q]) <= Cap
  BY <1>2, ConstantTypes DEF Init
<1>6. /\ pc \in [Questions -> Points] /\ round \in [Questions -> 1..MaxRounds]
      /\ spoken \in [Questions -> Nat] /\ calls \in [Questions -> 0..MaxCalls]
      /\ tool \in [Questions -> Tools]
      /\ closed \in [Questions -> BOOLEAN] /\ cancelled \in [Questions -> BOOLEAN]
  <2>1. 1 \in 1..MaxRounds /\ 0 \in 0..MaxCalls /\ 0 \in Nat
    BY ConstantTypes
  <2>2. tool \in [Questions -> Tools]
    BY <1>1 DEF Init
  <2>3. pc \in [Questions -> Points]
    BY DEF Init, Points
  <2>4. QED
    BY <2>1, <2>2, <2>3 DEF Init
<1>7. session \in 0..asked /\ asked \in 0..MaxQuestions /\ session = 0
  BY ConstantTypes DEF Init
<1>8. /\ mode \in {"away", "chat", "insert"}
      /\ detecting \in BOOLEAN /\ checked \in BOOLEAN
      /\ chatErr \in BOOLEAN /\ hasModel \in BOOLEAN
  BY DEF Init
<1>9. QED
  BY <1>3, <1>4, <1>5, <1>6, <1>7, <1>8 DEF TypeOK

LEMMA UserType == TypeOK /\ (User \/ Detected) => TypeOK'
<1> SUFFICES ASSUME TypeOK, User \/ Detected PROVE TypeOK'
  OBVIOUS
<1> USE DEF TypeOK
<1>1. CASE EnterTab \/ LeaveTab \/ RetryEndpoint \/ Insert \/ EscInsert \/ Detected
  BY <1>1 DEF EnterTab, LeaveTab, RetryEndpoint, Insert, EscInsert, Detected,
     turnVars, goVars, chanVars
<1>2. CASE Submit
  <2> DEFINE q == asked + 1
  <2>1. q \in Questions /\ q # 0 /\ q \in 0..q
    BY <1>2, ConstantTypes DEF Submit, Questions
  <2>2. NewTurn(q) \in Turns /\ NewTurn(q).streaming /\ NewTurn(q).owner = q
    BY <2>1, TurnTypes
  <2>3. Reading(q) \in Listeners
    BY <2>1, ListenerTypes
  <2>4. asked' = q /\ session' = q /\ turn' = NewTurn(q)
    BY <1>2 DEF Submit
  <2>5. pc' \in [Questions -> Points] /\ listener' \in [Questions -> Listeners]
    BY <1>2, <2>1, <2>3 DEF Submit, Points
  <2>6. /\ session' \in 0..asked' /\ asked' \in 0..MaxQuestions /\ session' # 0
        /\ turn' \in Turns /\ turn'.streaming /\ turn'.owner = session'
    BY <2>1, <2>2, <2>4 DEF Questions
  <2>7. QED
    BY <1>2, <2>5, <2>6 DEF Submit, chanVars
<1>3. CASE Cancel
  <2>1. session \in Questions
    BY <1>3, ConstantTypes DEF Cancel, Questions
  <2> DEFINE stopped == [i \in DOMAIN turn.steps |-> [turn.steps[i] EXCEPT !.running = FALSE]]
  <2>2. turn.steps \in Seq(Steps)
    BY DEF Turns
  <2>3. \A i \in 1..Len(turn.steps) : turn.steps[i] \in Steps
    BY <2>2
  <2>4. DOMAIN turn.steps = 1..Len(turn.steps) /\ Len(turn.steps) \in Nat
    BY <2>2
  <2>5. \A s \in Steps : [s EXCEPT !.running = FALSE] \in Steps
    BY DEF Steps
  <2>6. stopped \in [1..Len(turn.steps) -> Steps]
    BY <2>3, <2>4, <2>5
  <2>7. stopped \in Seq(Steps)
    BY <2>4, <2>6
  <2>8. turn' = [turn EXCEPT !.streaming = FALSE, !.err = @ \/ turn.text = <<>>,
                             !.steps = stopped]
    BY <1>3 DEF Cancel
  <2> HIDE DEF stopped
  <2>9. (turn.err \/ turn.text = <<>>) \in BOOLEAN
    OBVIOUS
  <2>10. turn' \in Turns /\ ~turn'.streaming
    BY <2>7, <2>8, <2>9 DEF Turns
  <2>11. cancelled' \in [Questions -> BOOLEAN]
    BY <1>3, <2>1 DEF Cancel
  <2>12. session' = 0
    BY <1>3 DEF Cancel
  <2>13. QED
    BY <1>3, <2>10, <2>11, <2>12 DEF Cancel, uiVars, goVars, chanVars
<1>4. CASE ClearTurns
  <2>1. turn' \in Turns /\ ~turn'.streaming
    BY <1>4, TurnTypes DEF ClearTurns
  <2>2. QED
    BY <1>4, <2>1 DEF ClearTurns, uiVars, goVars, chanVars
<1>5. QED
  BY <1>1, <1>2, <1>3, <1>4 DEF User

LEMMA GoTypes ==
    ASSUME TypeOK, NEW q \in Questions, NEW point \in Points, Goto(q, point)
    PROVE  pc' \in [Questions -> Points]
  BY DEF TypeOK, Goto

(* The steps of a goroutine that put nothing on its channel. *)
LEMMA QuietType ==
    ASSUME TypeOK, NEW q \in Questions,
           ReplyEnds(q) \/ StreamFails(q) \/ ToolReturns(q) \/ CloseChannel(q)
    PROVE  TypeOK'
<1> USE DEF TypeOK
<1>1. pc' \in [Questions -> Points]
  BY GoTypes DEF ReplyEnds, StreamFails, ToolReturns, CloseChannel, Points, Goto
<1>2. CASE ReplyEnds(q)
  <2>1. calls' \in [Questions -> 0..MaxCalls]
    <3>1. \A k \in 1..MaxCalls : k \in 0..MaxCalls
      BY ConstantTypes
    <3>2. QED
      BY <1>2, <3>1 DEF ReplyEnds
  <2>2. QED
    BY <1>1, <1>2, <2>1 DEF ReplyEnds, uiVars, turnVars, chanVars
<1>3. CASE StreamFails(q)
  BY <1>1, <1>3 DEF StreamFails, uiVars, turnVars, chanVars
<1>4. CASE ToolReturns(q)
  BY <1>1, <1>4 DEF ToolReturns, uiVars, turnVars, chanVars
<1>5. CASE CloseChannel(q)
  <2>1. /\ closed' \in [Questions -> BOOLEAN] /\ round' \in [Questions -> 1..MaxRounds]
        /\ calls' \in [Questions -> 0..MaxCalls]
    BY <1>5, ConstantTypes DEF CloseChannel
  <2>2. QED
    BY <1>1, <1>5, <2>1 DEF CloseChannel, uiVars, turnVars, chanVars
<1>6. QED
  BY <1>2, <1>3, <1>4, <1>5

(* Each step that emits puts an event of its own on the channel. *)
Emits(q) == Speak(q) \/ EmitDone(q) \/ EmitErr(q) \/ CallTool(q) \/ EmitToolEnd(q)

LEMMA EmitsEvent ==
    ASSUME TypeOK, NEW q \in Questions, Emits(q)
    PROVE  \E e \in Events :
              /\ Emit(q, e)
              /\ e.kind \in {"done", "err"} => pc'[q] = "closing"
<1> USE EventTypes DEF TypeOK
<1>1. CASE Speak(q)
  <2>1. spoken[q] \in Nat
    OBVIOUS
  <2>2. spoken[q] + 1 \in Nat /\ spoken[q] + 1 > 0
    BY <2>1
  <2>3. Token(q, spoken[q] + 1) \in Events
    BY <2>2
  <2>4. Token(q, spoken[q] + 1).kind = "token"
    BY DEF Token
  <2>5. QED
    BY <1>1, <2>3, <2>4 DEF Speak
<1>2. CASE EmitDone(q)
  BY <1>2 DEF EmitDone, Goto
<1>3. CASE EmitErr(q)
  BY <1>3 DEF EmitErr, Goto
<1>4. CASE CallTool(q)
  <2>1. PICK t \in Tools : Emit(q, ToolStart(q, t))
    BY <1>4 DEF CallTool
  <2>2. ToolStart(q, t).kind = "toolStart"
    BY DEF ToolStart
  <2>3. QED
    BY <2>1, <2>2
<1>5. CASE EmitToolEnd(q)
  <2>1. ToolEnd(q, tool[q]) \in Events /\ ToolEnd(q, tool[q]).kind = "toolEnd"
    BY DEF ToolEnd
  <2>2. QED
    BY <1>5, <2>1 DEF EmitToolEnd
<1>6. QED
  BY <1>1, <1>2, <1>3, <1>4, <1>5 DEF Emits

LEMMA EmitsType ==
    ASSUME TypeOK, NEW q \in Questions, Emits(q)
    PROVE  TypeOK'
<1> USE DEF TypeOK
<1>1. /\ chan' \in [Questions -> Seq(Events)]
      /\ \A p \in Questions : Len(chan'[p]) <= Cap
  BY EmitsEvent, EmitType
<1>2. pc' \in [Questions -> Points]
  <2>1. CASE Speak(q)
    BY <2>1 DEF Speak
  <2>2. CASE EmitDone(q) \/ EmitErr(q) \/ CallTool(q)
    BY <2>2 DEF EmitDone, EmitErr, CallTool, Goto, Points
  <2>3. CASE EmitToolEnd(q)
    BY <2>3 DEF EmitToolEnd, NextRound, Goto, Points
  <2>4. QED
    BY <2>1, <2>2, <2>3 DEF Emits
<1>3. CASE Speak(q)
  BY <1>1, <1>2, <1>3 DEF Speak, uiVars, turnVars
<1>4. CASE EmitDone(q)
  BY <1>1, <1>2, <1>4 DEF EmitDone, uiVars, turnVars
<1>5. CASE EmitErr(q)
  BY <1>1, <1>2, <1>5 DEF EmitErr, uiVars, turnVars
<1>6. CASE CallTool(q)
  <2>1. tool' \in [Questions -> Tools]
    BY <1>6 DEF CallTool
  <2>2. QED
    BY <1>1, <1>2, <1>6, <2>1 DEF CallTool, uiVars, turnVars
<1>7. CASE EmitToolEnd(q)
  <2>1. calls' \in [Questions -> 0..MaxCalls]
    BY <1>7, ConstantTypes DEF EmitToolEnd
  <2>2. round' \in [Questions -> 1..MaxRounds]
    <3>1. \A n \in 1..MaxRounds : n < MaxRounds => n + 1 \in 1..MaxRounds
      BY ConstantTypes
    <3>2. round[q] \in 1..MaxRounds
      OBVIOUS
    <3>3. \/ UNCHANGED round
          \/ round[q] < MaxRounds /\ round' = [round EXCEPT ![q] = @ + 1]
      BY <1>7 DEF EmitToolEnd, NextRound
    <3>4. QED
      BY <3>1, <3>2, <3>3
  <2>3. QED
    BY <1>1, <1>2, <1>7, <2>1, <2>2 DEF EmitToolEnd, uiVars, turnVars
<1>8. QED
  BY <1>3, <1>4, <1>5, <1>6, <1>7 DEF Emits

LEMMA ReadType ==
    ASSUME TypeOK, NEW l \in Questions, Read(l)
    PROVE  TypeOK'
<1> USE DEF TypeOK
<1> DEFINE q == listener[l].on
<1>1. q \in Questions
  BY ListenerTypes DEF Read
<1>2. chan[q] \in Seq(Events) /\ Len(chan[q]) <= Cap
  BY <1>1
<1>3. CASE chan[q] # <<>> /\ chan' = [chan EXCEPT ![q] = Tail(@)]
           /\ listener' = [listener EXCEPT ![l] = Got(q, Head(chan[q]))]
  <2>1. Head(chan[q]) \in Events /\ Tail(chan[q]) \in Seq(Events)
    BY <1>2, <1>3
  <2>2. Len(Tail(chan[q])) <= Cap
    BY <1>2, <1>3, ConstantTypes
  <2>3. Got(q, Head(chan[q])) \in Listeners
    BY <1>1, <2>1, ListenerTypes
  <2>4. /\ chan' \in [Questions -> Seq(Events)]
        /\ \A p \in Questions : Len(chan'[p]) <= Cap
    BY <1>1, <1>3, <2>1, <2>2
  <2>5. listener' \in [Questions -> Listeners]
    BY <1>3, <2>3
  <2>6. QED
    BY <2>4, <2>5 DEF Read, uiVars, turnVars, goVars
<1>4. CASE UNCHANGED chan /\ listener' = [listener EXCEPT ![l] = Got(q, Done(q))]
  <2>1. listener' \in [Questions -> Listeners]
    BY <1>1, <1>4, EventTypes, ListenerTypes
  <2>2. QED
    BY <1>4, <2>1 DEF Read, uiVars, turnVars, goVars
<1>5. QED
  BY <1>3, <1>4 DEF Read

LEMMA ApplyType ==
    ASSUME TypeOK, NEW l \in Questions, ApplyChatEvent(l)
    PROVE  TypeOK'
<1> USE DEF TypeOK
<1> DEFINE e == listener[l].ev
<1>1. e \in Events
  BY ListenerTypes DEF ApplyChatEvent
<1>2. CASE UNCHANGED <<session, turn, chatErr>> /\ listener' = [listener EXCEPT ![l] = Off]
  <2>1. listener' \in [Questions -> Listeners]
    BY <1>2, ListenerTypes
  <2>2. QED
    BY <1>2, <2>1 DEF ApplyChatEvent, goVars, chanVars
<1>3. CASE /\ session # 0 /\ turn # NoTurn
           /\ turn' = Fold(turn, e)
           /\ session' = IF e.kind \in {"done", "err"} THEN 0 ELSE session
           /\ chatErr' = IF e.kind = "toolEnd" THEN chatErr ELSE e.kind = "err"
           /\ Rearm(l, e)
  <2>1. session \in Questions
    BY <1>3, ConstantTypes DEF Questions
  <2>2. listener' \in [Questions -> Listeners]
    BY <1>3, <2>1, ListenerTypes DEF Rearm
  <2>3. /\ turn' \in Turns
        /\ turn'.owner = turn.owner
        /\ turn'.streaming = (turn.streaming /\ e.kind \notin {"done", "err"})
    BY <1>1, <1>3, FoldType
  <2>4. turn.streaming
    BY <1>3
  <2>5. CASE e.kind \in {"done", "err"}
    <3>1. session' = 0 /\ ~turn'.streaming
      BY <1>3, <2>3, <2>5
    <3>2. chatErr' \in BOOLEAN
      BY <1>3
    <3>3. QED
      BY <1>3, <2>2, <2>3, <3>1, <3>2, ConstantTypes DEF ApplyChatEvent, goVars, chanVars
  <2>6. CASE e.kind \notin {"done", "err"}
    <3>1. session' = session /\ turn'.streaming /\ turn'.owner = session'
      BY <1>3, <2>3, <2>4, <2>6
    <3>2. chatErr' \in BOOLEAN
      BY <1>3
    <3>3. QED
      BY <1>3, <2>2, <2>3, <3>1, <3>2 DEF ApplyChatEvent, goVars, chanVars
  <2>7. QED
    BY <2>5, <2>6
<1>4. QED
  BY <1>2, <1>3 DEF ApplyChatEvent

LEMMA TypeStep == TypeOK /\ [Next]_vars => TypeOK'
<1> SUFFICES ASSUME TypeOK, [Next]_vars PROVE TypeOK'
  OBVIOUS
<1>1. CASE User \/ Detected
  BY <1>1, UserType
<1>2. CASE \E q \in Questions : Answer(q)
  BY <1>2, QuietType, EmitsType DEF Answer, Emits
<1>3. CASE \E l \in Questions : Read(l) \/ ApplyChatEvent(l)
  BY <1>3, ReadType, ApplyType
<1>4. CASE UNCHANGED vars
  BY <1>4 DEF TypeOK, vars, uiVars, turnVars, goVars, chanVars
<1>5. QED
  BY <1>1, <1>2, <1>3, <1>4 DEF Next

(* Every variable of the session keeps its type, every channel its bound,
   and a turn streams exactly while its question is being answered. *)
THEOREM ChatTypeCorrect == Spec => []TypeOK
<1>1. QED
  BY TypeInit, TypeStep, PTL DEF Spec

-----------------------------------------------------------------------------
(* Someone listens. *)

LEMMA SessionRange == TypeOK /\ session # 0 => session \in Questions
  BY ConstantTypes DEF TypeOK, Questions

(* While something is being answered the last turn is its turn. *)
LEMMA TurnWhileAnswering == TypeOK /\ session # 0 => turn # NoTurn
  BY TurnTypes DEF TypeOK

LEMMA ListensStep == TypeOK /\ SomeoneListens /\ [Next]_vars => SomeoneListens'
<1> SUFFICES ASSUME TypeOK, SomeoneListens, [Next]_vars, session' # 0
             PROVE  listener'[session'].phase # "off" /\ listener'[session'].on = session'
  BY DEF SomeoneListens
<1>1. CASE UNCHANGED <<session, listener>>
  BY <1>1 DEF SomeoneListens
<1>2. CASE Submit
  <2>1. session' \in Questions /\ listener'[session'] = Reading(session')
    BY <1>2, ConstantTypes DEF Submit, TypeOK, Questions
  <2>2. QED
    BY <2>1 DEF Reading
<1>3. CASE Cancel
  BY <1>3 DEF Cancel
<1>4. ASSUME NEW l \in Questions, Read(l)
      PROVE  listener'[session'].phase # "off" /\ listener'[session'].on = session'
  <2>1. session' = session /\ session # 0 /\ session \in Questions
    BY <1>4, SessionRange DEF Read, turnVars
  <2>2. PICK e : listener' = [listener EXCEPT ![l] = Got(listener[l].on, e)]
    BY <1>4 DEF Read
  <2>3. CASE l = session
    <3>1. listener'[session] = Got(listener[session].on, e)
      BY <2>1, <2>2, <2>3 DEF TypeOK
    <3>2. QED
      BY <2>1, <3>1 DEF Got, SomeoneListens
  <2>4. CASE l # session
    <3>1. listener'[session] = listener[session]
      BY <2>1, <2>2, <2>4 DEF TypeOK
    <3>2. QED
      BY <2>1, <3>1 DEF SomeoneListens
  <2>5. QED
    BY <2>3, <2>4
<1>5. ASSUME NEW l \in Questions, ApplyChatEvent(l)
      PROVE  listener'[session'].phase # "off" /\ listener'[session'].on = session'
  <2>1. session # 0 /\ turn # NoTurn
    BY <1>5, TurnWhileAnswering DEF ApplyChatEvent
  <2>2. session' = session /\ listener[l].ev.kind \notin {"done", "err"}
    BY <1>5, <2>1 DEF ApplyChatEvent
  <2>3. session \in Questions
    BY <2>1, SessionRange
  <2>4. listener' = [listener EXCEPT ![l] = Reading(session)]
    BY <1>5, <2>1, <2>2 DEF ApplyChatEvent, Rearm
  <2>5. CASE l = session
    <3>1. listener'[session] = Reading(session)
      BY <2>3, <2>4, <2>5 DEF TypeOK
    <3>2. QED
      BY <2>2, <3>1 DEF Reading
  <2>6. CASE l # session
    <3>1. listener'[session] = listener[session]
      BY <2>3, <2>4, <2>6 DEF TypeOK
    <3>2. QED
      BY <2>1, <2>2, <3>1 DEF SomeoneListens
  <2>7. QED
    BY <2>5, <2>6
<1>6. ASSUME NEW q \in Questions, Answer(q) PROVE UNCHANGED <<session, listener>>
  BY <1>6 DEF Answer, Speak, ReplyEnds, StreamFails, EmitDone, EmitErr, CallTool,
     ToolReturns, EmitToolEnd, CloseChannel, turnVars
<1>7. CASE EnterTab \/ LeaveTab \/ RetryEndpoint \/ Insert \/ EscInsert \/ ClearTurns
           \/ Detected
  BY <1>1, <1>7 DEF EnterTab, LeaveTab, RetryEndpoint, Insert, EscInsert, ClearTurns,
     Detected, turnVars
<1>8. CASE UNCHANGED vars
  BY <1>1, <1>8 DEF vars, turnVars
<1>9. QED
  BY <1>1, <1>2, <1>3, <1>4, <1>5, <1>6, <1>7, <1>8 DEF Next, User

(* A response in progress always has a command on its channel or about to be
   re-armed there, whatever late events of earlier responses do. *)
THEOREM ChatHasListener == Spec => []SomeoneListens
<1>1. Init => SomeoneListens
  BY DEF Init, SomeoneListens
<1>2. QED
  BY <1>1, TypeInit, TypeStep, ListensStep, PTL DEF Spec

-----------------------------------------------------------------------------
(* The model is known before it is used. *)

ModelInv ==
    /\ detecting => ~checked
    /\ session # 0 \/ mode = "insert" => checked /\ hasModel
    /\ checked /\ ~chatErr => hasModel
    /\ \A q \in Questions : pc[q] # "idle" => hasModel

LEMMA ModelUser == TypeOK /\ ModelInv /\ (User \/ Detected) => ModelInv'
<1> SUFFICES ASSUME TypeOK, ModelInv, User \/ Detected PROVE ModelInv'
  OBVIOUS
<1> USE DEF ModelInv
<1>1. CASE EnterTab
  BY <1>1 DEF EnterTab, turnVars, goVars
<1>2. CASE LeaveTab
  BY <1>2 DEF LeaveTab, turnVars, goVars
<1>3. CASE Detected
  BY <1>3 DEF Detected, turnVars, goVars
<1>4. CASE RetryEndpoint
  BY <1>4 DEF RetryEndpoint, turnVars, goVars
<1>5. CASE Insert
  BY <1>5 DEF Insert, turnVars, goVars
<1>6. CASE EscInsert
  BY <1>6 DEF EscInsert, turnVars, goVars
<1>7. CASE Submit
  BY <1>7 DEF Submit
<1>8. CASE Cancel
  BY <1>8 DEF Cancel, uiVars, goVars
<1>9. CASE ClearTurns
  BY <1>9 DEF ClearTurns, uiVars, goVars
<1>10. QED
  BY <1>1, <1>2, <1>3, <1>4, <1>5, <1>6, <1>7, <1>8, <1>9 DEF User

(* No step of a goroutine takes it back to where it was before it began. *)
LEMMA AnswerStays ==
    ASSUME TypeOK, NEW q \in Questions, Answer(q)
    PROVE  /\ \A p \in Questions : p # q => pc'[p] = pc[p]
           /\ pc[q] \notin {"idle", "done"} /\ pc'[q] # "idle"
           /\ pc[q] = "closing" => pc'[q] = "done"
           /\ UNCHANGED <<uiVars, turnVars, cancelled, listener>>
<1>1. pc \in [Questions -> Points]
  BY DEF TypeOK
<1>2. CASE ReplyEnds(q) \/ StreamFails(q) \/ ToolReturns(q)
  BY <1>1, <1>2 DEF ReplyEnds, StreamFails, ToolReturns, Goto
<1>3. CASE CloseChannel(q)
  BY <1>1, <1>3 DEF CloseChannel, Goto
<1>4. CASE Speak(q)
  BY <1>1, <1>4 DEF Speak
<1>5. CASE EmitDone(q) \/ EmitErr(q) \/ CallTool(q)
  BY <1>1, <1>5 DEF EmitDone, EmitErr, CallTool, Goto
<1>6. CASE EmitToolEnd(q)
  BY <1>1, <1>6 DEF EmitToolEnd, NextRound, Goto
<1>7. QED
  BY <1>2, <1>3, <1>4, <1>5, <1>6 DEF Answer

LEMMA ModelStep == TypeOK /\ ModelInv /\ [Next]_vars => ModelInv'
<1> SUFFICES ASSUME TypeOK, ModelInv, [Next]_vars PROVE ModelInv'
  OBVIOUS
<1> USE DEF ModelInv
<1>1. CASE User \/ Detected
  BY <1>1, ModelUser
<1>2. ASSUME NEW q \in Questions, Answer(q) PROVE ModelInv'
  BY <1>2, AnswerStays DEF uiVars, turnVars
<1>3. ASSUME NEW l \in Questions, Read(l) PROVE ModelInv'
  BY <1>3 DEF Read, uiVars, turnVars, goVars
<1>4. ASSUME NEW l \in Questions, ApplyChatEvent(l) PROVE ModelInv'
  <2>1. UNCHANGED <<mode, detecting, checked, hasModel, pc>>
    BY <1>4 DEF ApplyChatEvent, goVars
  <2>2. CASE session = 0
    <3>1. UNCHANGED <<session, chatErr>>
      BY <1>4, <2>2 DEF ApplyChatEvent
    <3>2. QED
      BY <2>1, <3>1
  <2>3. CASE session # 0
    BY <2>1, <2>3
  <2>4. QED
    BY <2>2, <2>3
<1>5. CASE UNCHANGED vars
  BY <1>5 DEF vars, uiVars, turnVars, goVars
<1>6. QED
  BY <1>1, <1>2, <1>3, <1>4, <1>5 DEF Next

(* No goroutine runs before the model is fixed, and the server is checked
   only when nothing is being asked or answered. *)
THEOREM ChatKnowsModel == Spec => []ModelSettled
<1>1. Init => ModelInv
  BY DEF Init, ModelInv
<1>2. ModelInv => ModelSettled
  BY DEF ModelInv, ModelSettled
<1>3. QED
  BY <1>1, <1>2, TypeInit, TypeStep, ModelStep, PTL DEF Spec

-----------------------------------------------------------------------------
(* One answer at a time. *)

Over(q) == pc[q] \in {"closing", "done"}

(* Questions not asked yet have no goroutine, and channels are closed last. *)
Unasked == \A q \in Questions : q > asked => pc[q] = "idle"
ClosedLast == \A q \in Questions : closed[q] => pc[q] = "done"

(* The event that ends a response is out only once its goroutine is over,
   in the channel or in the hands of a command. *)
Ends(e) == e.kind \in {"done", "err"}
EndsLast ==
    /\ \A q \in Questions : \A i \in 1..Len(chan[q]) : Ends(chan[q][i]) => Over(q)
    /\ \A l \in Questions :
           listener[l].phase = "got" /\ Ends(listener[l].ev) => Over(listener[l].on)

(* Before anything is cancelled only the current question's goroutine is at
   work, and only its chain of commands is alive. *)
AloneNow ==
    /\ \A q \in Questions : pc[q] # "idle" /\ ~Over(q) => q = session
    /\ \A l \in Questions :
           listener[l].phase # "off" => l = session /\ listener[l].on = session

WorkInv == Unasked /\ ClosedLast /\ EndsLast /\ (NothingCancelled => AloneNow)

(* Steps that change none of its variables, or only cancel. *)
LEMMA WorkUntouched ==
    ASSUME WorkInv, UNCHANGED <<session, asked, pc, chan, closed, cancelled, listener>>
    PROVE  WorkInv'
  BY DEF WorkInv, Unasked, ClosedLast, EndsLast, AloneNow, NothingCancelled, Over

LEMMA WorkUser == TypeOK /\ WorkInv /\ (User \/ Detected) => WorkInv'
<1> SUFFICES ASSUME TypeOK, WorkInv, User \/ Detected PROVE WorkInv'
  OBVIOUS
<1>1. CASE EnterTab \/ LeaveTab \/ RetryEndpoint \/ Insert \/ EscInsert \/ ClearTurns
           \/ Detected
  BY <1>1, WorkUntouched DEF EnterTab, LeaveTab, RetryEndpoint, Insert, EscInsert,
     ClearTurns, Detected, turnVars, goVars, chanVars
<1>2. CASE Cancel
  <2>1. session \in Questions
    BY <1>2, SessionRange DEF Cancel
  <2>2. ~NothingCancelled'
    BY <1>2, <2>1 DEF Cancel, TypeOK, NothingCancelled
  <2>3. UNCHANGED <<asked, pc, chan, closed, listener>>
    BY <1>2 DEF Cancel, goVars, chanVars
  <2>4. QED
    BY <2>2, <2>3 DEF WorkInv, Unasked, ClosedLast, EndsLast, Over
<1>3. CASE Submit
  <2> DEFINE q == asked + 1
  <2>1. q \in Questions /\ asked \in Nat /\ q > asked
    BY <1>3, ConstantTypes DEF Submit, TypeOK, Questions
  <2>2. /\ session = 0 /\ session' = q /\ asked' = q
        /\ UNCHANGED <<chan, closed, cancelled>>
    BY <1>3 DEF Submit, chanVars
  <2>3. /\ pc'[q] = "streaming" /\ listener'[q] = Reading(q)
        /\ \A p \in Questions : p # q => pc'[p] = pc[p] /\ listener'[p] = listener[p]
    BY <1>3, <2>1 DEF Submit, TypeOK
  <2>4. Reading(q).phase = "reading" /\ Reading(q).on = q
    BY DEF Reading
  <2>5. pc[q] = "idle"
    BY <2>1 DEF WorkInv, Unasked
  <2>6. 0 \notin Questions
    BY DEF Questions
  <2>7. \A p \in Questions : p > q => p > asked /\ p # q
    BY <2>1 DEF Questions
  <2>8. \A p \in Questions : Over(p) => Over(p)'
    BY <2>3, <2>5 DEF Over
  <2>9. Unasked'
    BY <2>2, <2>3, <2>7 DEF WorkInv, Unasked
  <2>10. ClosedLast'
    BY <2>2, <2>3, <2>5 DEF WorkInv, ClosedLast
  <2>11. EndsLast'
    <3>1. \A p \in Questions : \A i \in 1..Len(chan'[p]) : Ends(chan'[p][i]) => Over(p)'
      BY <2>2, <2>8 DEF WorkInv, EndsLast
    <3>2. ASSUME NEW l \in Questions, listener'[l].phase = "got", Ends(listener'[l].ev)
          PROVE  Over(listener[l].on)'
      <4>1. l # q
        BY <2>3, <2>4, <3>2
      <4>2. listener'[l] = listener[l]
        BY <2>3, <4>1
      <4>3. listener[l].on \in Questions /\ Over(listener[l].on)
        BY <3>2, <4>2, ListenerTypes DEF TypeOK, WorkInv, EndsLast
      <4>4. QED
        BY <2>8, <4>2, <4>3 DEF Over
    <3>3. QED
      BY <3>1, <3>2 DEF EndsLast, Ends
  <2>12. ASSUME NothingCancelled' PROVE AloneNow'
    <3>1. AloneNow
      BY <2>2, <2>12 DEF WorkInv, NothingCancelled
    <3>2. \A p \in Questions : pc[p] = "idle" \/ Over(p)
      BY <2>2, <2>6, <3>1 DEF AloneNow
    <3>3. \A l \in Questions : listener[l].phase = "off"
      BY <2>2, <2>6, <3>1 DEF AloneNow
    <3>4. \A p \in Questions : pc'[p] # "idle" /\ ~Over(p)' => p = session'
      BY <2>2, <2>3, <3>2 DEF Over
    <3>5. \A l \in Questions :
              listener'[l].phase # "off" => l = session' /\ listener'[l].on = session'
      BY <2>2, <2>3, <2>4, <3>3
    <3>6. QED
      BY <3>4, <3>5 DEF AloneNow
  <2>13. QED
    BY <2>9, <2>10, <2>11, <2>12 DEF WorkInv
<1>4. QED
  BY <1>1, <1>2, <1>3 DEF User

LEMMA WorkAnswer ==
    ASSUME TypeOK, WorkInv, NEW q \in Questions, Answer(q)
    PROVE  WorkInv'
<1>1. /\ \A p \in Questions : p # q => pc'[p] = pc[p]
      /\ pc[q] \notin {"idle", "done"} /\ pc'[q] # "idle"
      /\ pc[q] = "closing" => pc'[q] = "done"
      /\ UNCHANGED <<session, asked, cancelled, listener>>
  BY AnswerStays DEF turnVars
<1>2. \A p \in Questions : Over(p) => Over(p)'
  BY <1>1 DEF Over
<1>3. Unasked'
  BY <1>1 DEF WorkInv, Unasked
<1>4. ClosedLast'
  <2>1. CASE CloseChannel(q)
    BY <1>1, <2>1 DEF CloseChannel, Goto, WorkInv, ClosedLast, TypeOK
  <2>2. CASE UNCHANGED closed
    BY <1>1, <2>2 DEF WorkInv, ClosedLast
  <2>3. QED
    BY <2>1, <2>2 DEF Answer, Speak, ReplyEnds, StreamFails, EmitDone, EmitErr, CallTool,
       ToolReturns, EmitToolEnd, chanVars
<1>5. EndsLast'
  <2>1. \A p \in Questions : \A i \in 1..Len(chan'[p]) : Ends(chan'[p][i]) => Over(p)'
    <3>1. CASE UNCHANGED chan
      BY <1>2, <3>1 DEF WorkInv, EndsLast
    <3>2. CASE Emits(q)
      <4>1. PICK e \in Events : Emit(q, e) /\ (Ends(e) => pc'[q] = "closing")
        BY <3>2, EmitsEvent DEF Ends
      <4>2. CASE UNCHANGED chan
        BY <3>1, <4>2
      <4>3. CASE chan' = [chan EXCEPT ![q] = Append(@, e)]
        <5>1. /\ \A p \in Questions : p # q => chan'[p] = chan[p]
              /\ chan'[q] = Append(chan[q], e) /\ chan[q] \in Seq(Events)
          BY <4>3 DEF TypeOK
        <5>2. \A i \in 1..Len(chan'[q]) :
                  (i \in 1..Len(chan[q]) /\ chan'[q][i] = chan[q][i]) \/ chan'[q][i] = e
          BY <5>1
        <5>3. Ends(e) => Over(q)'
          BY <4>1 DEF Over
        <5>4. \A i \in 1..Len(chan'[q]) : Ends(chan'[q][i]) => Over(q)'
          BY <1>2, <5>2, <5>3 DEF WorkInv, EndsLast
        <5>5. QED
          BY <1>2, <5>1, <5>4 DEF WorkInv, EndsLast
      <4>4. QED
        BY <4>1, <4>2, <4>3 DEF Emit
    <3>3. QED
      BY <3>1, <3>2 DEF Answer, Emits, ReplyEnds, StreamFails, ToolReturns, CloseChannel,
         chanVars
  <2>2. ASSUME NEW l \in Questions, listener[l].phase = "got", Ends(listener[l].ev)
        PROVE  Over(listener[l].on)'
    <3>1. listener[l].on \in Questions /\ Over(listener[l].on)
      BY <2>2, ListenerTypes DEF TypeOK, WorkInv, EndsLast
    <3>2. QED
      BY <1>1, <1>2, <3>1 DEF Over
  <2>3. QED
    BY <1>1, <2>1, <2>2 DEF EndsLast, Ends
<1>6. ASSUME NothingCancelled' PROVE AloneNow'
  <2>1. AloneNow
    BY <1>1, <1>6 DEF WorkInv, NothingCancelled
  <2>2. \A p \in Questions : pc'[p] # "idle" /\ ~Over(p)' => p = session'
    BY <1>1, <1>2, <2>1 DEF AloneNow, Over
  <2>3. QED
    BY <1>1, <2>1, <2>2 DEF AloneNow
<1>7. QED
  BY <1>3, <1>4, <1>5, <1>6 DEF WorkInv

LEMMA TailItems ==
    ASSUME NEW s \in Seq(Events), s # <<>>
    PROVE  \A i \in 1..Len(Tail(s)) : i + 1 \in 1..Len(s) /\ Tail(s)[i] = s[i + 1]
  OBVIOUS

LEMMA WorkRead ==
    ASSUME TypeOK, WorkInv, NEW l \in Questions, Read(l)
    PROVE  WorkInv'
<1> DEFINE q == listener[l].on
<1>1. /\ listener[l].phase = "reading" /\ q \in Questions
      /\ chan[q] \in Seq(Events)
      /\ UNCHANGED <<session, asked, pc, closed, cancelled>>
  BY ListenerTypes DEF Read, TypeOK, turnVars, goVars
<1>2. PICK e :
        /\ listener' = [listener EXCEPT ![l] = Got(q, e)]
        /\ \/ chan[q] # <<>> /\ e = Head(chan[q]) /\ chan' = [chan EXCEPT ![q] = Tail(@)]
           \/ closed[q] /\ UNCHANGED chan
  BY DEF Read
<1>3. /\ listener'[l] = Got(q, e)
      /\ \A k \in Questions : k # l => listener'[k] = listener[k]
  BY <1>2 DEF TypeOK
<1>4. Got(q, e).phase = "got" /\ Got(q, e).on = q /\ Got(q, e).ev = e
  BY DEF Got
<1>5. Ends(e) => Over(q)
  <2>1. CASE chan[q] # <<>> /\ e = Head(chan[q])
    <3>1. 1 \in 1..Len(chan[q]) /\ e = chan[q][1]
      BY <1>1, <2>1
    <3>2. QED
      BY <1>1, <3>1 DEF WorkInv, EndsLast
  <2>2. CASE closed[q]
    BY <1>1, <2>2 DEF WorkInv, ClosedLast, Over
  <2>3. QED
    BY <1>2, <2>1, <2>2
<1> HIDE DEF q
<1>6. \A p \in Questions : \A i \in 1..Len(chan'[p]) : Ends(chan'[p][i]) => Over(p)
  <2>1. CASE UNCHANGED chan
    BY <2>1 DEF WorkInv, EndsLast
  <2>2. CASE chan[q] # <<>> /\ chan' = [chan EXCEPT ![q] = Tail(@)]
    <3>1. /\ chan'[q] = Tail(chan[q])
          /\ \A p \in Questions : p # q => chan'[p] = chan[p]
      BY <1>1, <2>2 DEF TypeOK
    <3>2. \A i \in 1..Len(chan'[q]) :
              i + 1 \in 1..Len(chan[q]) /\ chan'[q][i] = chan[q][i + 1]
      BY <1>1, <2>2, <3>1, TailItems
    <3>3. \A i \in 1..Len(chan'[q]) : Ends(chan'[q][i]) => Over(q)
      BY <1>1, <3>2 DEF WorkInv, EndsLast
    <3>4. QED
      BY <3>1, <3>3 DEF WorkInv, EndsLast
  <2>3. QED
    BY <1>2, <2>1, <2>2
<1>7. EndsLast'
  <2>1. \A k \in Questions :
            listener'[k].phase = "got" /\ Ends(listener'[k].ev) => Over(listener'[k].on)
    BY <1>3, <1>4, <1>5 DEF WorkInv, EndsLast
  <2>2. QED
    BY <1>1, <1>6, <2>1 DEF EndsLast, Ends, Over
<1>8. ASSUME NothingCancelled' PROVE AloneNow'
  <2>1. AloneNow
    BY <1>1, <1>8 DEF WorkInv, NothingCancelled
  <2>2. l = session /\ q = session
    BY <1>1, <2>1 DEF AloneNow, q
  <2>3. \A k \in Questions :
            listener'[k].phase # "off" => k = session /\ listener'[k].on = session
    BY <1>3, <1>4, <2>1, <2>2 DEF AloneNow
  <2>4. QED
    BY <1>1, <2>1, <2>3 DEF AloneNow, Over
<1>9. Unasked' /\ ClosedLast'
  BY <1>1 DEF WorkInv, Unasked, ClosedLast
<1>10. QED
  BY <1>7, <1>8, <1>9 DEF WorkInv

LEMMA WorkApply ==
    ASSUME TypeOK, WorkInv, NEW l \in Questions, ApplyChatEvent(l)
    PROVE  WorkInv'
<1> DEFINE e == listener[l].ev
<1>1. /\ listener[l].phase = "got"
      /\ UNCHANGED <<asked, pc, chan, closed, cancelled>>
  BY DEF ApplyChatEvent, goVars, chanVars
<1>2. \/ /\ session = 0 /\ session' = session
         /\ listener' = [listener EXCEPT ![l] = Off]
      \/ /\ session # 0 /\ Ends(e) /\ session' = 0
         /\ listener' = [listener EXCEPT ![l] = Off]
      \/ /\ session # 0 /\ ~Ends(e) /\ session' = session
         /\ listener' = [listener EXCEPT ![l] = Reading(session)]
  <2>1. CASE session = 0
    BY <2>1 DEF ApplyChatEvent
  <2>2. CASE session # 0
    <3>1. /\ session' = IF Ends(e) THEN 0 ELSE session
          /\ listener' = [listener EXCEPT ![l] = IF Ends(e) THEN Off ELSE Reading(session)]
      BY <2>2, TurnWhileAnswering DEF ApplyChatEvent, Rearm, Ends
    <3>2. QED
      BY <2>2, <3>1
  <2>3. QED
    BY <2>1, <2>2
<1>3. /\ listener'[l] = Off \/ (listener'[l] = Reading(session) /\ session' = session)
      /\ \A j \in Questions : j # l => listener'[j] = listener[j]
  BY <1>2 DEF TypeOK
<1>4. Off.phase = "off" /\ Reading(session).phase = "reading" /\ Reading(session).on = session
  BY DEF Off, Reading
<1>5. session' = session \/ (session' = 0 /\ Ends(e))
  BY <1>2
<1>6. Unasked' /\ ClosedLast'
  BY <1>1 DEF WorkInv, Unasked, ClosedLast
<1>7. EndsLast'
  <2>1. \A j \in Questions :
            listener'[j].phase = "got" /\ Ends(listener'[j].ev) => Over(listener'[j].on)
    BY <1>2, <1>3, <1>4 DEF WorkInv, EndsLast
  <2>2. \A q \in Questions : \A i \in 1..Len(chan[q]) : Ends(chan[q][i]) => Over(q)
    BY DEF WorkInv, EndsLast
  <2>3. QED
    BY <1>1, <2>1, <2>2 DEF EndsLast, Ends, Over
<1>8. ASSUME NothingCancelled' PROVE AloneNow'
  <2>1. AloneNow
    BY <1>1, <1>8 DEF WorkInv, NothingCancelled
  <2>2. l = session /\ listener[l].on = session
    BY <1>1, <2>1 DEF AloneNow
  <2>3. CASE session' = session
    <3>1. \A j \in Questions :
              listener'[j].phase # "off" => j = session /\ listener'[j].on = session
      BY <1>2, <1>3, <1>4, <2>1, <2>2 DEF AloneNow
    <3>2. QED
      BY <1>1, <2>1, <2>3, <3>1 DEF AloneNow, Over
  <2>4. CASE session' = 0 /\ Ends(e)
    <3>1. Over(session)
      BY <1>1, <2>2, <2>4 DEF WorkInv, EndsLast
    <3>2. \A q \in Questions : pc[q] = "idle" \/ Over(q)
      BY <2>1, <3>1 DEF AloneNow
    <3>3. \A j \in Questions : listener'[j].phase = "off"
      <4>1. \A j \in Questions : j # l => listener'[j].phase = "off"
        BY <1>3, <2>1, <2>2 DEF AloneNow
      <4>2. session # 0
        BY <2>2 DEF Questions
      <4>3. listener'[l] = Off
        BY <1>2, <2>4, <4>2 DEF TypeOK
      <4>4. QED
        BY <1>4, <4>1, <4>3
    <3>4. QED
      BY <1>1, <3>2, <3>3 DEF AloneNow, Over
  <2>5. QED
    BY <1>5, <2>3, <2>4
<1>9. QED
  BY <1>6, <1>7, <1>8 DEF WorkInv

LEMMA WorkInit == Init => WorkInv
<1> SUFFICES ASSUME Init PROVE WorkInv
  OBVIOUS
<1>1. Off.phase = "off"
  BY DEF Off
<1>2. \A l \in Questions : listener[l].phase = "off"
  BY <1>1 DEF Init
<1>3. \A q \in Questions : pc[q] = "idle" /\ ~closed[q] /\ chan[q] = <<>>
  BY DEF Init
<1>4. Unasked /\ ClosedLast /\ AloneNow
  BY <1>2, <1>3 DEF Unasked, ClosedLast, AloneNow
<1>5. EndsLast
  <2>1. Len(<<>>) = 0 /\ 1..0 = {}
    OBVIOUS
  <2>2. \A q \in Questions : 1..Len(chan[q]) = {}
    BY <1>3, <2>1
  <2>3. QED
    BY <1>2, <2>2 DEF EndsLast
<1>6. QED
  BY <1>4, <1>5 DEF WorkInv

LEMMA WorkStep == TypeOK /\ WorkInv /\ [Next]_vars => WorkInv'
<1> SUFFICES ASSUME TypeOK, WorkInv, [Next]_vars PROVE WorkInv'
  OBVIOUS
<1>1. CASE User \/ Detected
  BY <1>1, WorkUser
<1>2. CASE \E q \in Questions : Answer(q)
  BY <1>2, WorkAnswer
<1>3. CASE \E l \in Questions : Read(l) \/ ApplyChatEvent(l)
  BY <1>3, WorkRead, WorkApply
<1>4. CASE UNCHANGED vars
  BY <1>4, WorkUntouched DEF vars, turnVars, goVars, chanVars
<1>5. QED
  BY <1>1, <1>2, <1>3, <1>4 DEF Next

(* Until something is cancelled, a goroutine that still has anything to say
   is the current question's: questions never overlap. *)
THEOREM ChatAnswersOne == Spec => []OneAnswerAtATime
<1>1. WorkInv => OneAnswerAtATime
  BY DEF WorkInv, AloneNow, OneAnswerAtATime, Over
<1>2. QED
  BY <1>1, TypeInit, TypeStep, WorkInit, WorkStep, PTL DEF Spec

-----------------------------------------------------------------------------
(* Late events. *)

(* With nothing being answered, the last turn stays as it is until it is
   cleared or the next question is asked, whatever still arrives. *)
THEOREM ChatIgnoresLate == Spec => LateEventsIgnored
<1>1. ASSUME TypeOK, [Next]_vars, session = 0, asked' = asked
      PROVE  turn' \in {turn, NoTurn}
  <2>1. CASE Submit
    BY <1>1, <2>1, ConstantTypes DEF Submit, TypeOK
  <2>2. CASE ClearTurns
    BY <2>2 DEF ClearTurns
  <2>3. CASE Cancel
    BY <1>1, <2>3 DEF Cancel
  <2>4. CASE EnterTab \/ LeaveTab \/ RetryEndpoint \/ Insert \/ EscInsert \/ Detected
    BY <2>4 DEF EnterTab, LeaveTab, RetryEndpoint, Insert, EscInsert, Detected, turnVars
  <2>5. CASE \E q \in Questions : Answer(q)
    BY <1>1, <2>5, AnswerStays DEF turnVars
  <2>6. CASE \E l \in Questions : Read(l)
    BY <2>6 DEF Read, turnVars
  <2>7. CASE \E l \in Questions : ApplyChatEvent(l)
    BY <1>1, <2>7 DEF ApplyChatEvent
  <2>8. CASE UNCHANGED vars
    BY <2>8 DEF vars, turnVars
  <2>9. QED
    BY <1>1, <2>1, <2>2, <2>3, <2>4, <2>5, <2>6, <2>7, <2>8 DEF Next, User
<1>2. TypeOK /\ [Next]_vars =>
          [session = 0 /\ asked' = asked => turn' \in {turn, NoTurn}]_<<session, asked, turn>>
  BY <1>1
<1>3. QED
  BY <1>2, TypeInit, TypeStep, PTL DEF Spec, LateEventsIgnored

-----------------------------------------------------------------------------
(* Answers arrive in order and whole. *)

(* The tools whose step is shown as running, and that there is one such step
   at most. *)
RunningTools(steps) == {steps[i].tool : i \in {j \in DOMAIN steps : steps[j].running}}
OneRuns(steps) == \A i, j \in DOMAIN steps : steps[i].running /\ steps[j].running => i = j

(* The tool a goroutine has started and not yet reported as ended. *)
Busy(q) == IF pc[q] \in {"tool", "toolEnd"} THEN {tool[q]} ELSE {}

(* An event of q takes a turn with n tokens and busy tools to one with n2
   and busy2. *)
Says(q, e, n, busy, n2, busy2) ==
    /\ e.of = q
    /\ \/ e.kind = "token" /\ e.n = n + 1 /\ n2 = n + 1 /\ busy2 = busy
       \/ e.kind = "toolStart" /\ n2 = n /\ busy = {} /\ busy2 = {e.tool}
       \/ e.kind = "toolEnd" /\ n2 = n /\ busy = {e.tool} /\ busy2 = {}
       \/ Ends(e) /\ n2 = n /\ busy = {} /\ busy2 = {}

(* The events of a channel c lead from said[0] and busy[0] to n tokens and
   busy tools now, one by one, and nothing follows the event that ends them. *)
Leads(q, c, said, busy, n, now) ==
    /\ said[Len(c)] = n /\ busy[Len(c)] = now
    /\ \A i \in 1..Len(c) : Says(q, c[i], said[i - 1], busy[i - 1], said[i], busy[i])
    /\ \A i \in 1..Len(c) : Ends(c[i]) => i = Len(c)

(* So does the event in a command's hands, if there is one, from the turn t
   on screen to where a channel with len events starts. *)
Joins(q, k, t, n, busy, len) ==
    IF k.phase = "got"
    THEN Says(q, k.ev, Len(t.text), RunningTools(t.steps), n, busy) /\ (Ends(k.ev) => len = 0)
    ELSE n = Len(t.text) /\ busy = RunningTools(t.steps)

(* The account of what is in flight: event by event it leads from the turn on
   screen to what the goroutine has said so far. *)
Account(q) ==
    \E said \in [0..Len(chan[q]) -> 0..spoken[q]], busy \in [0..Len(chan[q]) -> SUBSET Tools] :
        /\ Leads(q, chan[q], said, busy, spoken[q], Busy(q))
        /\ Joins(q, listener[q], turn, said[0], busy[0], Len(chan[q]))

Written(t) == \A i \in DOMAIN t.text : t.text[i] = [of |-> t.owner, n |-> i]
Ended == Len(turn.text) = spoken[turn.owner] /\ RunningTools(turn.steps) = {}
Fresh == \A q \in Questions : q > asked => spoken[q] = 0 /\ chan[q] = <<>>

AnswerInv ==
    /\ Fresh
    /\ NothingCancelled =>
         /\ turn.owner # 0 => Written(turn) /\ OneRuns(turn.steps)
         /\ session # 0 => Account(session)
         /\ session = 0 /\ turn.owner # 0 => Ended

LEMMA StartRuns ==
    ASSUME NEW steps \in Seq(Steps), NEW s \in Steps, s.running, RunningTools(steps) = {}
    PROVE  RunningTools(Append(steps, s)) = {s.tool} /\ OneRuns(Append(steps, s))
<1> DEFINE more == Append(steps, s)
           len == Len(steps)
<1>1. /\ len \in Nat /\ DOMAIN steps = 1..len /\ DOMAIN more = 1..len + 1
      /\ more[len + 1] = s /\ \A i \in 1..len : more[i] = steps[i]
  OBVIOUS
<1>2. \A i \in 1..len : ~steps[i].running
  BY <1>1 DEF RunningTools
<1> HIDE DEF more, len
<1>3. \A i \in DOMAIN more : more[i].running <=> i = len + 1
  BY <1>1, <1>2
<1>4. RunningTools(more) = {s.tool}
  <2>1. {j \in DOMAIN more : more[j].running} = {len + 1}
    BY <1>1, <1>3
  <2> QED
    BY <1>1, <2>1 DEF RunningTools
<1>5. OneRuns(more)
  BY <1>3 DEF OneRuns
<1> QED
  BY <1>4, <1>5 DEF more

LEMMA EndRuns ==
    ASSUME NEW steps \in Seq(Steps), NEW e, RunningTools(steps) = {e.tool}, OneRuns(steps)
    PROVE  /\ RunningTools(CompleteStep(steps, e)) = {}
           /\ OneRuns(CompleteStep(steps, e))
<1> DEFINE running == {i \in DOMAIN steps : steps[i].running /\ steps[i].tool = e.tool}
           newest == {i \in running : \A j \in running : j <= i}
           done == CompleteStep(steps, e)
<1>1. done = [i \in DOMAIN steps |->
                IF i \in newest THEN [of |-> e.of, tool |-> e.tool, running |-> FALSE]
                ELSE steps[i]]
  BY DEF CompleteStep
<1>2. DOMAIN steps = 1..Len(steps) /\ Len(steps) \in Nat
  OBVIOUS
<1>3. \A i \in DOMAIN steps : steps[i].running => i \in newest
  <2> SUFFICES ASSUME NEW i \in DOMAIN steps, steps[i].running PROVE i \in newest
    OBVIOUS
  <2>1. steps[i].tool = e.tool
    BY DEF RunningTools
  <2>2. \A j \in running : j = i
    BY DEF OneRuns
  <2> QED
    BY <1>2, <2>1, <2>2
<1> HIDE DEF newest, done
<1>4. \A i \in DOMAIN done : ~done[i].running
  BY <1>1, <1>3
<1>5. RunningTools(done) = {} /\ OneRuns(done)
  BY <1>4 DEF RunningTools, OneRuns
<1> QED
  BY <1>5 DEF done

(* Folding an event does to the turn what the account says of it. *)
LEMMA FoldSays ==
    ASSUME NEW t \in Turns, NEW e \in Events, Written(t), OneRuns(t.steps), NEW n2, NEW busy2,
           Says(t.owner, e, Len(t.text), RunningTools(t.steps), n2, busy2)
    PROVE  /\ Len(Fold(t, e).text) = n2 /\ RunningTools(Fold(t, e).steps) = busy2
           /\ Written(Fold(t, e)) /\ OneRuns(Fold(t, e).steps)
<1> DEFINE t2 == Fold(t, e)
<1>1. /\ t.text \in Seq([of : Questions, n : Nat \ {0}]) /\ t.steps \in Seq(Steps)
      /\ t2 \in Turns /\ t2.owner = t.owner
  BY FoldType DEF Turns
<1>2. CASE e.kind = "token"
  <2> DEFINE w == [of |-> e.of, n |-> e.n]
  <2>1. /\ e.of = t.owner /\ e.n = Len(t.text) + 1 /\ n2 = Len(t.text) + 1
        /\ busy2 = RunningTools(t.steps)
    BY <1>2 DEF Says, Ends
  <2>2. t2 = [t EXCEPT !.text = Append(@, w)]
    BY <1>2 DEF Fold
  <2>3. t2.text = Append(t.text, w) /\ t2.steps = t.steps
    BY <2>2 DEF Turns
  <2>4. /\ Len(t.text) \in Nat /\ DOMAIN t.text = 1..Len(t.text)
        /\ DOMAIN t2.text = 1..Len(t.text) + 1 /\ Len(t2.text) = Len(t.text) + 1
        /\ t2.text[Len(t.text) + 1] = w /\ \A i \in 1..Len(t.text) : t2.text[i] = t.text[i]
    BY <1>1, <2>3
  <2>5. Written(t2)
    BY <1>1, <2>1, <2>4 DEF Written
  <2> QED
    BY <2>1, <2>3, <2>4, <2>5
<1>3. CASE e.kind = "toolStart"
  <2> DEFINE s == [of |-> e.of, tool |-> e.tool, running |-> TRUE]
  <2>1. n2 = Len(t.text) /\ RunningTools(t.steps) = {} /\ busy2 = {e.tool}
    BY <1>3 DEF Says, Ends
  <2>2. t2 = [t EXCEPT !.steps = Append(@, s)]
    BY <1>3 DEF Fold
  <2>3. t2.text = t.text /\ t2.steps = Append(t.steps, s)
    BY <2>2 DEF Turns
  <2>4. s \in Steps /\ s.running /\ s.tool = e.tool
    BY <1>3, EventFields DEF Steps
  <2>5. RunningTools(t2.steps) = {e.tool} /\ OneRuns(t2.steps)
    BY <1>1, <2>1, <2>3, <2>4, StartRuns
  <2> QED
    BY <1>1, <2>1, <2>3, <2>5 DEF Written
<1>4. CASE e.kind = "toolEnd"
  <2>1. n2 = Len(t.text) /\ RunningTools(t.steps) = {e.tool} /\ busy2 = {}
    BY <1>4 DEF Says, Ends
  <2>2. t2 = [t EXCEPT !.steps = CompleteStep(@, e)]
    BY <1>4 DEF Fold
  <2>3. t2.text = t.text /\ t2.steps = CompleteStep(t.steps, e)
    BY <2>2 DEF Turns
  <2> QED
    BY <1>1, <2>1, <2>3, EndRuns DEF Written
<1>5. CASE e.kind \in {"done", "err"}
  <2>1. n2 = Len(t.text) /\ RunningTools(t.steps) = {} /\ busy2 = {}
    BY <1>5 DEF Says, Ends
  <2>2. t2.text = t.text /\ t2.steps = t.steps
    BY <1>5 DEF Fold, Turns
  <2> QED
    BY <1>1, <2>1, <2>2 DEF Written
<1> QED
  BY <1>2, <1>3, <1>4, <1>5, EventFields

(* What a goroutine says is entered at the end of the account. *)
LEMMA EmitSays ==
    ASSUME TypeOK, NEW q \in Questions, Emits(q)
    PROVE  \E e \in Events :
              /\ Emit(q, e)
              /\ Says(q, e, spoken[q], Busy(q), spoken'[q], Busy(q)')
              /\ spoken'[q] \in Nat /\ spoken[q] <= spoken'[q]
<1> USE EventTypes DEF Says, Busy
<1>1. /\ spoken[q] \in Nat /\ tool[q] \in Tools /\ pc \in [Questions -> Points]
      /\ tool \in [Questions -> Tools] /\ spoken \in [Questions -> Nat]
  BY DEF TypeOK
<1>2. CASE Speak(q)
  <2>1. spoken'[q] = spoken[q] + 1 /\ Busy(q)' = Busy(q)
    BY <1>1, <1>2 DEF Speak
  <2>2. /\ Token(q, spoken[q] + 1) \in Events /\ Emit(q, Token(q, spoken[q] + 1))
    BY <1>1, <1>2 DEF Speak
  <2>3. /\ Token(q, spoken[q] + 1).kind = "token" /\ Token(q, spoken[q] + 1).of = q
        /\ Token(q, spoken[q] + 1).n = spoken[q] + 1
    BY DEF Token
  <2> QED
    BY <1>1, <2>1, <2>2, <2>3
<1>3. CASE EmitDone(q)
  <2>1. spoken'[q] = spoken[q] /\ Busy(q) = {} /\ Busy(q)' = {}
    BY <1>1, <1>3 DEF EmitDone, Goto
  <2>2. Done(q).kind = "done" /\ Done(q).of = q
    BY DEF Done
  <2> QED
    BY <1>1, <1>3, <2>1, <2>2 DEF EmitDone, Ends
<1>4. CASE EmitErr(q)
  <2>1. spoken'[q] = spoken[q] /\ Busy(q) = {} /\ Busy(q)' = {}
    BY <1>1, <1>4 DEF EmitErr, Goto
  <2>2. Err(q).kind = "err" /\ Err(q).of = q
    BY DEF Err
  <2> QED
    BY <1>1, <1>4, <2>1, <2>2 DEF EmitErr, Ends
<1>5. CASE CallTool(q)
  <2>1. PICK t \in Tools : tool' = [tool EXCEPT ![q] = t] /\ Emit(q, ToolStart(q, t))
    BY <1>5 DEF CallTool
  <2>2. spoken'[q] = spoken[q] /\ Busy(q) = {} /\ Busy(q)' = {t}
    BY <1>1, <1>5, <2>1 DEF CallTool, Goto
  <2>3. /\ ToolStart(q, t).kind = "toolStart" /\ ToolStart(q, t).of = q
        /\ ToolStart(q, t).tool = t
    BY DEF ToolStart
  <2> QED
    BY <1>1, <2>1, <2>2, <2>3
<1>6. CASE EmitToolEnd(q)
  <2> DEFINE e == ToolEnd(q, tool[q])
  <2>1. e \in Events /\ Emit(q, e)
    BY <1>1, <1>6 DEF EmitToolEnd
  <2>2. spoken'[q] = spoken[q] /\ Busy(q) = {tool[q]}
    BY <1>6 DEF EmitToolEnd
  <2>3. pc'[q] \in {"calling", "streaming", "failing"}
    BY <1>1, <1>6 DEF EmitToolEnd, NextRound, Goto
  <2>4. e.kind = "toolEnd" /\ e.of = q /\ e.tool = tool[q]
    BY DEF ToolEnd
  <2> QED
    BY <1>1, <2>1, <2>2, <2>3, <2>4
<1> QED
  BY <1>2, <1>3, <1>4, <1>5, <1>6 DEF Emits

LEMMA AccountEmit ==
    ASSUME TypeOK, WorkInv, NothingCancelled, NEW q \in Questions, Emits(q), Account(q),
           UNCHANGED <<turn, listener>>
    PROVE  Account(q)'
<1> DEFINE len == Len(chan[q])
<1>1. PICK e \in Events :
        /\ Emit(q, e)
        /\ Says(q, e, spoken[q], Busy(q), spoken'[q], Busy(q)')
        /\ spoken'[q] \in Nat /\ spoken[q] <= spoken'[q]
  BY EmitSays
<1>2. chan' = [chan EXCEPT ![q] = Append(@, e)] /\ chan[q] \in Seq(Events)
  BY <1>1 DEF Emit, NothingCancelled, TypeOK
<1>3. /\ chan'[q] = Append(chan[q], e) /\ len \in Nat /\ Len(chan'[q]) = len + 1
      /\ chan'[q][len + 1] = e /\ \A i \in 1..len : chan'[q][i] = chan[q][i]
  BY <1>2 DEF TypeOK
<1>4. PICK said \in [0..len -> 0..spoken[q]], busy \in [0..len -> SUBSET Tools] :
        /\ Leads(q, chan[q], said, busy, spoken[q], Busy(q))
        /\ Joins(q, listener[q], turn, said[0], busy[0], len)
  BY DEF Account
<1>5. ~Over(q)
  BY DEF Over, Emits, Speak, EmitDone, EmitErr, CallTool, EmitToolEnd
<1>6. /\ \A i \in 1..len : ~Ends(chan[q][i])
      /\ listener[q].phase = "got" => ~Ends(listener[q].ev)
  <2>1. \A i \in 1..len : ~Ends(chan[q][i])
    BY <1>5 DEF WorkInv, EndsLast
  <2>2. listener[q].phase = "got" => listener[q].on = q
    BY DEF WorkInv, AloneNow
  <2> QED
    BY <1>5, <2>1, <2>2 DEF WorkInv, EndsLast
<1> DEFINE said2 == [i \in 0..len + 1 |-> IF i = len + 1 THEN spoken'[q] ELSE said[i]]
           busy2 == [i \in 0..len + 1 |-> IF i = len + 1 THEN Busy(q)' ELSE busy[i]]
<1> HIDE DEF len
<1>7. Busy(q)' \in SUBSET Tools
  <2>1. len \in 0..len
    BY <1>3
  <2>2. Busy(q) \in SUBSET Tools
    BY <1>4, <2>1 DEF Leads, len
  <2> QED
    BY <1>1, <2>2, EventFields DEF Says
<1>8. said2 \in [0..len + 1 -> 0..spoken'[q]] /\ busy2 \in [0..len + 1 -> SUBSET Tools]
  <2>1. spoken[q] \in Nat
    BY DEF TypeOK
  <2> QED
    BY <1>1, <1>3, <1>4, <1>7, <2>1
<1>9. /\ said2[len + 1] = spoken'[q] /\ busy2[len + 1] = Busy(q)'
      /\ \A i \in 0..len : said2[i] = said[i] /\ busy2[i] = busy[i]
  BY <1>3
<1> HIDE DEF said2, busy2
<1>10. \A i \in 1..len + 1 : Says(q, chan'[q][i], said2[i - 1], busy2[i - 1], said2[i], busy2[i])
  <2>1. \A i \in 1..len : Says(q, chan'[q][i], said2[i - 1], busy2[i - 1], said2[i], busy2[i])
    BY <1>3, <1>4, <1>9 DEF Leads, len
  <2>2. Says(q, chan'[q][len + 1], said2[len], busy2[len], said2[len + 1], busy2[len + 1])
    BY <1>1, <1>3, <1>4, <1>9, SMTT(40) DEF Leads, len
  <2> QED
    BY <1>3, <2>1, <2>2
<1>11. \A i \in 1..len + 1 : Ends(chan'[q][i]) => i = len + 1
  <2>1. \A i \in 1..len + 1 : i \in 1..len \/ i = len + 1
    BY <1>3
  <2>2. \A i \in 1..len : chan'[q][i] = chan[q][i]
    BY <1>3
  <2> QED
    BY <1>6, <2>1, <2>2
<1>12. Leads(q, chan'[q], said2, busy2, spoken'[q], Busy(q)')
  BY <1>3, <1>9, <1>10, <1>11 DEF Leads
<1>13. Joins(q, listener'[q], turn', said2[0], busy2[0], len + 1)
  BY <1>3, <1>4, <1>6, <1>9 DEF Joins
<1> QED
  BY <1>3, <1>8, <1>12, <1>13 DEF Account

(* A goroutine's step that says nothing leaves its account as it is. *)
LEMMA AccountQuiet ==
    ASSUME TypeOK, NothingCancelled, NEW q \in Questions, Account(q),
           ReplyEnds(q) \/ StreamFails(q) \/ ToolReturns(q) \/ CloseChannel(q)
    PROVE  Account(q)'
<1>1. UNCHANGED <<turn, listener, chan, spoken, tool>>
  BY DEF ReplyEnds, StreamFails, ToolReturns, CloseChannel, turnVars, chanVars
<1>2. Busy(q)' = Busy(q)
  BY <1>1 DEF ReplyEnds, StreamFails, ToolReturns, CloseChannel, Busy, Goto, TypeOK,
     NothingCancelled
<1> QED
  BY <1>1, <1>2 DEF Account

(* An account speaks of one question, and of the turn. *)
LEMMA AccountFrame ==
    ASSUME NEW q \in Questions, Account(q), UNCHANGED turn, chan'[q] = chan[q],
           spoken'[q] = spoken[q], pc'[q] = pc[q], tool'[q] = tool[q], listener'[q] = listener[q]
    PROVE  Account(q)'
<1>1. Busy(q)' = Busy(q)
  BY DEF Busy
<1> QED
  BY <1>1 DEF Account

(* A goroutine touches its own channel only. *)
LEMMA AnswerOwn ==
    ASSUME TypeOK, NEW q \in Questions, Answer(q)
    PROVE  /\ \A p \in Questions : p # q =>
                 /\ chan'[p] = chan[p] /\ spoken'[p] = spoken[p] /\ tool'[p] = tool[p]
           /\ pc[q] = "closing" => CloseChannel(q)
           /\ Emits(q) \/ ReplyEnds(q) \/ StreamFails(q) \/ ToolReturns(q) \/ CloseChannel(q)
<1>1. CASE Emits(q)
  <2>1. PICK e : Emit(q, e)
    BY <1>1 DEF Emits, Speak, EmitDone, EmitErr, CallTool, EmitToolEnd
  <2>2. \A p \in Questions : p # q => chan'[p] = chan[p]
    BY <2>1 DEF Emit, TypeOK
  <2>3. \A p \in Questions : p # q => spoken'[p] = spoken[p] /\ tool'[p] = tool[p]
    BY <1>1 DEF Emits, Speak, EmitDone, EmitErr, CallTool, EmitToolEnd, TypeOK
  <2>4. pc[q] # "closing"
    BY <1>1 DEF Emits, Speak, EmitDone, EmitErr, CallTool, EmitToolEnd
  <2> QED
    BY <1>1, <2>2, <2>3, <2>4
<1>2. CASE ReplyEnds(q) \/ StreamFails(q) \/ ToolReturns(q) \/ CloseChannel(q)
  <2>1. UNCHANGED <<chan, spoken, tool>>
    BY <1>2 DEF ReplyEnds, StreamFails, ToolReturns, CloseChannel, chanVars
  <2> QED
    BY <1>2, <2>1 DEF ReplyEnds, StreamFails, ToolReturns
<1> QED
  BY <1>1, <1>2 DEF Answer, Emits

LEMMA AnswersAnswer ==
    ASSUME TypeOK, WorkInv, AnswerInv, NEW q \in Questions, Answer(q)
    PROVE  AnswerInv'
<1>1. /\ \A p \in Questions : p # q => pc'[p] = pc[p]
      /\ pc[q] \notin {"idle", "done"}
      /\ UNCHANGED <<session, turn, asked, cancelled, listener>>
  BY AnswerStays DEF turnVars
<1>2. /\ \A p \in Questions : p # q =>
            chan'[p] = chan[p] /\ spoken'[p] = spoken[p] /\ tool'[p] = tool[p]
      /\ pc[q] = "closing" => CloseChannel(q)
      /\ Emits(q) \/ ReplyEnds(q) \/ StreamFails(q) \/ ToolReturns(q) \/ CloseChannel(q)
  BY AnswerOwn
<1>3. Fresh'
  <2>1. ~(q > asked)
    BY <1>1 DEF WorkInv, Unasked
  <2> QED
    BY <1>1, <1>2, <2>1 DEF AnswerInv, Fresh
<1>4. ASSUME NothingCancelled'
      PROVE  /\ session # 0 => Account(session)'
             /\ session = 0 /\ turn.owner # 0 => Ended'
  <2>1. NothingCancelled /\ AloneNow
    BY <1>1, <1>4 DEF WorkInv, NothingCancelled
  <2>2. ASSUME session # 0 PROVE Account(session)'
    <3>1. session \in Questions /\ Account(session)
      BY <2>1, <2>2, SessionRange DEF AnswerInv
    <3>2. CASE q = session
      BY <1>1, <1>2, <2>1, <3>1, <3>2, AccountEmit, AccountQuiet
    <3>3. CASE q # session
      BY <1>1, <1>2, <3>1, <3>3, AccountFrame
    <3> QED
      BY <3>2, <3>3
  <2>3. ASSUME session = 0, turn.owner # 0 PROVE Ended'
    <3>1. pc[q] = "closing"
      BY <1>1, <2>1, <2>3 DEF AloneNow, Over, Questions
    <3>2. UNCHANGED spoken
      BY <1>2, <3>1 DEF CloseChannel
    <3> QED
      BY <1>1, <2>1, <2>3, <3>2 DEF AnswerInv, Ended
  <2> QED
    BY <2>2, <2>3
<1> QED
  BY <1>1, <1>3, <1>4 DEF AnswerInv, NothingCancelled

LEMMA AccountRead ==
    ASSUME TypeOK, WorkInv, NothingCancelled, session # 0, Account(session), Read(session)
    PROVE  Account(session)'
<1> DEFINE q == session
           c == chan[q]
<1>1. /\ q \in Questions /\ listener[q].phase = "reading" /\ listener[q].on = q
      /\ c \in Seq(Events) /\ UNCHANGED <<turn, session, spoken, pc, tool>>
  BY SessionRange DEF Read, TypeOK, turnVars, goVars, WorkInv, AloneNow
<1>2. PICK said \in [0..Len(c) -> 0..spoken[q]], busy \in [0..Len(c) -> SUBSET Tools] :
        Leads(q, c, said, busy, spoken[q], Busy(q)) /\ Joins(q, listener[q], turn, said[0], busy[0], Len(c))
  BY DEF Account
<1>3. said[0] = Len(turn.text) /\ busy[0] = RunningTools(turn.steps)
  BY <1>1, <1>2 DEF Joins
<1>4. Busy(q)' = Busy(q)
  BY <1>1 DEF Busy
<1>5. CASE c # <<>> /\ chan' = [chan EXCEPT ![q] = Tail(@)]
           /\ listener' = [listener EXCEPT ![q] = Got(q, Head(c))]
  <2>1. /\ chan'[q] = Tail(c) /\ Len(c) \in Nat /\ Len(c) > 0 /\ Len(Tail(c)) = Len(c) - 1
        /\ c[1] = Head(c) /\ \A i \in 1..Len(c) - 1 : Tail(c)[i] = c[i + 1]
    BY <1>1, <1>5 DEF TypeOK
  <2>2. listener'[q] = Got(q, c[1])
    BY <1>1, <1>5, <2>1 DEF TypeOK
  <2> DEFINE len == Len(c) - 1
             said2 == [i \in 0..len |-> said[i + 1]]
             busy2 == [i \in 0..len |-> busy[i + 1]]
  <2>3. said2 \in [0..len -> 0..spoken[q]] /\ busy2 \in [0..len -> SUBSET Tools]
    BY <2>1
  <2>4. \A i \in 0..len : said2[i] = said[i + 1] /\ busy2[i] = busy[i + 1]
    OBVIOUS
  <2>5. len \in Nat /\ Len(c) = len + 1 /\ Len(Tail(c)) = len
    BY <2>1
  <2> HIDE DEF said2, busy2, len
  <2>6. Leads(q, Tail(c), said2, busy2, spoken[q], Busy(q))
    <3>1. said2[len] = spoken[q] /\ busy2[len] = Busy(q)
      BY <1>2, <2>4, <2>5 DEF Leads
    <3>2. ASSUME NEW i \in 1..len
          PROVE  /\ Says(q, Tail(c)[i], said2[i - 1], busy2[i - 1], said2[i], busy2[i])
                 /\ Ends(Tail(c)[i]) => i = len
      <4>1. i + 1 \in 1..len + 1 /\ i - 1 \in 0..len /\ i \in 0..len /\ (i + 1) - 1 = i /\ (i - 1) + 1 = i
        BY <2>5
      <4>2. Tail(c)[i] = c[i + 1]
        BY <2>1, <2>5
      <4>3. Says(q, c[i + 1], said[i], busy[i], said[i + 1], busy[i + 1])
        BY <1>2, <2>5, <4>1 DEF Leads
      <4>4. Ends(c[i + 1]) => i + 1 = len + 1
        BY <1>2, <2>5, <4>1 DEF Leads
      <4> QED
        BY <2>4, <2>5, <4>1, <4>2, <4>3, <4>4
    <3> QED
      BY <2>5, <3>1, <3>2 DEF Leads
  <2>7. Joins(q, listener'[q], turn, said2[0], busy2[0], len)
    <3>1. 1 \in 1..Len(c) /\ 1 - 1 = 0 /\ 0 \in 0..len /\ 0 + 1 = 1
      BY <2>5
    <3>2. /\ Says(q, c[1], said[1 - 1], busy[1 - 1], said[1], busy[1])
          /\ Ends(c[1]) => 1 = Len(c)
      BY <1>2, <3>1 DEF Leads
    <3>3. said2[0] = said[1] /\ busy2[0] = busy[1]
      BY <2>4, <3>1
    <3>4. Got(q, c[1]).phase = "got" /\ Got(q, c[1]).ev = c[1]
      BY DEF Got
    <3> QED
      BY <1>3, <2>2, <2>5, <3>1, <3>2, <3>3, <3>4 DEF Joins
  <2> QED
    BY <1>1, <1>4, <2>1, <2>3, <2>5, <2>6, <2>7 DEF Account
<1>6. CASE c = <<>> /\ closed[q] /\ UNCHANGED chan
           /\ listener' = [listener EXCEPT ![q] = Got(q, Done(q))]
  <2>1. Len(c) = 0
    BY <1>6
  <2>2. busy[0] = {}
    BY <1>1, <1>2, <1>6, <2>1 DEF WorkInv, ClosedLast, Busy, Leads
  <2>3. listener'[q] = Got(q, Done(q))
    BY <1>1, <1>6 DEF TypeOK
  <2>4. Got(q, Done(q)).phase = "got" /\ Got(q, Done(q)).ev = Done(q) /\ Done(q).of = q /\ Ends(Done(q))
    BY DEF Got, Done, Ends
  <2>5. Joins(q, listener'[q], turn, said[0], busy[0], Len(c))
    BY <1>3, <2>1, <2>2, <2>3, <2>4 DEF Joins, Says
  <2> QED
    BY <1>1, <1>2, <1>4, <1>6, <2>5, SMTT(40) DEF Account
<1> QED
  BY <1>1, <1>5, <1>6 DEF Read

LEMMA AnswersRead ==
    ASSUME TypeOK, WorkInv, AnswerInv, NEW l \in Questions, Read(l)
    PROVE  AnswerInv'
<1> DEFINE q == listener[l].on
<1>1. /\ listener[l].phase = "reading" /\ q \in Questions
      /\ UNCHANGED <<session, turn, asked, spoken, cancelled>>
  BY ListenerTypes DEF Read, TypeOK, turnVars, goVars
<1>2. (chan[q] # <<>> /\ chan' = [chan EXCEPT ![q] = Tail(@)]) \/ UNCHANGED chan
  BY DEF Read
<1>3. Fresh'
  <2>1. \A p \in Questions : p > asked => chan'[p] = chan[p]
    BY <1>1, <1>2 DEF AnswerInv, Fresh, TypeOK
  <2> QED
    BY <1>1, <2>1 DEF AnswerInv, Fresh
<1>4. ASSUME NothingCancelled'
      PROVE  NothingCancelled /\ session # 0 /\ Account(session)'
  <2>1. NothingCancelled /\ AloneNow
    BY <1>1, <1>4 DEF WorkInv, NothingCancelled
  <2>2. l = session
    BY <1>1, <2>1 DEF AloneNow
  <2>3. session # 0 /\ Account(session)
    BY <2>1, <2>2 DEF AnswerInv, Questions
  <2> QED
    BY <2>1, <2>2, <2>3, AccountRead
<1> QED
  BY <1>1, <1>3, <1>4 DEF AnswerInv

LEMMA AnswersApply ==
    ASSUME TypeOK, WorkInv, AnswerInv, NEW l \in Questions, ApplyChatEvent(l)
    PROVE  AnswerInv'
<1>1. listener[l].phase = "got" /\ UNCHANGED <<asked, spoken, chan, pc, tool, cancelled>>
  BY DEF ApplyChatEvent, goVars, chanVars
<1>2. Fresh'
  BY <1>1 DEF AnswerInv, Fresh
<1>3. ASSUME NothingCancelled'
      PROVE  /\ turn'.owner # 0 => Written(turn') /\ OneRuns(turn'.steps)
             /\ session' # 0 => Account(session)'
             /\ session' = 0 /\ turn'.owner # 0 => Ended'
  <2>1. NothingCancelled /\ AloneNow
    BY <1>1, <1>3 DEF WorkInv, NothingCancelled
  <2>2. l = session /\ session # 0 /\ session \in Questions
    BY <1>1, <2>1 DEF AloneNow, Questions
  <2> DEFINE e == listener[session].ev
             c == chan[session]
  <2>3. /\ e \in Events /\ turn \in Turns /\ turn.owner = session /\ turn # NoTurn
        /\ listener \in [Questions -> Listeners]
    BY <1>1, <2>2, ListenerTypes, TurnWhileAnswering DEF TypeOK
  <2>4. PICK said \in [0..Len(c) -> 0..spoken[session]], busy \in [0..Len(c) -> SUBSET Tools] :
          /\ Leads(session, c, said, busy, spoken[session], Busy(session))
          /\ Joins(session, listener[session], turn, said[0], busy[0], Len(c))
    BY <2>1, <2>2 DEF AnswerInv, Account
  <2>5. /\ Says(session, e, Len(turn.text), RunningTools(turn.steps), said[0], busy[0])
        /\ Ends(e) => Len(c) = 0
    BY <1>1, <2>2, <2>4 DEF Joins
  <2>6. Written(turn) /\ OneRuns(turn.steps)
    BY <2>1, <2>2, <2>3 DEF AnswerInv
  <2>7. /\ turn' = Fold(turn, e) /\ session' = IF Ends(e) THEN 0 ELSE session
        /\ listener' = [listener EXCEPT ![session] = IF Ends(e) THEN Off ELSE Reading(session)]
    BY <2>2, <2>3 DEF ApplyChatEvent, Rearm, Ends
  <2>8. /\ Len(turn'.text) = said[0] /\ RunningTools(turn'.steps) = busy[0]
        /\ Written(turn') /\ OneRuns(turn'.steps) /\ turn'.owner = session
    <3>1. Says(turn.owner, e, Len(turn.text), RunningTools(turn.steps), said[0], busy[0])
      BY <2>3, <2>5
    <3> HIDE DEF e
    <3>2. e \in Events /\ turn \in Turns
      BY <2>3
    <3>3. /\ Len(Fold(turn, e).text) = said[0] /\ RunningTools(Fold(turn, e).steps) = busy[0]
          /\ Written(Fold(turn, e)) /\ OneRuns(Fold(turn, e).steps)
      BY <2>6, <3>1, <3>2, FoldSays
    <3>4. Fold(turn, e).owner = session
      BY <2>3, <3>2, FoldType
    <3> QED
      BY <2>7, <3>3, <3>4
  <2>9. CASE Ends(e)
    <3>1. said[0] = spoken[session] /\ busy[0] = {}
      BY <2>4, <2>5, <2>9 DEF Leads, Says, Ends
    <3> QED
      BY <1>1, <2>7, <2>8, <2>9, <3>1 DEF Ended
  <2>10. CASE ~Ends(e)
    <3>1. session' = session /\ listener'[session] = Reading(session)
      BY <2>2, <2>3, <2>7, <2>10
    <3>2. Reading(session).phase # "got"
      BY DEF Reading
    <3>3. Joins(session, listener'[session], turn', said[0], busy[0], Len(c))
      BY <2>8, <3>1, <3>2 DEF Joins
    <3>4. Busy(session)' = Busy(session)
      BY <1>1, <3>1 DEF Busy
    <3>5. Account(session)'
      BY <1>1, <2>4, <3>1, <3>3, <3>4 DEF Account
    <3> QED
      BY <2>2, <2>8, <3>1, <3>5
  <2> QED
    BY <2>9, <2>10
<1> QED
  BY <1>2, <1>3 DEF AnswerInv

LEMMA AnswersUntouched ==
    ASSUME AnswerInv, UNCHANGED <<session, turn, asked, pc, spoken, tool, chan, cancelled, listener>>
    PROVE  AnswerInv'
<1>1. session' = session /\ (Account(session) => Account(session)')
  <2>1. Busy(session)' = Busy(session)
    BY DEF Busy
  <2> QED
    BY <2>1 DEF Account
<1> QED
  BY <1>1 DEF AnswerInv, Fresh, Ended, NothingCancelled

LEMMA AnswersUser == TypeOK /\ WorkInv /\ AnswerInv /\ (User \/ Detected) => AnswerInv'
<1> SUFFICES ASSUME TypeOK, WorkInv, AnswerInv, User \/ Detected PROVE AnswerInv'
  OBVIOUS
<1>1. CASE EnterTab \/ LeaveTab \/ RetryEndpoint \/ Insert \/ EscInsert \/ Detected
  BY <1>1, AnswersUntouched DEF EnterTab, LeaveTab, RetryEndpoint, Insert, EscInsert, Detected,
     turnVars, goVars, chanVars
<1>2. CASE Cancel
  <2>1. session \in Questions
    BY <1>2, SessionRange DEF Cancel
  <2>2. ~NothingCancelled'
    BY <1>2, <2>1 DEF Cancel, TypeOK, NothingCancelled
  <2>3. UNCHANGED <<asked, spoken, chan>>
    BY <1>2 DEF Cancel, goVars, chanVars
  <2> QED
    BY <2>2, <2>3 DEF AnswerInv, Fresh
<1>3. CASE ClearTurns
  <2>1. /\ turn' = NoTurn /\ session' = 0
        /\ UNCHANGED <<asked, spoken, chan>>
    BY <1>3 DEF ClearTurns, goVars, chanVars
  <2>2. turn'.owner = 0
    BY <2>1, TurnTypes
  <2> QED
    BY <2>1, <2>2 DEF AnswerInv, Fresh
<1>4. CASE Submit
  <2>1. PICK q \in Questions : q = asked + 1 /\ asked \in Nat /\ q > asked /\ q # 0
    BY <1>4, ConstantTypes DEF Submit, TypeOK, Questions
  <2>2. /\ session' = q /\ asked' = q /\ turn' = NewTurn(q)
        /\ UNCHANGED <<spoken, chan, tool, cancelled>>
    BY <1>4, <2>1 DEF Submit, chanVars
  <2>3. pc'[q] = "streaming" /\ listener'[q] = Reading(q)
    BY <1>4, <2>1 DEF Submit, TypeOK
  <2>4. spoken[q] = 0 /\ chan[q] = <<>>
    BY <2>1 DEF AnswerInv, Fresh
  <2>5. Fresh'
    BY <2>1, <2>2 DEF AnswerInv, Fresh, Questions
  <2>6. turn'.owner = q /\ turn'.text = <<>> /\ turn'.steps = <<>>
    BY <2>2 DEF NewTurn, NoTurn
  <2>7. RunningTools(turn'.steps) = {} /\ OneRuns(turn'.steps) /\ Written(turn')
    BY <2>6 DEF RunningTools, OneRuns, Written
  <2>8. Account(q)'
    <3> DEFINE said == [i \in 0..0 |-> 0]
               busy == [i \in 0..0 |-> {}]
    <3>1. said \in [0..0 -> 0..0] /\ busy \in [0..0 -> SUBSET Tools] /\ said[0] = 0 /\ busy[0] = {}
      OBVIOUS
    <3> HIDE DEF said, busy
    <3>2. /\ chan'[q] = <<>> /\ Len(chan'[q]) = 0 /\ Len(turn'.text) = 0
          /\ spoken'[q] = 0 /\ Busy(q)' = {}
      BY <2>2, <2>3, <2>4, <2>6 DEF Busy
    <3>3. Leads(q, chan'[q], said, busy, 0, {})
      BY <3>1, <3>2 DEF Leads
    <3>4. Joins(q, listener'[q], turn', said[0], busy[0], 0)
      BY <2>3, <2>7, <3>1, <3>2 DEF Joins, Reading
    <3> QED
      BY <3>1, <3>2, <3>3, <3>4 DEF Account
  <2> QED
    BY <2>1, <2>2, <2>5, <2>7, <2>8 DEF AnswerInv
<1> QED
  BY <1>1, <1>2, <1>3, <1>4 DEF User

LEMMA AnswersInit == Init => AnswerInv
<1>1. NoTurn.owner = 0
  BY TurnTypes
<1> QED
  BY <1>1 DEF Init, AnswerInv, Fresh

LEMMA AnswersStep == TypeOK /\ WorkInv /\ AnswerInv /\ [Next]_vars => AnswerInv'
<1> SUFFICES ASSUME TypeOK, WorkInv, AnswerInv, [Next]_vars PROVE AnswerInv'
  OBVIOUS
<1>1. CASE UNCHANGED vars
  BY <1>1, AnswersUntouched DEF vars, turnVars, goVars, chanVars
<1> QED
  BY <1>1, AnswersUser, AnswersAnswer, AnswersRead, AnswersApply DEF Next

(* Until something is cancelled, the turn on screen is a prefix of what its
   goroutine has said, all of it once the response has ended, and then no tool
   is shown as running: nothing is lost in a full channel, overtaken by
   another event, or taken from another question's channel. *)
THEOREM ChatAnswersInOrder == Spec => []AnswerInOrder
<1>1. TypeOK /\ AnswerInv => AnswerInOrder
  <2> SUFFICES ASSUME TypeOK, AnswerInv, NothingCancelled, turn.owner # 0
               PROVE  /\ Len(turn.text) <= spoken[turn.owner]
                      /\ \A i \in DOMAIN turn.text : turn.text[i] = [of |-> turn.owner, n |-> i]
                      /\ ~turn.streaming =>
                            /\ Len(turn.text) = spoken[turn.owner]
                            /\ \A i \in DOMAIN turn.steps : ~turn.steps[i].running
    BY DEF AnswerInOrder
  <2> DEFINE q == turn.owner
  <2>1. q \in Questions /\ spoken[q] \in Nat /\ Len(turn.text) \in Nat
    <3>1. q \in 0..MaxQuestions /\ turn.text \in Seq([of : Questions, n : Nat \ {0}])
      BY DEF TypeOK, Turns
    <3> QED
      BY <3>1, ConstantTypes, SMTT(40) DEF TypeOK, Questions
  <2>2. CASE session = 0
    <3>1. Ended
      BY <2>2 DEF AnswerInv
    <3>2. \A i \in DOMAIN turn.steps : ~turn.steps[i].running
      BY <3>1 DEF Ended, RunningTools
    <3> QED
      BY <2>1, <3>1, <3>2 DEF Ended, AnswerInv, Written
  <2>3. CASE session # 0
    <3>1. q = session /\ turn.streaming
      BY <2>3 DEF TypeOK
    <3>2. PICK said \in [0..Len(chan[q]) -> 0..spoken[q]], busy \in [0..Len(chan[q]) -> SUBSET Tools] :
            Joins(q, listener[q], turn, said[0], busy[0], Len(chan[q]))
      BY <2>3, <3>1 DEF AnswerInv, Account
    <3>3. said[0] \in 0..spoken[q]
      <4>1. Len(chan[q]) \in Nat
        BY <2>1 DEF TypeOK
      <4> QED
        BY <4>1
    <3>4. said[0] = Len(turn.text) \/ said[0] = Len(turn.text) + 1
      BY <3>2 DEF Joins, Says
    <3> QED
      BY <2>1, <3>1, <3>3, <3>4 DEF AnswerInv, Written
  <2> QED
    BY <2>2, <2>3
<1> QED
  BY <1>1, TypeInit, TypeStep, WorkInit, WorkStep, AnswersInit, AnswersStep, PTL DEF Spec

-----------------------------------------------------------------------------

(* A set of numbers that holds 0, and with a number the next, holds all. *)
LEMMA Induction ==
    ASSUME NEW S \in SUBSET Nat, 0 \in S, \A n \in S : n + 1 \in S
    PROVE  S = Nat
<1> DEFINE T == Nat \ S
           R == OpToRel(<, Nat)
<1>1. SUFFICES ASSUME T # {} PROVE FALSE
    OBVIOUS
<1>2. IsWellFoundedOn(R, Nat) /\ T \subseteq Nat
    BY NatLessThanWellFounded
<1> HIDE DEF R
<1>3. PICK x \in T : \A y \in T : ~(<<y, x>> \in R)
  <2> HIDE DEF T
  <2> QED
    BY <1>1, <1>2, WFMin
<1>4. x \in Nat /\ x # 0 /\ x - 1 \in Nat /\ x - 1 < x
    BY <1>3
<1>5. <<x - 1, x>> \in R
    BY <1>4 DEF R, OpToRel
<1>6. x - 1 \in S
    BY <1>3, <1>4, <1>5
<1> QED
    BY <1>3, <1>4, <1>6

(* What holds at the start and from each place to the next. *)
LEMMA Upward ==
    ASSUME NEW n \in Nat, NEW S, 0 \in S, \A i \in 1..n : i - 1 \in S => i \in S
    PROVE  0..n \subseteq S
<1> DEFINE T == {i \in Nat : i <= n => i \in S}
<1>1. T \in SUBSET Nat /\ 0 \in T
    OBVIOUS
<1>2. ASSUME NEW i \in T PROVE i + 1 \in T
  <2>1. SUFFICES ASSUME i + 1 <= n PROVE i + 1 \in S
      OBVIOUS
  <2>2. i + 1 \in 1..n /\ (i + 1) - 1 = i /\ i \in S
      BY <2>1
  <2> QED
      BY <2>2
<1> HIDE DEF T
<1>3. T = Nat
    BY <1>1, <1>2, Induction
<1> QED
    BY <1>3 DEF T

(* A nonempty set of numbers has a least one. *)
LEMMA Least ==
    ASSUME NEW S \in SUBSET Nat, S # {}
    PROVE  \E n \in S : \A m \in S : n <= m
<1> DEFINE R == OpToRel(<, Nat)
<1>1. IsWellFoundedOn(R, Nat)
    BY NatLessThanWellFounded
<1> HIDE DEF R
<1>2. PICK x \in S : \A y \in S : ~(<<y, x>> \in R)
    BY <1>1, WFMin
<1>3. \A y \in S : ~(y < x)
    BY <1>2 DEF R, OpToRel
<1> QED
    BY <1>2, <1>3

Follows(g, n, D, base, step) ==
    /\ g \in [0..n -> D]
    /\ g[0] = base
    /\ \A i \in 1..n : g[i] = step[i][g[i - 1]]

(* A function defined from each place of a list to the next exists. *)
LEMMA Recursion ==
    ASSUME NEW n \in Nat, NEW D, NEW base \in D, NEW step \in [1..n -> [D -> D]]
    PROVE  \E g : Follows(g, n, D, base, step)
<1> DEFINE Starts(g, m) ==
               g[0] = base /\ \A i \in 1..m : g[i] = step[i][g[i - 1]]
           S == {m \in Nat : m <= n => \E g \in [0..m -> D] : Starts(g, m)}
<1>1. S \in SUBSET Nat
    OBVIOUS
<1>2. 0 \in S
  <2> DEFINE g == [i \in 0..0 |-> base]
  <2>1. g \in [0..0 -> D] /\ Starts(g, 0)
      OBVIOUS
  <2> QED
      BY <2>1
<1>3. \A m \in S : m + 1 \in S
  <2> TAKE m \in S
  <2>1. SUFFICES ASSUME m + 1 <= n
                 PROVE  \E h \in [0..(m + 1) -> D] : Starts(h, m + 1)
    <3> HIDE DEF Starts
    <3> QED
        OBVIOUS
  <2>2. PICK g \in [0..m -> D] : Starts(g, m)
      BY <2>1
  <2> DEFINE h == [i \in 0..(m + 1) |-> IF i = m + 1 THEN step[m + 1][g[m]] ELSE g[i]]
  <2>3. m \in 0..m /\ g[m] \in D /\ m + 1 \in 1..n
      BY <2>1, <2>2
  <2>4. step[m + 1] \in [D -> D]
      BY <2>3
  <2>5. step[m + 1][g[m]] \in D
      BY <2>3, <2>4
  <2>6. h \in [0..(m + 1) -> D]
      BY <2>5
  <2>7. h[0] = base
      BY <2>2
  <2>8. ASSUME NEW i \in 1..(m + 1) PROVE h[i] = step[i][h[i - 1]]
    <3>1. CASE i = m + 1
      <4>1. h[i] = step[m + 1][g[m]] /\ h[i - 1] = g[m]
          BY <3>1
      <4> QED
          BY <3>1, <4>1
    <3>2. CASE i # m + 1
      <4>1. i \in 1..m /\ i \in 0..(m + 1) /\ i - 1 \in 0..(m + 1) /\ i - 1 # m + 1
          BY <3>2
      <4>2. h[i] = g[i] /\ h[i - 1] = g[i - 1]
          BY <3>2, <4>1
      <4> QED
          BY <2>2, <4>1, <4>2
    <3> QED
        BY <3>1, <3>2
  <2> HIDE DEF h
  <2>9. Starts(h, m + 1)
      BY <2>7, <2>8
  <2> QED
      BY <2>6, <2>9
<1> HIDE DEF S
<1>4. S = Nat
    BY <1>1, <1>2, <1>3, Induction
<1>5. n \in S
    BY <1>4
<1> QED
    BY <1>5 DEF S, Follows

-----------------------------------------------------------------------------
(* Texts and their sizes. *)

(* Words have lengths; the possessive's are one each. *)
LEMMA WordsTypes ==
    /\ " " \notin {"'", "s"}
    /\ Suffix \in Texts /\ Len(Suffix) = 2 /\ Suffix[1] = "'" /\ Suffix[2] = "s"
    /\ <<>> \in Texts
    /\ \A w \in Words : LengthOf[w] \in Nat /\ LengthOf[w] > 0
  BY WordsAssumption DEF Suffix, Texts

Sums(text, sum) ==
    /\ sum \in [0..Len(text) -> Nat]
    /\ sum[0] = 0
    /\ \A i \in 1..Len(text) : sum[i] = sum[i - 1] + LengthOf[text[i]]

(* Size adds up the lengths of the words from the left. *)
LEMMA SizeIsSum ==
    ASSUME NEW text \in Texts
    PROVE  \E sum : Sums(text, sum) /\ Size(text) = sum[Len(text)]
<1> DEFINE n == Len(text)
           step == [i \in 1..n |-> [d \in Nat |-> d + LengthOf[text[i]]]]
           sum == CHOOSE g : g = [i \in 0..n |->
                      IF i = 0 THEN 0 ELSE g[i - 1] + LengthOf[text[i]]]
<1>1. n \in Nat /\ \A i \in 1..n : LengthOf[text[i]] \in Nat
    BY WordsTypes DEF Texts
<1>2. step \in [1..n -> [Nat -> Nat]]
    BY <1>1
<1> HIDE DEF step, n, sum
<1>3. PICK g : Follows(g, n, Nat, 0, step)
    BY <1>1, <1>2, Recursion
<1>4. g = [i \in 0..n |-> IF i = 0 THEN 0 ELSE g[i - 1] + LengthOf[text[i]]]
  <2>1. ASSUME NEW i \in 1..n PROVE g[i] = g[i - 1] + LengthOf[text[i]]
    <3>1. i - 1 \in 0..n /\ g[i - 1] \in Nat
        BY <1>1, <1>3 DEF Follows
    <3> QED
        BY <1>3, <3>1 DEF step, Follows
  <2> QED
      BY <1>1, <1>3, <2>1 DEF Follows
<1>5. sum = [i \in 0..n |-> IF i = 0 THEN 0 ELSE sum[i - 1] + LengthOf[text[i]]]
    BY <1>4 DEF sum
<1>6. Size(text) = sum[n]
    BY DEF Size, sum, n
<1>7. sum[0] = 0 /\ \A i \in 1..n : sum[i] = sum[i - 1] + LengthOf[text[i]]
    BY <1>1, <1>5
<1>8. 0..n \subseteq {i \in 0..n : sum[i] \in Nat}
  <2> DEFINE S == {i \in 0..n : sum[i] \in Nat}
  <2>1. 0 \in S
      BY <1>1, <1>7
  <2>2. ASSUME NEW i \in 1..n, i - 1 \in S PROVE i \in S
    <3>1. sum[i - 1] \in Nat /\ LengthOf[text[i]] \in Nat /\ i \in 0..n
        BY <1>1, <2>2
    <3> QED
        BY <1>7, <3>1
  <2> HIDE DEF S
  <2>3. 0..n \subseteq S
      BY <1>1, <2>1, <2>2, Upward
  <2> QED
      BY <2>3 DEF S
<1>9. sum \in [0..n -> Nat]
    BY <1>5, <1>8
<1> QED
    BY <1>6, <1>7, <1>9 DEF Sums, n

(* The sums of a text are those of its parts. *)
LEMMA SizeOfPart ==
    ASSUME NEW text \in Texts, NEW sum, Sums(text, sum),
           NEW a \in 1..Len(text) + 1, NEW b \in 0..Len(text), a <= b + 1
    PROVE  Size(SubSeq(text, a, b)) = sum[b] - sum[a - 1]
<1> DEFINE part == SubSeq(text, a, b)
           n == b - a + 1
<1>1. /\ part \in Texts /\ Len(part) = n /\ n \in Nat
      /\ \A i \in 1..n : part[i] = text[i + a - 1]
    BY DEF Texts
<1> HIDE DEF part, n
<1>2. PICK sub : Sums(part, sub) /\ Size(part) = sub[Len(part)]
    BY <1>1, SizeIsSum
<1> DEFINE S == {i \in 0..n : sub[i] = sum[i + a - 1] - sum[a - 1]}
<1>3. 0 \in S
  <2>1. 0 + a - 1 = a - 1 /\ a - 1 \in 0..Len(text)
      BY DEF Texts
  <2>2. sum[a - 1] \in Nat
      BY <2>1 DEF Sums
  <2> QED
      BY <1>1, <1>2, <2>1, <2>2 DEF Sums
<1>4. ASSUME NEW i \in 1..n, i - 1 \in S PROVE i \in S
  <2>1. /\ i + a - 1 \in 1..Len(text) /\ (i + a - 1) - 1 \in 0..Len(text)
        /\ (i - 1) + a - 1 = (i + a - 1) - 1 /\ a - 1 \in 0..Len(text)
      BY <1>1 DEF n, Texts
  <2>2. sum[i + a - 1] = sum[(i + a - 1) - 1] + LengthOf[text[i + a - 1]]
      BY <2>1 DEF Sums
  <2>3. sub[i] = sub[i - 1] + LengthOf[part[i]] /\ part[i] = text[i + a - 1]
      BY <1>1, <1>2 DEF Sums
  <2>4. sub[i - 1] = sum[(i + a - 1) - 1] - sum[a - 1]
      BY <1>4, <2>1
  <2>5. sum[(i + a - 1) - 1] \in Nat /\ sum[a - 1] \in Nat
      BY <2>1 DEF Sums
  <2>6. LengthOf[part[i]] \in Nat
      BY <1>1, WordsTypes DEF Texts
  <2> QED
      BY <2>2, <2>3, <2>4, <2>5, <2>6
<1> HIDE DEF S
<1>5. 0..n \subseteq S
    BY <1>1, <1>3, <1>4, Upward
<1>6. sub[n] = sum[n + a - 1] - sum[a - 1] /\ n + a - 1 = b
    BY <1>1, <1>5 DEF S, n
<1> QED
    BY <1>1, <1>2, <1>6 DEF part

(* Every word adds to the sum. *)
LEMMA SumsGrow ==
    ASSUME NEW text \in Texts, NEW sum, Sums(text, sum),
           NEW a \in 0..Len(text), NEW b \in 0..Len(text), a < b
    PROVE  sum[a] < sum[b]
<1> DEFINE n == b - a - 1
           S == {i \in 0..n : sum[a] < sum[a + 1 + i]}
<1>1. n \in Nat
    BY DEF Texts
<1>2. 0 \in S
  <2>1. a + 1 \in 1..Len(text) /\ (a + 1) - 1 = a /\ a + 1 + 0 = a + 1
      BY DEF Texts
  <2>2. sum[a + 1] = sum[a] + LengthOf[text[a + 1]]
      BY <2>1 DEF Sums
  <2>3. LengthOf[text[a + 1]] \in Nat /\ LengthOf[text[a + 1]] > 0
      BY <2>1, WordsTypes DEF Texts
  <2>4. sum[a] \in Nat
      BY DEF Sums
  <2> QED
      BY <1>1, <2>1, <2>2, <2>3, <2>4
<1>3. ASSUME NEW i \in 1..n, i - 1 \in S PROVE i \in S
  <2>1. a + 1 + i \in 1..Len(text) /\ (a + 1 + i) - 1 = a + 1 + (i - 1)
      BY <1>1 DEF Texts
  <2>2. sum[a + 1 + i] = sum[a + 1 + (i - 1)] + LengthOf[text[a + 1 + i]]
      BY <2>1 DEF Sums
  <2>3. LengthOf[text[a + 1 + i]] \in Nat
      BY <2>1, WordsTypes DEF Texts
  <2>4. sum[a + 1 + (i - 1)] \in Nat /\ sum[a] \in Nat
    <3>1. a + 1 + (i - 1) \in 0..Len(text)
        BY <1>1, <2>1 DEF Texts
    <3> QED
        BY <3>1 DEF Sums
  <2>5. sum[a] < sum[a + 1 + (i - 1)]
      BY <1>3
  <2> QED
      BY <2>2, <2>3, <2>4, <2>5
<1>4. 0..n \subseteq S
  <2> HIDE DEF S, n
  <2> QED
      BY <1>1, <1>2, <1>3, Upward
<1>5. n \in 0..n /\ a + 1 + n = b
    BY <1>1 DEF Texts
<1> QED
    BY <1>4, <1>5

(* A part of a text is shorter, unless it is the text. *)
LEMMA PartsAreShorter ==
    ASSUME NEW text \in Texts,
           NEW a \in 1..Len(text) + 1, NEW b \in 0..Len(text), a <= b + 1
    PROVE  /\ SubSeq(text, a, b) \in Texts
           /\ Size(text) \in Nat /\ Size(SubSeq(text, a, b)) \in Nat
           /\ Size(SubSeq(text, a, b)) <= Size(text)
           /\ SubSeq(text, a, b) # text => Size(SubSeq(text, a, b)) < Size(text)
<1>1. PICK sum : Sums(text, sum) /\ Size(text) = sum[Len(text)]
    BY SizeIsSum
<1>2. Size(SubSeq(text, a, b)) = sum[b] - sum[a - 1]
    BY <1>1, SizeOfPart
<1>3. /\ Len(text) \in Nat /\ SubSeq(text, a, b) \in Texts
      /\ a - 1 \in 0..Len(text) /\ Len(text) \in 0..Len(text)
    BY DEF Texts
<1>4. sum[b] \in Nat /\ sum[a - 1] \in Nat /\ sum[Len(text)] \in Nat /\ sum[0] = 0
    BY <1>1, <1>3 DEF Sums
<1>5. sum[b] <= sum[Len(text)] /\ (b # Len(text) => sum[b] < sum[Len(text)])
    BY <1>1, <1>3, <1>4, SumsGrow
<1>6. a # 1 => sum[0] < sum[a - 1]
    BY <1>1, <1>3, SumsGrow
<1>7. sum[a - 1] <= sum[b]
    BY <1>1, <1>3, <1>4, SumsGrow
<1>8. SubSeq(text, a, b) # text => a # 1 \/ b # Len(text)
    BY DEF Texts
<1> QED
    BY <1>1, <1>2, <1>3, <1>4, <1>5, <1>6, <1>7, <1>8

(* A size is a number, and a long value is not empty. *)
LEMMA SizeTypes == \A text \in Texts : Size(text) \in Nat /\ (Long(text) => text # <<>>)
<1> TAKE text \in Texts
<1>1. PICK sum : Sums(text, sum) /\ Size(text) = sum[Len(text)]
    BY SizeIsSum
<1> QED
    BY <1>1 DEF Sums, Long, Texts

(* A word and its possessive. *)
LEMMA Possessives ==
    ASSUME NEW text \in Texts
    PROVE  /\ text \o Suffix \in Texts
           /\ Long(text) => Long(text \o Suffix)
<1> DEFINE longer == text \o Suffix
<1>1. text \in Seq(Words) /\ Suffix \in Seq(Words) /\ Len(Suffix) = 2
    BY WordsTypes DEF Texts
<1>2. longer \in Texts /\ Len(longer) = Len(text) + 2 /\ Len(text) \in Nat
  <2>1. longer \in Seq(Words) /\ Len(longer) = Len(text) + Len(Suffix)
      BY <1>1, ConcatProperties
  <2> QED
      BY <1>1, <2>1 DEF Texts
<1>3. SubSeq(longer, 1, Len(text)) = text
    BY <1>1
<1> HIDE DEF longer
<1>4. Size(text) <= Size(longer) /\ Size(text) \in Nat /\ Size(longer) \in Nat
  <2>1. 1 \in 1..Len(longer) + 1 /\ Len(text) \in 0..Len(longer) /\ 1 <= Len(text) + 1
      BY <1>2
  <2> QED
      BY <1>2, <1>3, <2>1, PartsAreShorter
<1> QED
    BY <1>2, <1>4 DEF Long, longer

-----------------------------------------------------------------------------
(* Replacing a value in a text. *)

OccursAt(text, value, i) ==
    /\ i + Len(value) - 1 <= Len(text)
    /\ SubSeq(text, i, i + Len(value) - 1) = value

OnlyAt(text, value, p) == \A i \in 1..Len(text) : OccursAt(text, value, i) <=> i = p + 1
Occurs(text, value) == \E i \in 1..Len(text) : OccursAt(text, value, i)

LEMMA Joined ==
    ASSUME NEW S, NEW r \in Seq(S), NEW s \in Seq(S), NEW t \in Seq(S)
    PROVE  /\ r \o s \in Seq(S) /\ Len(r \o s) = Len(r) + Len(s)
           /\ (r \o s) \o t = r \o (s \o t)
           /\ <<>> \o t = t /\ t \o <<>> = t
  OBVIOUS

LEMMA PartBegins ==
    ASSUME NEW S, NEW text \in Seq(S), NEW i \in Nat, NEW n \in Nat,
           1 <= i, i <= n, n <= Len(text)
    PROVE  /\ <<text[i]>> \in Seq(S) /\ SubSeq(text, i + 1, n) \in Seq(S)
           /\ SubSeq(text, i, n) = <<text[i]>> \o SubSeq(text, i + 1, n)
  OBVIOUS

Before(text, i, n, tail) == SubSeq(text, i, n) \o tail

LEMMA PartBeginsJoined ==
    ASSUME NEW S, NEW text \in Seq(S), NEW i \in Nat, NEW n \in Nat,
           1 <= i, i <= n, n <= Len(text),
           NEW tail \in Seq(S)
    PROVE  Before(text, i, n, tail) = <<text[i]>> \o Before(text, i + 1, n, tail)
<1> DEFINE head == <<text[i]>>
           rest == SubSeq(text, i + 1, n)
<1>1. head \in Seq(S) /\ rest \in Seq(S)
    BY PartBegins
<1>2. SubSeq(text, i, n) = head \o rest
    BY PartBegins
<1>3. (head \o rest) \o tail = head \o (rest \o tail)
  <2> HIDE DEF head, rest
  <2> QED
      BY <1>1, Joined, SMTT(30)
<1> QED
    BY <1>2, <1>3 DEF Before

(* What Replaced makes of the text from i on. *)
Rest(rest, text, value, token, i) ==
    IF i > Len(text) THEN <<>>
    ELSE IF OccursAt(text, value, i)
         THEN token \o rest[(i + Len(value) - 1) + 1]
         ELSE <<text[i]>> \o rest[i + 1]

(* Replaced is the function that its recursive equation defines. *)
LEMMA ReplacedIs ==
    ASSUME NEW text, NEW value, NEW token, Len(text) \in Nat, Len(value) \in Nat \ {0},
           NEW g, g = [i \in 1..Len(text) + 1 |-> Rest(g, text, value, token, i)]
    PROVE  Replaced(text, value, token) = g[1]
<1> DEFINE n == Len(text)
           f == CHOOSE h : h = [i \in 1..n + 1 |-> Rest(h, text, value, token, i)]
           D == {d \in 0..n : f[n + 1 - d] # g[n + 1 - d]}
<1>1. Replaced(text, value, token) = f[1]
    BY DEF Replaced, Rest, OccursAt
<1>2. f = [i \in 1..n + 1 |-> Rest(f, text, value, token, i)]
  <2> HIDE DEF Rest
  <2> QED
      OBVIOUS
<1> HIDE DEF f
<1>3. ASSUME D # {} PROVE FALSE
  <2>1. PICK d \in D : \A e \in D : d <= e
    <3>1. D \in SUBSET Nat
        OBVIOUS
    <3> HIDE DEF D
    <3> QED
        BY <1>3, <3>1, Least
  <2> DEFINE i == n + 1 - d
  <2>2. i \in 1..n + 1 /\ f[i] # g[i]
      BY <2>1
  <2>3. ASSUME NEW j \in i + 1..n + 1 PROVE f[j] = g[j]
    <3>1. n + 1 - j \in 0..n /\ n + 1 - j < d /\ n + 1 - (n + 1 - j) = j
        BY <2>1
    <3> QED
        BY <2>1, <3>1
  <2> HIDE DEF i
  <2>4. Rest(f, text, value, token, i) = Rest(g, text, value, token, i)
    <3>1. CASE i > n
        BY <3>1 DEF Rest
    <3>2. CASE i <= n /\ OccursAt(text, value, i)
      <4>1. (i + Len(value) - 1) + 1 \in i + 1..n + 1
          BY <2>2, <3>2 DEF OccursAt
      <4>2. f[(i + Len(value) - 1) + 1] = g[(i + Len(value) - 1) + 1]
          BY <2>3, <4>1
      <4> QED
          BY <2>2, <3>2, <4>2 DEF Rest
    <3>3. CASE i <= n /\ ~OccursAt(text, value, i)
      <4>1. f[i + 1] = g[i + 1]
          BY <2>2, <2>3, <3>3
      <4> QED
          BY <2>2, <3>3, <4>1 DEF Rest
    <3> QED
        BY <2>2, <3>1, <3>2, <3>3
  <2> QED
      BY <1>2, <2>2, <2>4
<1>4. f[1] = g[1]
  <2>1. n \in 0..n /\ n + 1 - n = 1
      OBVIOUS
  <2> QED
      BY <1>3, <2>1
<1> QED
    BY <1>1, <1>4

(* A text in which the value does not occur stays. *)
LEMMA NothingReplaced ==
    ASSUME NEW S, NEW text \in Seq(S), NEW value, Len(value) \in Nat \ {0}, NEW token,
           ~Occurs(text, value)
    PROVE  Replaced(text, value, token) = text
<1> DEFINE n == Len(text)
           g == [i \in 1..n + 1 |-> SubSeq(text, i, n)]
<1>1. n \in Nat /\ text = SubSeq(text, 1, n)
    OBVIOUS
<1>2. ASSUME NEW i \in 1..n + 1 PROVE g[i] = Rest(g, text, value, token, i)
  <2>1. CASE i > n
      BY <2>1 DEF Rest
  <2>2. CASE i <= n
    <3>1. ~OccursAt(text, value, i) /\ i + 1 \in 1..n + 1
        BY <2>2 DEF Occurs
    <3>2. SubSeq(text, i, n) = <<text[i]>> \o SubSeq(text, i + 1, n)
        BY <2>2, PartBegins
    <3> QED
        BY <2>2, <3>1, <3>2 DEF Rest
  <2> QED
      BY <2>1, <2>2
<1>3. g = [i \in 1..n + 1 |-> Rest(g, text, value, token, i)]
    BY <1>2
<1>4. g[1] = text
    BY <1>1
<1> HIDE DEF g
<1> QED
    BY <1>1, <1>3, <1>4, ReplacedIs

(* The text with token for the m characters behind the first p. *)
Spliced(text, token, p, m) ==
    SubSeq(text, 1, p) \o (token \o SubSeq(text, p + m + 1, Len(text)))

(* A text in which the value occurs at one place has the token there. *)
LEMMA OneReplaced ==
    ASSUME NEW S, NEW text \in Seq(S), NEW n, n = Len(text),
           NEW value \in Seq(S), NEW m, m = Len(value), value # <<>>, NEW token \in Seq(S),
           NEW p \in Nat, p + m <= n,
           OnlyAt(text, value, p)
    PROVE  Replaced(text, value, token) = Spliced(text, token, p, m)
<1> DEFINE after == SubSeq(text, p + m + 1, n)
           tail == token \o after
           g == [i \in 1..n + 1 |->
                    IF i <= p + 1 THEN Before(text, i, p, tail) ELSE SubSeq(text, i, n)]
<1>1. n \in Nat /\ m \in Nat \ {0} /\ after \in Seq(S)
    OBVIOUS
<1>2. tail \in Seq(S) /\ <<>> \o tail = tail
  <2> HIDE DEF after
  <2> QED
      BY <1>1, Joined
<1>3. after = SubSeq(text, p + m + 1, n) /\ tail = token \o after
    OBVIOUS
<1> HIDE DEF tail, after
<1>4. /\ \A i \in 1..p + 1 : g[i] = Before(text, i, p, tail)
      /\ \A i \in p + 2..n + 1 : g[i] = SubSeq(text, i, n)
    BY <1>1
<1>5. ASSUME NEW i \in 1..n + 1 PROVE g[i] = Rest(g, text, value, token, i)
  <2> HIDE DEF g
  <2>1. CASE i <= p
    <3>1. /\ i <= n /\ ~OccursAt(text, value, i) /\ i \in Nat /\ 1 <= i /\ p <= Len(text)
          /\ i \in 1..p + 1 /\ i + 1 \in 1..p + 1
        BY <1>1, <2>1 DEF OnlyAt
    <3>2. Before(text, i, p, tail) = <<text[i]>> \o Before(text, i + 1, p, tail)
      <4>1. i \in Nat /\ 1 <= i /\ i <= p /\ p <= Len(text) /\ tail \in Seq(S)
          BY <1>2, <2>1, <3>1
      <4> QED
          BY <4>1, PartBeginsJoined, ZenonT(60)
    <3>3. g[i] = Before(text, i, p, tail) /\ g[i + 1] = Before(text, i + 1, p, tail)
        BY <1>4, <3>1
    <3>4. Rest(g, text, value, token, i) = <<text[i]>> \o g[i + 1]
        BY <1>1, <3>1 DEF Rest
    <3> QED
        BY <3>2, <3>3, <3>4
  <2>2. CASE i = p + 1
    <3>1. /\ i <= n /\ OccursAt(text, value, i) /\ (i + m - 1) + 1 = p + m + 1
          /\ p + m + 1 \in p + 2..n + 1 /\ i \in 1..p + 1
        BY <1>1, <2>2 DEF OnlyAt
    <3>2. g[p + m + 1] = after
        BY <1>3, <1>4, <3>1
    <3>3. SubSeq(text, i, p) = <<>>
        BY <1>1, <2>2
    <3>4. g[i] = tail
        BY <1>2, <1>4, <3>1, <3>3 DEF Before
    <3>5. Rest(g, text, value, token, i) = token \o g[p + m + 1]
      <4>1. ~(i > Len(text)) /\ OccursAt(text, value, i)
          BY <1>1, <3>1
      <4>2. (i + Len(value) - 1) + 1 = p + m + 1
          BY <1>1, <3>1
      <4>3. Rest(g, text, value, token, i) = token \o g[(i + Len(value) - 1) + 1]
          BY <4>1 DEF Rest
      <4> QED
          BY <4>2, <4>3
    <3> QED
        BY <1>3, <3>2, <3>4, <3>5
  <2>3. CASE i > p + 1 /\ i <= n
    <3>1. /\ ~OccursAt(text, value, i) /\ i \in Nat /\ 1 <= i /\ i <= n
          /\ i \in p + 2..n + 1 /\ i + 1 \in p + 2..n + 1
        BY <1>1, <2>3 DEF OnlyAt
    <3>2. SubSeq(text, i, n) = <<text[i]>> \o SubSeq(text, i + 1, n)
      <4>1. i \in Nat /\ n \in Nat /\ 1 <= i /\ i <= n /\ n <= Len(text)
          BY <1>1, <3>1
      <4> QED
          BY <4>1, PartBegins
    <3>3. g[i] = SubSeq(text, i, n) /\ g[i + 1] = SubSeq(text, i + 1, n)
        BY <1>4, <3>1
    <3>4. Rest(g, text, value, token, i) = <<text[i]>> \o g[i + 1]
        BY <1>1, <2>3, <3>1 DEF Rest
    <3> QED
        BY <3>2, <3>3, <3>4
  <2>4. CASE i = n + 1
    <3>1. i > n /\ i \in p + 2..n + 1
        BY <1>1, <2>4
    <3>2. SubSeq(text, i, n) = <<>>
        BY <1>1, <2>4
    <3> QED
      <4>1. i > Len(text)
          BY <1>1, <3>1
      <4>2. g[i] = SubSeq(text, i, n)
          BY <1>4, <3>1
      <4>3. Rest(g, text, value, token, i) = <<>>
          BY <4>1 DEF Rest
      <4> QED
          BY <3>2, <4>2, <4>3
  <2>5. i <= p \/ i = p + 1 \/ (i > p + 1 /\ i <= n) \/ i = n + 1
      BY <1>1, SMTT(60)
  <2> QED
      BY <2>1, <2>2, <2>3, <2>4, <2>5
<1>6. g = [i \in 1..Len(text) + 1 |-> Rest(g, text, value, token, i)]
    BY <1>5
<1> HIDE DEF g
<1>7. g[1] = Before(text, 1, p, tail)
  <2>1. 1 \in 1..p + 1
      OBVIOUS
  <2> QED
      BY <1>4, <2>1
<1>8. Replaced(text, value, token) = g[1]
    BY <1>1, <1>6, ReplacedIs, SMTT(60)
<1> QED
    BY <1>3, <1>7, <1>8 DEF Before, Spliced

-----------------------------------------------------------------------------
(* Registration. *)

Everyone == UNION {ToSet(people) : people \in Indexes}
SaidOf(p) == Called(p) \cup ToSet(p.handles)
Said == UNION {SaidOf(p) : p \in Everyone}

(* What is registered for the token n. *)
IsEntry(r, n) ==
    \E x \in Said : \/ r = [value |-> x, token |-> TokenText(n)]
                    \/ r = [value |-> x \o Suffix, token |-> TokenText(n) \o Suffix]

(* What texts are made of, before and after redaction. *)
Glyphs == Words \cup STRING \cup {"CONTACT_", "'", "s"}

Entries == [value : Texts, token : Seq(Glyphs)]
Vaults == [byValue : UNION {[S -> Numbers] : S \in SUBSET Texts},
           byToken : UNION {[S -> Texts] : S \in SUBSET Numbers},
           replacer : Seq(Entries)]

Sound(v) ==
    LET entries == ToSet(v.replacer) IN
      /\ v \in Vaults
      /\ DOMAIN v.byValue = {r.value : r \in entries}
      /\ \A x \in DOMAIN v.byValue : v.byValue[x] \in DOMAIN v.byToken
      /\ \A r \in entries : Long(r.value) /\ \E n \in DOMAIN v.byToken : IsEntry(r, n)
      /\ \A r, s \in entries : r.value = s.value => r = s

(* v has all that u has, and the tokens of u keep their names. *)
Extends(u, v) ==
    /\ DOMAIN u.byToken \subseteq DOMAIN v.byToken
    /\ \A n \in DOMAIN u.byToken : v.byToken[n] = u.byToken[n]
    /\ ToSet(u.replacer) \subseteq ToSet(v.replacer)

Grows(u, v) == Sound(v) /\ Extends(u, v) /\ v.byToken = u.byToken

(* What it means to be one of Vaults, field by field. *)
LEMMA VaultTypes ==
    ASSUME NEW v \in Vaults
    PROVE  /\ v = [byValue |-> v.byValue, byToken |-> v.byToken, replacer |-> v.replacer]
           /\ DOMAIN v.byValue \subseteq Texts /\ DOMAIN v.byToken \subseteq Numbers
           /\ v.byValue = [x \in DOMAIN v.byValue |-> v.byValue[x]]
           /\ v.byToken = [n \in DOMAIN v.byToken |-> v.byToken[n]]
           /\ \A x \in DOMAIN v.byValue : v.byValue[x] \in Numbers
           /\ \A n \in DOMAIN v.byToken : v.byToken[n] \in Texts
           /\ v.replacer \in Seq(Entries)
<1>1. PICK S \in SUBSET Texts : v.byValue \in [S -> Numbers]
    BY DEF Vaults
<1>2. PICK T \in SUBSET Numbers : v.byToken \in [T -> Texts]
    BY DEF Vaults
<1> QED
    BY <1>1, <1>2 DEF Vaults

LEMMA IsVault ==
    ASSUME NEW byValue, NEW byToken, NEW replacer \in Seq(Entries),
           NEW S \in SUBSET Texts, byValue \in [S -> Numbers],
           NEW T \in SUBSET Numbers, byToken \in [T -> Texts]
    PROVE  [byValue |-> byValue, byToken |-> byToken, replacer |-> replacer] \in Vaults
  BY DEF Vaults

(* Extending and growing are reflexive and transitive. *)
LEMMA ExtendsFacts ==
    /\ \A v : Extends(v, v)
    /\ \A u, v, w : Extends(u, v) /\ Extends(v, w) => Extends(u, w)
    /\ \A u, v, w : Grows(u, v) /\ Grows(v, w) => Grows(u, w)
<1>1. \A v : Extends(v, v)
    BY DEF Extends
<1>2. \A u, v, w : Extends(u, v) /\ Extends(v, w) => Extends(u, w)
    BY DEF Extends
<1> QED
    BY <1>1, <1>2 DEF Grows

LEMMA GlyphTypes == Texts \subseteq Seq(Glyphs) /\ Suffix \in Seq(Glyphs)
<1>1. Words \subseteq Glyphs /\ "'" \in Glyphs /\ "s" \in Glyphs
    BY DEF Glyphs
<1> HIDE DEF Glyphs
<1> QED
    BY <1>1 DEF Texts, Suffix

(* Inside a token there is no word. *)
LEMMA TokenTypes ==
    \A n \in Numbers : /\ TokenText(n) \in Seq(Glyphs) /\ TokenText(n) # <<>>
                       /\ TokenText(n) \o Suffix \in Seq(Glyphs)
                       /\ TokenText(n) \o <<>> = TokenText(n)
                       /\ \A i \in DOMAIN TokenText(n) : TokenText(n)[i] \notin Words
<1> TAKE n \in Numbers
<1> DEFINE mark == "CONTACT_"
<1>1. n \in Seq(STRING) /\ STRING \subseteq Glyphs /\ mark \in Glyphs
    BY WordsAssumption DEF Glyphs
<1>2. TokenText(n) = <<mark>> \o n
    BY DEF TokenText
<1> HIDE DEF mark
<1>4. n \in Seq(Glyphs) /\ <<mark>> \in Seq(Glyphs)
  <2>1. n \in Seq(Glyphs)
    <3> DEFINE Strings == STRING
    <3>1. n \in Seq(Strings) /\ Strings \subseteq Glyphs
        BY <1>1
    <3> HIDE DEF Strings
    <3> QED
        BY <3>1, SeqMonotonic
  <2>2. <<mark>> \in Seq(Glyphs)
      BY <1>1
  <2> QED
      BY <2>1, <2>2
<1>5. <<mark>> \o n \in Seq(Glyphs) /\ <<mark>> \o n # <<>>
    BY <1>4
<1>3. TokenText(n) \o Suffix \in Seq(Glyphs) /\ TokenText(n) \o <<>> = TokenText(n)
    BY <1>2, <1>5, Joined, GlyphTypes
<1> QED
    BY <1>2, <1>3, <1>5, WordsAssumption

IsSpace(w) == w = " "

(* The words of a name are texts. *)
LEMMA WordsOfNames ==
    ASSUME NEW name \in Texts, NEW i \in WordStarts(name)
    PROVE  WordAt(name, i) \in Texts
<1>1. name \in Seq(Words) /\ i \in 1..Len(name) /\ ~IsSpace(name[i])
  <2>1. name \in Seq(Words)
      BY DEF Texts
  <2>2. i \in DOMAIN name /\ ~IsSpace(name[i])
      BY DEF WordStarts, IsSpace
  <2> QED
      BY <2>1, <2>2
<1> DEFINE n == Len(name)
           Closes(j) == j = n \/ IsSpace(name[j + 1])
           ends == {j \in i..n : Closes(j)}
<1>2. n \in Nat /\ ends \in SUBSET Nat /\ n \in ends
  <2>1. n \in Nat /\ i \in 1..n
      BY <1>1
  <2>2. Closes(n) /\ n \in i..n
      BY <2>1
  <2> HIDE DEF n, Closes
  <2> QED
      BY <2>1, <2>2
<1> HIDE DEF n
<1>3. PICK j \in ends : \A k \in ends : j <= k
  <2> HIDE DEF ends
  <2> QED
      BY <1>2, Least
<1>4. j \in i..n /\ Closes(j)
    OBVIOUS
<1>5. \A k \in i..j : ~IsSpace(name[k])
  <2> TAKE k \in i..j
  <2>1. CASE k = i
      BY <1>1, <2>1
  <2>2. CASE k # i
    <3>1. k - 1 \in i..n /\ k - 1 < j /\ (k - 1) + 1 = k
        BY <1>1, <1>2, <1>4, <2>2 DEF n
    <3>2. k - 1 \notin ends
      <4> HIDE DEF ends
      <4>1. j \in Int /\ k - 1 \in Int
          BY <1>1, <1>2, <1>4, <3>1 DEF n
      <4> QED
          BY <1>3, <3>1, <4>1
    <3> QED
        BY <3>1, <3>2
  <2> QED
      BY <2>1, <2>2
<1> HIDE DEF ends
<1> DEFINE last == CHOOSE l \in i..n : Closes(l) /\ \A k \in i..l : ~IsSpace(name[k])
<1>6. last \in i..n
    BY <1>4, <1>5
<1>7. WordAt(name, i) = SubSeq(name, i, last)
    BY DEF WordAt, n, IsSpace
<1> HIDE DEF last
<1>8. SubSeq(name, i, last) \in Seq(Words)
    BY <1>1, <1>2, <1>6 DEF n
<1> QED
    BY <1>7, <1>8 DEF Texts

(* Whatever a person is called is a text. *)
LEMMA SaidAreTexts ==
    /\ Said \subseteq Texts
    /\ \A p \in Everyone :
           /\ p.names \in Seq(Texts) /\ p.names # <<>> /\ p.handles \in Seq(Texts)
           /\ SaidOf(p) \subseteq Said
<1>1. \A p \in Everyone : p \in People
    BY IndexAssumption DEF Everyone, ToSet
<1>2. \A p \in Everyone : p.names \in Seq(Texts) /\ p.names # <<>> /\ p.handles \in Seq(Texts)
    BY <1>1 DEF People
<1>3. ASSUME NEW p \in Everyone PROVE SaidOf(p) \subseteq Texts
  <2>1. ToSet(p.names) \subseteq Texts /\ ToSet(p.handles) \subseteq Texts
      BY <1>2 DEF ToSet
  <2>2. \A name \in ToSet(p.names) : Fields(name) \subseteq Texts
      BY <2>1, WordsOfNames DEF Fields
  <2> QED
      BY <2>1, <2>2 DEF SaidOf, Called
<1> QED
    BY <1>2, <1>3 DEF Said

LEMMA EntryTypes ==
    ASSUME NEW r, NEW n \in Numbers, IsEntry(r, n)
    PROVE  r \in Entries
<1>1. PICK x \in Said : \/ r = [value |-> x, token |-> TokenText(n)]
                        \/ r = [value |-> x \o Suffix, token |-> TokenText(n) \o Suffix]
    BY DEF IsEntry
<1>2. x \in Texts /\ x \o Suffix \in Texts
    BY SaidAreTexts, Possessives
<1>3. TokenText(n) \in Seq(Glyphs) /\ TokenText(n) \o Suffix \in Seq(Glyphs)
    BY TokenTypes
<1>4. /\ [value |-> x, token |-> TokenText(n)] \in Entries
      /\ [value |-> x \o Suffix, token |-> TokenText(n) \o Suffix] \in Entries
    BY <1>2, <1>3 DEF Entries
<1> QED
    BY <1>1, <1>4

(* The elements after an Append. *)
LEMMA AppendedSet ==
    ASSUME NEW S, NEW s \in Seq(S), NEW r
    PROVE  ToSet(Append(s, r)) = ToSet(s) \cup {r}
<1>1. DOMAIN Append(s, r) = DOMAIN s \cup {Len(s) + 1} /\ Len(s) + 1 \notin DOMAIN s
    OBVIOUS
<1>2. \A i \in DOMAIN s : Append(s, r)[i] = s[i]
    OBVIOUS
<1>3. Append(s, r)[Len(s) + 1] = r
    OBVIOUS
<1> QED
    BY <1>1, <1>2, <1>3 DEF ToSet

(* One value is registered: the vault grows by it at most. *)
LEMMA Registers ==
    ASSUME NEW v, Sound(v), NEW n \in DOMAIN v.byToken, NEW value, NEW suffix,
           IsEntry([value |-> value, token |-> TokenText(n) \o suffix], n),
           NEW w, w = Register(v, value, suffix, n)
    PROVE  /\ Grows(v, w)
           /\ Long(value) => value \in DOMAIN w.byValue
           /\ Long(value) /\ value \notin DOMAIN v.byValue =>
                  [value |-> value, token |-> TokenText(n) \o suffix] \in ToSet(w.replacer)
<1> DEFINE r == [value |-> value, token |-> TokenText(n) \o suffix]
<1>1. v \in Vaults
    BY DEF Sound
<1>2. CASE ~Long(value) \/ value \in DOMAIN v.byValue
  <2>1. w = v
      BY <1>2 DEF Register
  <2> QED
      BY <1>2, <2>1, ExtendsFacts DEF Grows
<1>3. CASE ~(~Long(value) \/ value \in DOMAIN v.byValue)
  <2> DEFINE byValue == [x \in DOMAIN v.byValue \cup {value} |->
                            IF x = value THEN n ELSE v.byValue[x]]
             replacer == Append(v.replacer, r)
  <2>1. w = [byToken |-> v.byToken, byValue |-> byValue, replacer |-> replacer]
      BY <1>3 DEF Register
  <2>2. w.byToken = v.byToken /\ w.byValue = byValue /\ w.replacer = replacer
    <3> HIDE DEF byValue, replacer
    <3> QED
        BY <2>1
  <2>3. r.value = value /\ IsEntry(r, n)
      OBVIOUS
  <2>4. n \in Numbers /\ v.replacer \in Seq(Entries)
      BY <1>1, VaultTypes
  <2>5. r \in Entries
    <3> HIDE DEF r
    <3> QED
        BY <2>3, <2>4, EntryTypes
  <2> HIDE DEF r
  <2>6. value \in Texts
      BY <2>3, <2>5 DEF Entries
  <2>7. replacer \in Seq(Entries) /\ ToSet(replacer) = ToSet(v.replacer) \cup {r}
      BY <2>4, <2>5, AppendedSet
  <2>8. /\ DOMAIN byValue = DOMAIN v.byValue \cup {value}
        /\ \A x \in DOMAIN byValue : byValue[x] = IF x = value THEN n ELSE v.byValue[x]
      OBVIOUS
  <2>9. byValue \in [DOMAIN v.byValue \cup {value} -> Numbers]
      BY <1>1, <2>4, VaultTypes
  <2> HIDE DEF byValue, replacer
  <2>10. w \in Vaults
    <3>1. DOMAIN v.byValue \cup {value} \in SUBSET Texts
        BY <1>1, <2>6, VaultTypes
    <3>2. /\ DOMAIN v.byToken \in SUBSET Numbers
          /\ v.byToken \in [DOMAIN v.byToken -> Texts]
        BY <1>1, VaultTypes
    <3>3. w = [byValue |-> byValue, byToken |-> v.byToken, replacer |-> replacer]
        BY <2>1
    <3>4. [byValue |-> byValue, byToken |-> v.byToken, replacer |-> replacer] \in Vaults
        BY <2>7, <2>9, <3>1, <3>2, IsVault
    <3> QED
        BY <3>3, <3>4
  <2>11. Extends(v, w)
      BY <2>2, <2>7 DEF Extends
  <2>12. Sound(w)
    <3>1. DOMAIN w.byValue = {e.value : e \in ToSet(w.replacer)}
        BY <2>2, <2>3, <2>7, <2>8 DEF Sound
    <3>2. \A x \in DOMAIN w.byValue : w.byValue[x] \in DOMAIN w.byToken
        BY <2>2, <2>8 DEF Sound
    <3>3. \A e \in ToSet(w.replacer) : Long(e.value) /\ \E m \in DOMAIN w.byToken : IsEntry(e, m)
        BY <1>3, <2>2, <2>3, <2>7 DEF Sound
    <3>4. \A e \in ToSet(v.replacer) : e.value # value
        BY <1>3 DEF Sound
    <3>5. \A d, e \in ToSet(w.replacer) : d.value = e.value => d = e
        BY <2>2, <2>3, <2>7, <3>4 DEF Sound
    <3> QED
        BY <2>10, <3>1, <3>2, <3>3, <3>5 DEF Sound
  <2> QED
      BY <2>2, <2>7, <2>8, <2>11, <2>12 DEF Grows, r
<1> QED
    BY <1>2, <1>3

LEMMA GrowsFacts ==
    /\ \A v : Sound(v) => Grows(v, v)
    /\ \A u, v : Grows(u, v) => v \in Vaults /\ Sound(v) /\ v.byToken = u.byToken
    /\ \A u, v : Sound(u) /\ Sound(v) /\ Extends(u, v) => DOMAIN u.byValue \subseteq DOMAIN v.byValue
<1>1. \A v : Sound(v) => Grows(v, v)
    BY ExtendsFacts DEF Grows
<1>2. \A u, v : Sound(u) /\ Sound(v) /\ Extends(u, v) => DOMAIN u.byValue \subseteq DOMAIN v.byValue
    BY DEF Sound, Extends
<1> QED
    BY <1>1, <1>2 DEF Grows, Sound

(* x and its possessive have a token in v. *)
Covers(v, x) == Long(x) => x \in DOMAIN v.byValue /\ x \o Suffix \in DOMAIN v.byValue

LEMMA CoversStays ==
    ASSUME NEW u, NEW v, Sound(u), Grows(u, v), NEW x, Covers(u, x)
    PROVE  Covers(v, x)
  BY GrowsFacts DEF Covers, Grows

(* A value is registered with its possessive. *)
LEMMA RegistersForms ==
    ASSUME NEW v, Sound(v), NEW n \in DOMAIN v.byToken, NEW x \in Said,
           NEW w, w = RegisterForms(v, x, n)
    PROVE  /\ Grows(v, w) /\ Covers(w, x)
           /\ Long(x) /\ x \notin DOMAIN v.byValue =>
                  [value |-> x, token |-> TokenText(n)] \in ToSet(w.replacer)
<1> DEFINE u == Register(v, x, <<>>, n)
<1>1. x \in Texts /\ n \in Numbers
    BY SaidAreTexts, VaultTypes DEF Sound
<1>2. TokenText(n) \o <<>> = TokenText(n)
    BY <1>1, TokenTypes
<1>3. IsEntry([value |-> x, token |-> TokenText(n) \o <<>>], n)
    BY <1>2 DEF IsEntry
<1>4. IsEntry([value |-> x \o Suffix, token |-> TokenText(n) \o Suffix], n)
    BY DEF IsEntry
<1>5. /\ Grows(v, u)
      /\ Long(x) => x \in DOMAIN u.byValue
      /\ Long(x) /\ x \notin DOMAIN v.byValue =>
             [value |-> x, token |-> TokenText(n) \o <<>>] \in ToSet(u.replacer)
  <2> HIDE DEF u
  <2>1. u = Register(v, x, <<>>, n)
      BY DEF u
  <2> QED
      BY <1>3, <2>1, Registers
<1>6. w = Register(u, x \o Suffix, Suffix, n)
    BY DEF RegisterForms
<1> HIDE DEF u
<1>7. Sound(u) /\ n \in DOMAIN u.byToken
    BY <1>5 DEF Grows
<1>8. Grows(u, w) /\ (Long(x \o Suffix) => x \o Suffix \in DOMAIN w.byValue)
    BY <1>4, <1>6, <1>7, Registers
<1>9. Grows(v, w)
    BY <1>5, <1>8, ExtendsFacts
<1>10. Covers(w, x)
  <2>1. Long(x) => Long(x \o Suffix)
      BY <1>1, Possessives
  <2>2. DOMAIN u.byValue \subseteq DOMAIN w.byValue
      BY <1>7, <1>8, GrowsFacts DEF Grows
  <2> QED
      BY <1>5, <1>8, <2>1, <2>2 DEF Covers
<1> QED
    BY <1>2, <1>5, <1>8, <1>9, <1>10 DEF Grows, Extends

(* A name is registered with its longer words. *)
LEMMA RegistersName ==
    ASSUME NEW v, Sound(v), NEW n \in DOMAIN v.byToken,
           NEW name \in Said, Fields(name) \subseteq Said,
           NEW w, w = RegisterName(v, name, n)
    PROVE  /\ Grows(v, w)
           /\ \A x \in {name} \cup Fields(name) : Covers(w, x)
           /\ Long(name) /\ name \notin DOMAIN v.byValue =>
                  [value |-> name, token |-> TokenText(n)] \in ToSet(w.replacer)
<1> DEFINE base == RegisterForms(v, name, n)
           D == {u \in Vaults : Grows(base, u)}
           Body(u, i) == IF i \in WordStarts(name) /\ Long(WordAt(name, i))
                         THEN RegisterForms(u, WordAt(name, i), n)
                         ELSE u
           step == [i \in 1..Len(name) |-> [u \in D |-> Body(u, i)]]
           f == CHOOSE g : g = [i \in 0..Len(name) |->
                                   IF i = 0 THEN base ELSE Body(g[i - 1], i)]
<1>1. Len(name) \in Nat /\ WordStarts(name) \subseteq 1..Len(name)
  <2>1. name \in Seq(Words)
      BY SaidAreTexts DEF Texts
  <2>2. WordStarts(name) \subseteq DOMAIN name
      BY DEF WordStarts
  <2> QED
      BY <2>1, <2>2
<1>2. w = f[Len(name)]
    BY DEF RegisterName
<1> HIDE DEF Body
<1>3. /\ Grows(v, base) /\ Covers(base, name)
      /\ Long(name) /\ name \notin DOMAIN v.byValue =>
             [value |-> name, token |-> TokenText(n)] \in ToSet(base.replacer)
    BY RegistersForms
<1> HIDE DEF base, f
<1>4. Sound(base) /\ base \in D /\ n \in DOMAIN base.byToken
    BY <1>3, GrowsFacts DEF Grows
<1>5. ASSUME NEW i \in 1..Len(name), NEW u \in D
      PROVE  /\ Body(u, i) \in D /\ Grows(u, Body(u, i))
             /\ i \in WordStarts(name) => Covers(Body(u, i), WordAt(name, i))
  <2>1. Sound(u) /\ n \in DOMAIN u.byToken /\ Grows(base, u)
      BY <1>4, GrowsFacts DEF Grows
  <2>2. CASE i \in WordStarts(name) /\ Long(WordAt(name, i))
    <3>1. WordAt(name, i) \in Said /\ Body(u, i) = RegisterForms(u, WordAt(name, i), n)
        BY <2>2 DEF Fields, Body
    <3>2. Grows(u, Body(u, i)) /\ Covers(Body(u, i), WordAt(name, i))
        BY <2>1, <3>1, RegistersForms
    <3> QED
        BY <2>1, <3>2, GrowsFacts, ExtendsFacts
  <2>3. CASE ~(i \in WordStarts(name) /\ Long(WordAt(name, i)))
    <3>1. Body(u, i) = u
        BY <2>3 DEF Body
    <3> QED
        BY <2>1, <2>3, <3>1, GrowsFacts DEF Covers
  <2> QED
      BY <2>2, <2>3
<1>6. step \in [1..Len(name) -> [D -> D]]
    BY <1>5
<1>7. PICK g : Follows(g, Len(name), D, base, step)
  <2> HIDE DEF step, D
  <2> QED
      BY <1>1, <1>4, <1>6, Recursion
<1>8. g = [i \in 0..Len(name) |-> IF i = 0 THEN base ELSE Body(g[i - 1], i)]
  <2>1. ASSUME NEW i \in 1..Len(name) PROVE g[i] = Body(g[i - 1], i)
    <3>1. i - 1 \in 0..Len(name) /\ g[i - 1] \in D
        BY <1>1, <1>7 DEF Follows
    <3> QED
        BY <1>7, <3>1 DEF Follows
  <2> HIDE DEF D, step
  <2> QED
      BY <1>1, <1>7, <2>1 DEF Follows
<1>9. f = [i \in 0..Len(name) |-> IF i = 0 THEN base ELSE Body(f[i - 1], i)]
    BY <1>8 DEF f
<1> HIDE DEF D, step
<1> DEFINE Met(u, i) == i \in WordStarts(name) => Covers(u, WordAt(name, i))
           S == {i \in 0..Len(name) : f[i] \in D /\ \A j \in 1..i : Met(f[i], j)}
<1>10. 0 \in S
    BY <1>1, <1>4, <1>9
<1>11. ASSUME NEW i \in 1..Len(name), i - 1 \in S PROVE i \in S
  <2>1. /\ i \in 0..Len(name) /\ f[i] = Body(f[i - 1], i) /\ f[i - 1] \in D
        /\ \A j \in 1..i - 1 : Met(f[i - 1], j)
      BY <1>1, <1>9, <1>11
  <2>2. f[i] \in D /\ Grows(f[i - 1], f[i]) /\ Met(f[i], i)
      BY <1>5, <2>1
  <2>3. Sound(f[i - 1])
      BY <2>1, GrowsFacts DEF D
  <2>4. \A j \in 1..i : Met(f[i], j)
    <3> TAKE j \in 1..i
    <3>1. CASE j = i
        BY <2>2, <3>1
    <3>2. CASE j # i
      <4>1. Met(f[i - 1], j)
          BY <2>1, <3>2
      <4> QED
          BY <2>2, <2>3, <4>1, CoversStays
    <3> QED
        BY <3>1, <3>2
  <2> QED
      BY <2>1, <2>2, <2>4
<1> HIDE DEF S
<1>12. 0..Len(name) \subseteq S
    BY <1>1, <1>10, <1>11, Upward
<1>13. Grows(base, w) /\ \A j \in 1..Len(name) : Met(w, j)
    BY <1>1, <1>2, <1>12 DEF S, D
<1>14. Grows(v, w)
    BY <1>3, <1>13, ExtendsFacts
<1>15. Covers(w, name)
    BY <1>3, <1>4, <1>13, CoversStays
<1>16. \A x \in Fields(name) : Covers(w, x)
    BY <1>1, <1>13 DEF Fields
<1> QED
    BY <1>3, <1>13, <1>14, <1>15, <1>16 DEF Grows, Extends

(* A new token changes nothing else. *)
LEMMA Mints ==
    ASSUME NEW v, Sound(v), NEW n \in Numbers \ DOMAIN v.byToken, NEW display \in Texts,
           NEW w, w = Mint(v, n, display)
    PROVE  /\ Sound(w) /\ Extends(v, w)
           /\ w.byValue = v.byValue /\ w.replacer = v.replacer
           /\ DOMAIN w.byToken = DOMAIN v.byToken \cup {n} /\ w.byToken[n] = display
<1> DEFINE byToken == [x \in DOMAIN v.byToken \cup {n} |-> IF x = n THEN display ELSE v.byToken[x]]
<1>1. v \in Vaults /\ v = [byValue |-> v.byValue, byToken |-> v.byToken, replacer |-> v.replacer]
    BY VaultTypes DEF Sound
<1>2. w = [v EXCEPT !.byToken = byToken]
    BY DEF Mint
<1>3. /\ DOMAIN byToken = DOMAIN v.byToken \cup {n} /\ byToken[n] = display
      /\ \A x \in DOMAIN v.byToken : byToken[x] = v.byToken[x]
    OBVIOUS
<1>4. byToken \in [DOMAIN v.byToken \cup {n} -> Texts] /\ DOMAIN v.byToken \cup {n} \subseteq Numbers
    BY <1>1, VaultTypes
<1> HIDE DEF byToken
<1>5. w = [byValue |-> v.byValue, byToken |-> byToken, replacer |-> v.replacer]
    BY <1>1, <1>2
<1>6. w.byToken = byToken /\ w.byValue = v.byValue /\ w.replacer = v.replacer
    BY <1>5
<1>7. w \in Vaults
  <2>1. /\ DOMAIN v.byValue \in SUBSET Texts /\ v.byValue \in [DOMAIN v.byValue -> Numbers]
        /\ v.replacer \in Seq(Entries)
      BY <1>1, VaultTypes
  <2>2. [byValue |-> v.byValue, byToken |-> byToken, replacer |-> v.replacer] \in Vaults
      BY <1>4, <2>1, IsVault
  <2> QED
      BY <1>5, <2>2
<1>8. Sound(w)
  <2>1. DOMAIN v.byToken \subseteq DOMAIN w.byToken
      BY <1>3, <1>6
  <2> QED
      BY <1>6, <1>7, <2>1 DEF Sound
<1>9. Extends(v, w)
    BY <1>3, <1>6 DEF Extends
<1> QED
    BY <1>3, <1>6, <1>8, <1>9

LEMMA ConcatParts ==
    ASSUME NEW S, NEW a \in Seq(S), NEW b \in Seq(S)
    PROVE  /\ Len(a) \in Nat /\ Len(b) \in Nat
           /\ Len(a \o b) = Len(a) + Len(b) /\ DOMAIN (a \o b) = 1..Len(a \o b)
           /\ \A k \in 1..Len(a) : (a \o b)[k] = a[k]
           /\ \A k \in 1..Len(b) : (a \o b)[k + Len(a)] = b[k]
  OBVIOUS

NamesOf(p) == Len(p.names)
HandlesOf(p) == Len(p.handles)
CountOf(p) == Len(Values(p))

LEMMA ValuesOf ==
    ASSUME NEW p \in Everyone
    PROVE  /\ NamesOf(p) \in Nat /\ NamesOf(p) > 0 /\ HandlesOf(p) \in Nat
           /\ CountOf(p) = NamesOf(p) + HandlesOf(p)
           /\ DOMAIN Values(p) = 1..CountOf(p)
           /\ \A k \in 1..NamesOf(p) :
                  /\ Values(p)[k] = p.names[k]
                  /\ Values(p)[k] \in Said /\ Fields(Values(p)[k]) \subseteq Said
           /\ \A k \in NamesOf(p) + 1..CountOf(p) : Values(p)[k] \in Said
           /\ \A k \in 1..HandlesOf(p) : Values(p)[k + NamesOf(p)] = p.handles[k]
           /\ DOMAIN p.names = 1..NamesOf(p) /\ DOMAIN p.handles = 1..HandlesOf(p)
<1>1. p.names \in Seq(Texts) /\ p.names # <<>> /\ p.handles \in Seq(Texts) /\ SaidOf(p) \subseteq Said
    BY SaidAreTexts
<1>2. /\ NamesOf(p) \in Nat /\ NamesOf(p) > 0 /\ HandlesOf(p) \in Nat
      /\ DOMAIN p.names = 1..NamesOf(p) /\ DOMAIN p.handles = 1..HandlesOf(p)
    BY <1>1 DEF NamesOf, HandlesOf
<1>3. /\ CountOf(p) = NamesOf(p) + HandlesOf(p)
      /\ DOMAIN Values(p) = 1..CountOf(p)
      /\ \A k \in 1..NamesOf(p) : Values(p)[k] = p.names[k]
      /\ \A k \in 1..HandlesOf(p) : Values(p)[k + NamesOf(p)] = p.handles[k]
  <2> DEFINE a == p.names
             b == p.handles
  <2>1. a \in Seq(Texts) /\ b \in Seq(Texts) /\ Values(p) = a \o b
      BY <1>1 DEF Values
  <2> HIDE DEF a, b
  <2>2. /\ Len(a \o b) = Len(a) + Len(b) /\ DOMAIN (a \o b) = 1..Len(a \o b)
        /\ \A k \in 1..Len(a) : (a \o b)[k] = a[k]
        /\ \A k \in 1..Len(b) : (a \o b)[k + Len(a)] = b[k]
      BY <2>1, ConcatParts
  <2> QED
      BY <2>1, <2>2 DEF a, b, NamesOf, HandlesOf, CountOf
<1>4. \A k \in 1..NamesOf(p) : p.names[k] \in SaidOf(p) /\ Fields(p.names[k]) \subseteq SaidOf(p)
    BY <1>2 DEF SaidOf, Called, ToSet
<1>5. \A k \in 1..HandlesOf(p) : p.handles[k] \in SaidOf(p)
    BY <1>2 DEF SaidOf, ToSet
<1>6. ASSUME NEW k \in NamesOf(p) + 1..CountOf(p) PROVE Values(p)[k] \in SaidOf(p)
  <2>1. k - NamesOf(p) \in 1..HandlesOf(p) /\ (k - NamesOf(p)) + NamesOf(p) = k
      BY <1>2, <1>3
  <2> QED
      BY <1>3, <1>5, <2>1
<1> QED
    BY <1>1, <1>2, <1>3, <1>4, <1>6

(* A person has the token of one of the values, or a new one for a name that
   is not registered. *)
LEMMA NumbersFor ==
    ASSUME NEW v, Sound(v), NEW p \in Everyone, NEW fresh \in Numbers \ DOMAIN v.byToken,
           NEW n, n = NumberFor(v, p, fresh), NEW u, u = Issued(v, p, fresh)
    PROVE  /\ Sound(u) /\ Extends(v, u) /\ n \in DOMAIN u.byToken
           /\ u.byValue = v.byValue /\ DOMAIN u.byToken \subseteq DOMAIN v.byToken \cup {fresh}
           /\ \/ u = v
              \/ /\ n = fresh /\ u.byToken[n] = p.names[1] /\ p.names[1] \notin DOMAIN v.byValue
<1>1. CASE Registered(v, p) = {}
  <2>1. n = fresh /\ u = Mint(v, fresh, p.names[1])
      BY <1>1 DEF NumberFor, Issued
  <2>2. 1 \in 1..NamesOf(p) /\ 1 \in 1..CountOf(p)
      BY ValuesOf
  <2>3. p.names[1] \in Texts
      BY <2>2, ValuesOf, SaidAreTexts
  <2>4. 1 \in DOMAIN Values(p) /\ Values(p)[1] = p.names[1]
      BY <2>2, ValuesOf
  <2>5. p.names[1] \notin DOMAIN v.byValue
      BY <1>1, <2>4 DEF Registered
  <2> QED
      BY <2>1, <2>3, <2>5, Mints
<1>2. CASE Registered(v, p) # {}
  <2> DEFINE has == Registered(v, p)
             i == CHOOSE i \in has : \A j \in has : i <= j
  <2>1. has \in SUBSET Nat
    <3>1. has \subseteq DOMAIN Values(p)
        BY DEF Registered
    <3> QED
        BY <3>1, ValuesOf
  <2>2. i \in has
    <3>1. \E k \in has : \A j \in has : k <= j
      <4> HIDE DEF has
      <4> QED
          BY <1>2, <2>1, Least DEF has
    <3> QED
        BY <3>1
  <2>3. n = v.byValue[Values(p)[i]] /\ u = v
      BY <1>2 DEF NumberFor, Issued
  <2> HIDE DEF i
  <2>4. Values(p)[i] \in DOMAIN v.byValue
      BY <2>2 DEF Registered
  <2> QED
      BY <2>3, <2>4, ExtendsFacts DEF Sound
<1> QED
    BY <1>1, <1>2

(* The name shown for n has the token of n. *)
Titled(v, n) ==
    Long(v.byToken[n]) => [value |-> v.byToken[n], token |-> TokenText(n)] \in ToSet(v.replacer)

(* Everything p is called by has a token. *)
Knows(v, p) ==
    /\ \A x \in Called(p) : Covers(v, x)
    /\ \A x \in ToSet(p.handles) : Long(x) => x \in DOMAIN v.byValue

(* A person is registered: everything said of the person is known, and a new
   token has its name for an entry. *)
LEMMA RegistersPerson ==
    ASSUME NEW v, Sound(v), NEW p \in Everyone, NEW fresh \in Numbers \ DOMAIN v.byToken,
           NEW w, w = RegisterPerson(v, p, fresh)
    PROVE  /\ Sound(w) /\ Extends(v, w) /\ Knows(w, p)
           /\ DOMAIN w.byToken \subseteq DOMAIN v.byToken \cup {fresh}
           /\ \A n \in DOMAIN w.byToken \ DOMAIN v.byToken : Titled(w, n)
<1> DEFINE n == NumberFor(v, p, fresh)
           base == Issued(v, p, fresh)
           Body(u, k) == IF k <= Len(p.names) THEN RegisterName(u, Values(p)[k], n)
                         ELSE Register(u, Values(p)[k], <<>>, n)
           f == CHOOSE g : g = [k \in 0..CountOf(p) |->
                                   IF k = 0 THEN base ELSE Body(g[k - 1], k)]
           D == {u \in Vaults : Grows(base, u)}
           step == [k \in 1..CountOf(p) |-> [u \in D |-> Body(u, k)]]
           First(u) == \/ base = v
                       \/ Long(p.names[1]) =>
                              [value |-> p.names[1], token |-> TokenText(n)] \in ToSet(u.replacer)
           Met(u, k) ==
               /\ k \in 1..NamesOf(p) => \A x \in {Values(p)[k]} \cup Fields(Values(p)[k]) : Covers(u, x)
               /\ k \notin 1..NamesOf(p) => (Long(Values(p)[k]) => Values(p)[k] \in DOMAIN u.byValue)
               /\ First(u)
<1>1. w = f[CountOf(p)]
    BY DEF RegisterPerson, CountOf
<1> HIDE DEF f
<1>2. /\ Sound(base) /\ Extends(v, base) /\ n \in DOMAIN base.byToken
      /\ base.byValue = v.byValue /\ DOMAIN base.byToken \subseteq DOMAIN v.byToken \cup {fresh}
      /\ \/ base = v
         \/ /\ n = fresh /\ base.byToken[n] = p.names[1] /\ p.names[1] \notin DOMAIN v.byValue
    BY NumbersFor
<1> HIDE DEF n, base
<1>3. base \in D
    BY <1>2, GrowsFacts DEF Sound
<1>4. CountOf(p) \in Nat /\ NamesOf(p) \in Nat /\ 1 \in 1..NamesOf(p)
    BY ValuesOf
<1>5. ASSUME NEW k \in 1..CountOf(p), NEW u \in D
      PROVE  /\ Body(u, k) \in D /\ Grows(u, Body(u, k))
             /\ (k = 1 /\ u = base) \/ First(u) => Met(Body(u, k), k)
  <2>1. Sound(u) /\ Grows(base, u) /\ n \in DOMAIN u.byToken
      BY <1>2, GrowsFacts DEF Grows
  <2>2. CASE k \in 1..NamesOf(p)
    <3>1. /\ Values(p)[k] \in Said /\ Fields(Values(p)[k]) \subseteq Said
          /\ Values(p)[k] = p.names[k]
        BY <2>2, ValuesOf
    <3>2. k <= Len(p.names)
        BY <2>2 DEF NamesOf
    <3>3. Body(u, k) = RegisterName(u, Values(p)[k], n)
        BY <3>2
    <3> DEFINE next == Body(u, k)
    <3> HIDE DEF Body
    <3>4. /\ Grows(u, next)
          /\ \A x \in {Values(p)[k]} \cup Fields(Values(p)[k]) : Covers(next, x)
          /\ Long(Values(p)[k]) /\ Values(p)[k] \notin DOMAIN u.byValue =>
                 [value |-> Values(p)[k], token |-> TokenText(n)] \in ToSet(next.replacer)
        BY <2>1, <3>1, <3>3, RegistersName
    <3>5. (k = 1 /\ u = base) => First(next)
        BY <1>2, <3>1, <3>4
    <3>6. First(u) => First(next)
        BY <3>4 DEF Grows, Extends
    <3> HIDE DEF First
    <3>7. next \in D
        BY <2>1, <3>4, GrowsFacts, ExtendsFacts
    <3> QED
        BY <2>2, <3>4, <3>5, <3>6, <3>7
  <2>3. CASE k \notin 1..NamesOf(p)
    <3>1. k \in NamesOf(p) + 1..CountOf(p) /\ k # 1
        BY <1>4, <2>3
    <3>2. Values(p)[k] \in Said
        BY <3>1, ValuesOf
    <3>3. ~(k <= Len(p.names))
      <4>1. ~(k <= NamesOf(p))
          BY <1>4, <3>1
      <4> QED
          BY <4>1 DEF NamesOf
    <3>4. Body(u, k) = Register(u, Values(p)[k], <<>>, n)
        BY <3>3
    <3> DEFINE next == Body(u, k)
    <3> HIDE DEF Body
    <3>5. n \in Numbers
        BY <2>1, VaultTypes DEF Sound
    <3>6. IsEntry([value |-> Values(p)[k], token |-> TokenText(n) \o <<>>], n)
        BY <3>2, <3>5, TokenTypes DEF IsEntry
    <3>7. Grows(u, next) /\ (Long(Values(p)[k]) => Values(p)[k] \in DOMAIN next.byValue)
        BY <2>1, <3>4, <3>6, Registers
    <3>8. First(u) => First(next)
        BY <3>7 DEF Grows, Extends
    <3> HIDE DEF First
    <3>9. next \in D
        BY <2>1, <3>7, GrowsFacts, ExtendsFacts
    <3> QED
        BY <2>3, <3>1, <3>7, <3>8, <3>9
  <2> QED
      BY <2>2, <2>3
<1> HIDE DEF Body
<1>6. step \in [1..CountOf(p) -> [D -> D]]
    BY <1>5
<1>7. PICK g : Follows(g, CountOf(p), D, base, step)
  <2> HIDE DEF step, D
  <2> QED
      BY <1>3, <1>4, <1>6, Recursion
<1>8. g = [k \in 0..CountOf(p) |-> IF k = 0 THEN base ELSE Body(g[k - 1], k)]
  <2>1. ASSUME NEW k \in 1..CountOf(p) PROVE g[k] = Body(g[k - 1], k)
    <3>1. k - 1 \in 0..CountOf(p) /\ g[k - 1] \in D
        BY <1>4, <1>7 DEF Follows
    <3> QED
        BY <1>7, <3>1 DEF Follows
  <2> HIDE DEF D, step
  <2> QED
      BY <1>4, <1>7, <2>1 DEF Follows
<1>9. f = [k \in 0..CountOf(p) |-> IF k = 0 THEN base ELSE Body(f[k - 1], k)]
    BY <1>8 DEF f
<1> HIDE DEF D, step
<1>10. ASSUME NEW u \in D, NEW t, Grows(u, t), NEW k, Met(u, k)
       PROVE  Met(t, k)
  <2>1. Sound(u) /\ DOMAIN u.byValue \subseteq DOMAIN t.byValue
      BY <1>10, GrowsFacts DEF D, Grows
  <2>2. First(t)
      BY <1>10 DEF Grows, Extends
  <2> HIDE DEF First
  <2> QED
      BY <1>10, <2>1, <2>2, CoversStays
<1> HIDE DEF Met
<1> DEFINE S == {k \in 0..CountOf(p) : f[k] \in D /\ \A j \in 1..k : Met(f[k], j)}
<1>11. 0 \in S /\ f[0] = base
    BY <1>3, <1>4, <1>9
<1>12. ASSUME NEW k \in 1..CountOf(p), k - 1 \in S PROVE k \in S
  <2>1. /\ k \in 0..CountOf(p) /\ f[k] = Body(f[k - 1], k) /\ f[k - 1] \in D
        /\ \A j \in 1..k - 1 : Met(f[k - 1], j)
      BY <1>4, <1>9, <1>12
  <2>2. (k = 1 /\ f[k - 1] = base) \/ First(f[k - 1])
    <3>1. CASE k = 1
        BY <1>11, <3>1
    <3>2. CASE k # 1
      <4>1. 1 \in 1..k - 1
          BY <3>2
      <4> QED
          BY <2>1, <4>1 DEF Met
    <3> QED
        BY <3>1, <3>2
  <2> HIDE DEF First
  <2>3. f[k] \in D /\ Grows(f[k - 1], f[k]) /\ Met(f[k], k)
      BY <1>5, <2>1, <2>2
  <2>4. \A j \in 1..k : Met(f[k], j)
    <3> TAKE j \in 1..k
    <3>1. CASE j = k
        BY <2>3, <3>1
    <3>2. CASE j # k
      <4>1. Met(f[k - 1], j)
          BY <2>1, <3>2
      <4> QED
          BY <1>10, <2>1, <2>3, <4>1
    <3> QED
        BY <3>1, <3>2
  <2> QED
      BY <2>1, <2>3, <2>4
<1> HIDE DEF S
<1>13. 0..CountOf(p) \subseteq S
    BY <1>4, <1>11, <1>12, Upward
<1>14. Grows(base, w) /\ \A k \in 1..CountOf(p) : Met(w, k)
    BY <1>1, <1>4, <1>13 DEF S, D
<1>15. Sound(w) /\ Extends(v, w) /\ w.byToken = base.byToken
    BY <1>2, <1>14, ExtendsFacts DEF Grows
<1>16. Knows(w, p)
  <2>1. \A x \in Called(p) : Covers(w, x)
    <3>1. ASSUME NEW k \in 1..NamesOf(p)
          PROVE  \A x \in {p.names[k]} \cup Fields(p.names[k]) : Covers(w, x)
      <4>1. k \in 1..CountOf(p) /\ Values(p)[k] = p.names[k]
          BY ValuesOf
      <4> QED
          BY <1>14, <4>1 DEF Met
    <3>2. ToSet(p.names) = {p.names[k] : k \in 1..NamesOf(p)}
        BY ValuesOf DEF ToSet
    <3>3. ASSUME NEW name \in ToSet(p.names)
          PROVE  \A x \in {name} \cup Fields(name) : Covers(w, x)
      <4>1. PICK k \in 1..NamesOf(p) : name = p.names[k]
          BY <3>2
      <4> QED
          BY <3>1, <4>1
    <3> QED
        BY <3>3 DEF Called
  <2>2. ASSUME NEW k \in 1..HandlesOf(p), Long(p.handles[k]) PROVE p.handles[k] \in DOMAIN w.byValue
    <3>1. /\ k + NamesOf(p) \in 1..CountOf(p) /\ k + NamesOf(p) \notin 1..NamesOf(p)
          /\ Values(p)[k + NamesOf(p)] = p.handles[k]
        BY ValuesOf
    <3> QED
        BY <1>14, <2>2, <3>1 DEF Met
  <2> QED
      BY <2>1, <2>2, ValuesOf DEF Knows, ToSet
<1>17. First(w)
  <2>1. 1 \in 1..CountOf(p)
      BY ValuesOf
  <2> QED
      BY <1>14, <2>1 DEF Met
<1>18. \A m \in DOMAIN w.byToken \ DOMAIN v.byToken : Titled(w, m)
    BY <1>2, <1>15, <1>17 DEF Titled
<1> QED
    BY <1>2, <1>15, <1>16, <1>18

(* What a vault knows, one that extends it knows. *)
LEMMA KnowledgeStays ==
    ASSUME NEW u, NEW w, Sound(u), Sound(w), Extends(u, w)
    PROVE  /\ \A p : Knows(u, p) => Knows(w, p)
           /\ \A n \in DOMAIN u.byToken : Titled(u, n) => Titled(w, n)
<1>1. DOMAIN u.byValue \subseteq DOMAIN w.byValue
    BY GrowsFacts
<1>2. \A p : Knows(u, p) => Knows(w, p)
    BY <1>1 DEF Knows, Covers
<1>3. \A n \in DOMAIN u.byToken : Titled(u, n) => Titled(w, n)
    BY DEF Titled, Extends
<1> QED
    BY <1>2, <1>3

(* The numbers drawn are new and different. *)
LEMMA DrawsAre ==
    ASSUME NEW v, NEW people \in Indexes, NEW fresh \in Draws(v, people)
    PROVE  /\ Len(people) \in Nat /\ DOMAIN people = 1..Len(people)
           /\ \A i \in 1..Len(people) : /\ people[i] \in Everyone
                                        /\ fresh[i] \in Numbers \ DOMAIN v.byToken
           /\ \A i, j \in 1..Len(people) : fresh[i] = fresh[j] => i = j
           /\ ToSet(people) = {people[i] : i \in 1..Len(people)}
<1>1. people \in Seq(People)
    BY IndexAssumption
<1>2. Len(people) \in Nat /\ DOMAIN people = 1..Len(people)
    BY <1>1
<1>3. \A i \in 1..Len(people) : people[i] \in Everyone
    BY <1>2 DEF Everyone, ToSet
<1>4. fresh \in [DOMAIN people -> Numbers \ DOMAIN v.byToken] /\ IsInjective(fresh)
    BY DEF Draws
<1>5. \A i, j \in 1..Len(people) : fresh[i] = fresh[j] => i = j
    BY <1>2, <1>4 DEF IsInjective
<1> QED
    BY <1>2, <1>3, <1>4, <1>5 DEF ToSet

(* Everyone in turn. *)
LEMMA Enters ==
    ASSUME NEW v, Sound(v), NEW people \in Indexes, NEW fresh \in Draws(v, people),
           NEW w, w = Entered(v, people, fresh)
    PROVE  /\ Sound(w) /\ Extends(v, w)
           /\ DOMAIN w.byToken \subseteq DOMAIN v.byToken \cup {fresh[i] : i \in 1..Len(people)}
           /\ \A p \in ToSet(people) : Knows(w, p)
           /\ \A n \in DOMAIN w.byToken \ DOMAIN v.byToken : Titled(w, n)
<1> DEFINE N == Len(people)
           D == {u \in Vaults : Sound(u) /\ Extends(v, u)}
           Body(u, i) == RegisterPerson(u, people[i], fresh[i])
           step == [i \in 1..N |-> [u \in D |->
                       IF fresh[i] \in DOMAIN u.byToken THEN u ELSE Body(u, i)]]
           f == CHOOSE g : g = [i \in 0..N |-> IF i = 0 THEN v ELSE Body(g[i - 1], i)]
           All(u, i) ==
               /\ DOMAIN u.byToken \subseteq DOMAIN v.byToken \cup {fresh[j] : j \in 1..i}
               /\ \A j \in 1..i : Knows(u, people[j])
               /\ \A n \in DOMAIN u.byToken \ DOMAIN v.byToken : Titled(u, n)
<1>1. w = f[N]
    BY DEF Entered
<1> HIDE DEF f
<1>2. /\ N \in Nat
      /\ \A i \in 1..N : people[i] \in Everyone /\ fresh[i] \in Numbers \ DOMAIN v.byToken
      /\ \A i, j \in 1..N : fresh[i] = fresh[j] => i = j
      /\ ToSet(people) = {people[i] : i \in 1..N}
    BY DrawsAre
<1> HIDE DEF N, Body
<1>3. v \in D
    BY ExtendsFacts DEF Sound
<1>4. ASSUME NEW i \in 1..N, NEW u \in D, fresh[i] \notin DOMAIN u.byToken
      PROVE  /\ Body(u, i) \in D /\ Sound(Body(u, i)) /\ Extends(u, Body(u, i))
             /\ Knows(Body(u, i), people[i])
             /\ DOMAIN Body(u, i).byToken \subseteq DOMAIN u.byToken \cup {fresh[i]}
             /\ \A n \in DOMAIN Body(u, i).byToken \ DOMAIN u.byToken : Titled(Body(u, i), n)
  <2> DEFINE p == people[i]
             m == fresh[i]
             next == Body(u, i)
  <2>1. p \in Everyone /\ m \in Numbers \ DOMAIN u.byToken /\ Sound(u) /\ Extends(v, u)
      BY <1>2, <1>4
  <2>2. next = RegisterPerson(u, p, m)
      BY DEF Body
  <2> HIDE DEF p, m, next
  <2>3. /\ Sound(next) /\ Extends(u, next) /\ Knows(next, p)
        /\ DOMAIN next.byToken \subseteq DOMAIN u.byToken \cup {m}
        /\ \A n \in DOMAIN next.byToken \ DOMAIN u.byToken : Titled(next, n)
      BY <2>1, <2>2, RegistersPerson
  <2>4. next \in D
      BY <2>1, <2>3, ExtendsFacts DEF Sound
  <2> QED
      BY <2>3, <2>4 DEF p, m, next
<1>5. step \in [1..N -> [D -> D]]
    BY <1>4
<1>6. PICK g : Follows(g, N, D, v, step)
  <2> HIDE DEF step, D
  <2> QED
      BY <1>2, <1>3, <1>5, Recursion
<1>7. /\ g[0] = v
      /\ \A i \in 1..N : /\ g[i - 1] \in D
                         /\ fresh[i] \notin DOMAIN g[i - 1].byToken => g[i] = Body(g[i - 1], i)
  <2>1. \A i \in 1..N : i - 1 \in 0..N /\ g[i - 1] \in D
      BY <1>2, <1>6 DEF Follows
  <2> QED
      BY <1>6, <2>1 DEF Follows
<1>8. g \in [0..N -> D]
    BY <1>6 DEF Follows
<1> HIDE DEF D, step
<1> DEFINE S == {i \in 0..N : All(g[i], i)}
<1>9. 0 \in S
    BY <1>2, <1>7
<1>10. ASSUME NEW i \in 1..N, i - 1 \in S
       PROVE  i \in S /\ fresh[i] \notin DOMAIN g[i - 1].byToken
  <2>1. All(g[i - 1], i - 1) /\ i \in 0..N
      BY <1>10
  <2>2. fresh[i] \notin DOMAIN g[i - 1].byToken
    <3>1. \A j \in 1..i - 1 : j \in 1..N /\ j # i
        BY <1>2
    <3>2. fresh[i] \notin {fresh[j] : j \in 1..i - 1}
        BY <1>2, <3>1
    <3> QED
        BY <1>2, <2>1, <3>2
  <2> DEFINE u == g[i - 1]
             next == Body(u, i)
  <2>3. u \in D /\ g[i] = next
      BY <1>7, <2>2
  <2>4. /\ Sound(next) /\ Extends(u, next) /\ Knows(next, people[i])
        /\ DOMAIN next.byToken \subseteq DOMAIN u.byToken \cup {fresh[i]}
        /\ \A n \in DOMAIN next.byToken \ DOMAIN u.byToken : Titled(next, n)
      BY <1>4, <2>2, <2>3
  <2>5. Sound(u)
      BY <2>3 DEF D
  <2>6. All(u, i - 1)
      BY <2>1
  <2> HIDE DEF u, next
  <2>7. \A j \in 1..i - 1 : Knows(next, people[j])
      BY <2>4, <2>5, <2>6, KnowledgeStays
  <2>8. \A n \in DOMAIN u.byToken \ DOMAIN v.byToken : Titled(next, n)
      BY <2>4, <2>5, <2>6, KnowledgeStays
  <2>9. \A n \in DOMAIN next.byToken \ DOMAIN v.byToken : Titled(next, n)
      BY <2>4, <2>8
  <2>10. \A j \in 1..i : Knows(next, people[j])
    <3>1. \A j \in 1..i : j = i \/ j \in 1..i - 1
        OBVIOUS
    <3> QED
        BY <2>4, <2>7, <3>1
  <2>11. DOMAIN next.byToken \subseteq DOMAIN v.byToken \cup {fresh[j] : j \in 1..i}
    <3>1. {fresh[j] : j \in 1..i - 1} \cup {fresh[i]} \subseteq {fresh[j] : j \in 1..i}
        OBVIOUS
    <3> QED
        BY <2>4, <2>6, <3>1
  <2>12. All(next, i)
      BY <2>9, <2>10, <2>11
  <2> QED
      BY <2>1, <2>2, <2>3, <2>12
<1> HIDE DEF All
<1>11. 0..N \subseteq S
  <2> HIDE DEF S
  <2> QED
      BY <1>2, <1>9, <1>10, Upward
<1>12. \A i \in 1..N : g[i] = Body(g[i - 1], i)
  <2> TAKE i \in 1..N
  <2>1. i - 1 \in S
      BY <1>2, <1>11
  <2> QED
      BY <1>7, <1>10, <2>1
<1>13. g = [i \in 0..N |-> IF i = 0 THEN v ELSE Body(g[i - 1], i)]
    BY <1>2, <1>7, <1>8, <1>12
<1>14. f = [i \in 0..N |-> IF i = 0 THEN v ELSE Body(f[i - 1], i)]
    BY <1>13 DEF f
<1> DEFINE T == {i \in 0..N : f[i] = g[i]}
<1>15. 0..N \subseteq T
  <2>1. 0 \in T
      BY <1>2, <1>7, <1>14
  <2>2. ASSUME NEW i \in 1..N, i - 1 \in T PROVE i \in T
    <3>1. i \in 0..N /\ f[i] = Body(f[i - 1], i) /\ f[i - 1] = g[i - 1]
        BY <1>2, <1>14, <2>2
    <3> QED
        BY <1>12, <3>1
  <2> HIDE DEF T
  <2> QED
      BY <1>2, <2>1, <2>2, Upward
<1>16. w = g[N] /\ g[N] \in D /\ All(g[N], N)
  <2>1. N \in 0..N
      BY <1>2
  <2> QED
      BY <1>1, <1>8, <1>11, <1>15, <2>1
<1> QED
    BY <1>2, <1>16 DEF All, D, N

-----------------------------------------------------------------------------
(* The order of the replacer. *)

SizeOf(r) == Size(r.value)
Sorted(s) == \A i, j \in 1..Len(s) : i < j => SizeOf(s[i]) >= SizeOf(s[j])

LEMMA SizeOfEntries == \A r \in Entries : SizeOf(r) \in Nat
  BY SizeTypes DEF Entries, SizeOf

(* Place finds the end of those that are as long. *)
LEMMA Places ==
    ASSUME NEW s \in Seq(Entries), Sorted(s), NEW r \in Entries,
           NEW k, k = Place(s, r)
    PROVE  /\ k \in 0..Len(s)
           /\ \A i \in 1..k : SizeOf(s[i]) >= SizeOf(r)
           /\ \A i \in k + 1..Len(s) : SizeOf(s[i]) < SizeOf(r)
<1> DEFINE n == Len(s)
           Behind(l) == \A i \in l + 1..n : SizeOf(s[i]) < SizeOf(r)
           S == {l \in 0..n : Behind(l)}
<1>1. n \in Nat /\ SizeOf(r) \in Nat /\ \A i \in 1..n : SizeOf(s[i]) \in Nat
    BY SizeOfEntries
<1>2. S \in SUBSET Nat /\ n \in S
    BY <1>1
<1>3. PICK l \in S : \A m \in S : l <= m
  <2> HIDE DEF S
  <2> QED
      BY <1>2, Least
<1>4. l \in 0..n /\ Behind(l)
    OBVIOUS
<1>5. \A i \in 1..l : SizeOf(s[i]) >= SizeOf(r)
  <2> TAKE i \in 1..l
  <2>1. l - 1 \notin S
    <3> HIDE DEF S
    <3> QED
        BY <1>3, <1>4
  <2>2. ~Behind(l - 1)
      BY <1>4, <2>1
  <2>3. SizeOf(s[l]) >= SizeOf(r)
    <3>1. PICK m \in (l - 1) + 1..n : ~(SizeOf(s[m]) < SizeOf(r))
        BY <2>2
    <3>2. m = l
      <4>1. ~(m \in l + 1..n)
          BY <1>4, <3>1
      <4> QED
          BY <1>1, <1>4, <4>1
    <3> QED
        BY <1>1, <1>4, <3>1, <3>2
  <2>4. i = l \/ SizeOf(s[i]) >= SizeOf(s[l])
      BY <1>1, <1>4 DEF Sorted
  <2> QED
      BY <1>1, <1>4, <2>3, <2>4
<1>6. k = CHOOSE l_1 \in 0..n : /\ \A i \in 1..l_1 : SizeOf(s[i]) >= SizeOf(r)
                                /\ \A i \in l_1 + 1..n : SizeOf(s[i]) < SizeOf(r)
    BY DEF Place, SizeOf
<1> HIDE DEF S
<1> QED
    BY <1>4, <1>5, <1>6

IsPut(s, r, k, t) ==
    /\ Len(t) = Len(s) + 1
    /\ \A i \in 1..k : t[i] = s[i]
    /\ t[k + 1] = r
    /\ \A i \in k + 2..Len(s) + 1 : t[i] = s[i - 1]

LEMMA PutAtIs ==
    ASSUME NEW S, NEW s \in Seq(S), NEW r \in S, NEW k \in 0..Len(s),
           NEW t, t = PutAt(s, r, k)
    PROVE  t \in Seq(S) /\ IsPut(s, r, k, t)
<1> DEFINE a == SubSeq(s, 1, k)
           b == SubSeq(s, k + 1, Len(s))
           ar == a \o <<r>>
<1>1. /\ a \in Seq(S) /\ Len(a) = k /\ \A i \in 1..k : a[i] = s[i]
      /\ b \in Seq(S) /\ Len(b) = Len(s) - k
      /\ \A i \in 1..Len(s) - k : b[i] = s[i + k]
      /\ Len(s) \in Nat /\ k \in Nat /\ k <= Len(s)
    OBVIOUS
<1>2. t = ar \o b
    BY DEF PutAt
<1> HIDE DEF a, b
<1>3. ar \in Seq(S) /\ Len(ar) = k + 1 /\ ar[k + 1] = r /\ \A i \in 1..k : ar[i] = a[i]
  <2>1. /\ Append(a, r) \in Seq(S) /\ Len(Append(a, r)) = k + 1 /\ Append(a, r)[k + 1] = r
        /\ \A i \in 1..k : Append(a, r)[i] = a[i]
      BY <1>1
  <2>2. ar = Append(a, r)
      BY <1>1
  <2> QED
      BY <2>1, <2>2
<1> HIDE DEF ar
<1>4. /\ t \in Seq(S) /\ Len(t) = Len(s) + 1
      /\ \A i \in 1..k + 1 : t[i] = ar[i]
      /\ \A i \in k + 2..Len(s) + 1 : t[i] = b[i - (k + 1)]
    BY <1>1, <1>2, <1>3
<1>5. \A i \in k + 2..Len(s) + 1 : t[i] = s[i - 1]
  <2> TAKE i \in k + 2..Len(s) + 1
  <2>1. i - (k + 1) \in 1..Len(s) - k /\ i - (k + 1) + k = i - 1
      BY <1>1
  <2> QED
      BY <1>1, <1>4, <2>1
<1> QED
    BY <1>1, <1>3, <1>4, <1>5 DEF IsPut

(* One entry more, and still the longest first. *)
LEMMA PutInOrder ==
    ASSUME NEW s \in Seq(Entries), Sorted(s), NEW r \in Entries,
           NEW t, t = PutAt(s, r, Place(s, r))
    PROVE  t \in Seq(Entries) /\ Sorted(t) /\ ToSet(t) = ToSet(s) \cup {r}
<1> DEFINE k == Place(s, r)
           n == Len(s)
<1>1. /\ k \in 0..n
      /\ \A i \in 1..k : SizeOf(s[i]) >= SizeOf(r)
      /\ \A i \in k + 1..n : SizeOf(s[i]) < SizeOf(r)
    BY Places
<1>2. t = PutAt(s, r, k) /\ k \in 0..Len(s)
    BY <1>1
<1> HIDE DEF k
<1>3. /\ t \in Seq(Entries) /\ Len(t) = n + 1
      /\ \A i \in 1..k : t[i] = s[i]
      /\ t[k + 1] = r
      /\ \A i \in k + 2..n + 1 : t[i] = s[i - 1]
  <2>1. t \in Seq(Entries) /\ IsPut(s, r, k, t)
      BY <1>2, PutAtIs
  <2> QED
      BY <2>1 DEF IsPut
<1>4. n \in Nat /\ DOMAIN s = 1..n /\ DOMAIN t = 1..n + 1
    BY <1>3
<1>5. SizeOf(r) \in Nat /\ \A i \in 1..n : SizeOf(s[i]) \in Nat
    BY SizeOfEntries
<1> HIDE DEF n
<1>6. Sorted(t)
  <2> SUFFICES ASSUME NEW i \in 1..n + 1, NEW j \in 1..n + 1, i < j
               PROVE  SizeOf(t[i]) >= SizeOf(t[j])
      BY <1>3 DEF Sorted
  <2> DEFINE At(l) == IF l <= k THEN l ELSE l - 1
  <2>1. \A a, b \in 1..n : a <= b => SizeOf(s[a]) >= SizeOf(s[b])
    <3> TAKE a, b \in 1..n
    <3>1. a < b => SizeOf(s[a]) >= SizeOf(s[b])
        BY DEF Sorted, n
    <3> QED
        BY <1>4, <1>5, <3>1
  <2>2. \A l \in 1..n + 1 : l # k + 1 => At(l) \in 1..n /\ t[l] = s[At(l)]
      BY <1>1, <1>3, <1>4
  <2>3. CASE i # k + 1 /\ j # k + 1
    <3>1. At(i) <= At(j)
        BY <1>1, <1>4
    <3> QED
        BY <2>1, <2>2, <2>3, <3>1
  <2>4. CASE i = k + 1
    <3>1. j - 1 \in k + 1..n /\ j \in k + 2..n + 1
        BY <1>1, <1>4, <2>4
    <3>2. SizeOf(s[j - 1]) < SizeOf(r) /\ t[j] = s[j - 1] /\ SizeOf(s[j - 1]) \in Nat
        BY <1>1, <1>3, <1>4, <1>5, <3>1
    <3> QED
        BY <1>3, <1>5, <2>4, <3>2
  <2>5. CASE j = k + 1
    <3>1. i \in 1..k
        BY <1>1, <1>4, <2>5
    <3> QED
        BY <1>1, <1>3, <2>5, <3>1
  <2> QED
      BY <2>3, <2>4, <2>5
<1>7. ToSet(t) \subseteq ToSet(s) \cup {r}
  <2> SUFFICES ASSUME NEW i \in 1..n + 1 PROVE t[i] \in ToSet(s) \cup {r}
      BY <1>4 DEF ToSet
  <2>1. CASE i = k + 1
      BY <1>3, <2>1
  <2>2. CASE i \in 1..k
      BY <1>1, <1>3, <1>4, <2>2 DEF ToSet
  <2>3. CASE i \in k + 2..n + 1
    <3>1. i - 1 \in 1..n
        BY <1>1, <1>4, <2>3
    <3> QED
        BY <1>3, <1>4, <2>3, <3>1 DEF ToSet
  <2> QED
      BY <1>1, <1>4, <2>1, <2>2, <2>3
<1>8. ToSet(s) \cup {r} \subseteq ToSet(t)
  <2>1. k + 1 \in 1..n + 1
      BY <1>1, <1>4
  <2>2. r \in ToSet(t)
      BY <1>3, <1>4, <2>1 DEF ToSet
  <2>3. ASSUME NEW i \in 1..n PROVE s[i] \in ToSet(t)
    <3>1. CASE i <= k
      <4>1. i \in 1..k /\ i \in 1..n + 1
          BY <1>1, <1>4, <3>1
      <4> QED
          BY <1>3, <1>4, <4>1 DEF ToSet
    <3>2. CASE ~(i <= k)
      <4>1. i + 1 \in k + 2..n + 1 /\ (i + 1) - 1 = i /\ i + 1 \in 1..n + 1
          BY <1>1, <1>4, <3>2
      <4> QED
          BY <1>3, <1>4, <4>1 DEF ToSet
    <3> QED
        BY <3>1, <3>2
  <2> QED
      BY <1>4, <2>2, <2>3 DEF ToSet
<1> QED
    BY <1>3, <1>6, <1>7, <1>8

(* Sorting keeps the entries and puts the longest first. *)
LEMMA Sorts ==
    ASSUME NEW rs \in Seq(Entries), NEW t, t = SortReplacer(rs)
    PROVE  t \in Seq(Entries) /\ Sorted(t) /\ ToSet(t) = ToSet(rs)
<1> DEFINE N == Len(rs)
           D == {s \in Seq(Entries) : Sorted(s)}
           insert(s, r) == PutAt(s, r, Place(s, r))
           step == [i \in 1..N |-> [s \in D |-> insert(s, rs[i])]]
           f == CHOOSE g : g = [i \in 0..N |-> IF i = 0 THEN <<>> ELSE insert(g[i - 1], rs[i])]
<1>1. t = f[N]
    BY DEF SortReplacer
<1> HIDE DEF f, insert
<1>2. N \in Nat /\ DOMAIN rs = 1..N /\ \A i \in 1..N : rs[i] \in Entries
    OBVIOUS
<1> HIDE DEF N
<1>3. <<>> \in D
    BY DEF Sorted
<1>4. ASSUME NEW i \in 1..N, NEW s \in D
      PROVE  insert(s, rs[i]) \in D /\ ToSet(insert(s, rs[i])) = ToSet(s) \cup {rs[i]}
    BY <1>2, PutInOrder DEF insert
<1>5. step \in [1..N -> [D -> D]]
    BY <1>4
<1>6. PICK g : Follows(g, N, D, <<>>, step)
  <2> HIDE DEF step, D
  <2> QED
      BY <1>2, <1>3, <1>5, Recursion
<1>7. g = [i \in 0..N |-> IF i = 0 THEN <<>> ELSE insert(g[i - 1], rs[i])]
  <2>1. ASSUME NEW i \in 1..N PROVE g[i] = insert(g[i - 1], rs[i])
    <3>1. i - 1 \in 0..N /\ g[i - 1] \in D
        BY <1>2, <1>6 DEF Follows
    <3> QED
        BY <1>6, <3>1 DEF Follows
  <2> HIDE DEF D, step
  <2> QED
      BY <1>2, <1>6, <2>1 DEF Follows
<1>8. f = [i \in 0..N |-> IF i = 0 THEN <<>> ELSE insert(f[i - 1], rs[i])]
    BY <1>7 DEF f
<1> HIDE DEF D, step
<1> DEFINE S == {i \in 0..N : f[i] \in D /\ ToSet(f[i]) = {rs[j] : j \in 1..i}}
<1>9. 0 \in S
  <2>1. ToSet(<<>>) = {}
      BY DEF ToSet
  <2> QED
      BY <1>2, <1>3, <1>8, <2>1
<1>10. ASSUME NEW i \in 1..N, i - 1 \in S PROVE i \in S
  <2>1. /\ i \in 0..N /\ f[i] = insert(f[i - 1], rs[i]) /\ f[i - 1] \in D
        /\ ToSet(f[i - 1]) = {rs[j] : j \in 1..i - 1}
      BY <1>2, <1>8, <1>10
  <2>2. f[i] \in D /\ ToSet(f[i]) = ToSet(f[i - 1]) \cup {rs[i]}
      BY <1>4, <2>1
  <2>3. {rs[j] : j \in 1..i} = {rs[j] : j \in 1..i - 1} \cup {rs[i]}
    <3>1. \A j \in 1..i : j = i \/ j \in 1..i - 1
        OBVIOUS
    <3>2. \A j \in 1..i - 1 : j \in 1..i
        OBVIOUS
    <3>3. i \in 1..i
        OBVIOUS
    <3> QED
        BY <3>1, <3>2, <3>3
  <2> QED
      BY <2>1, <2>2, <2>3
<1> HIDE DEF S
<1>11. 0..N \subseteq S
    BY <1>2, <1>9, <1>10, Upward
<1>12. t \in D /\ ToSet(t) = {rs[j] : j \in 1..N}
  <2>1. N \in S
      BY <1>2, <1>11
  <2> QED
      BY <1>1, <2>1 DEF S
<1> QED
    BY <1>2, <1>12 DEF D, ToSet

(* What holds of the vault after NewVault and every Update. *)
Ready(v) == Sound(v) /\ Sorted(v.replacer) /\ \A n \in DOMAIN v.byToken : Titled(v, n)

(* NewVault and Update lead from a ready vault to a ready one that knows the
   people. *)
LEMMA Learns ==
    ASSUME NEW v, Ready(v), NEW people \in Indexes, NEW fresh \in Draws(v, people),
           NEW w, w = Learned(v, people, fresh)
    PROVE  /\ Ready(w) /\ Extends(v, w)
           /\ DOMAIN w.byToken \subseteq DOMAIN v.byToken \cup {fresh[i] : i \in 1..Len(people)}
           /\ \A p \in ToSet(people) : Knows(w, p)
<1> DEFINE all == Entered(v, people, fresh)
           sorted == SortReplacer(all.replacer)
<1>1. w = [all EXCEPT !.replacer = sorted]
    BY DEF Learned
<1>2. /\ Sound(all) /\ Extends(v, all)
      /\ DOMAIN all.byToken \subseteq DOMAIN v.byToken \cup {fresh[i] : i \in 1..Len(people)}
      /\ \A p \in ToSet(people) : Knows(all, p)
      /\ \A n \in DOMAIN all.byToken \ DOMAIN v.byToken : Titled(all, n)
  <2>1. all = Entered(v, people, fresh)
      OBVIOUS
  <2> HIDE DEF all
  <2> QED
      BY <2>1, Enters DEF Ready
<1> HIDE DEF all
<1>3. all \in Vaults /\ all.replacer \in Seq(Entries)
    BY <1>2, VaultTypes DEF Sound
<1>4. sorted \in Seq(Entries) /\ Sorted(sorted) /\ ToSet(sorted) = ToSet(all.replacer)
    BY <1>3, Sorts
<1> HIDE DEF sorted
<1>5. all = [byValue |-> all.byValue, byToken |-> all.byToken, replacer |-> all.replacer]
    BY <1>3, VaultTypes
<1>6. w = [byValue |-> all.byValue, byToken |-> all.byToken, replacer |-> sorted]
    BY <1>1, <1>5
<1>7. w.byValue = all.byValue /\ w.byToken = all.byToken /\ w.replacer = sorted
    BY <1>6
<1>8. w \in Vaults
  <2>1. /\ DOMAIN all.byValue \in SUBSET Texts /\ all.byValue \in [DOMAIN all.byValue -> Numbers]
        /\ DOMAIN all.byToken \in SUBSET Numbers /\ all.byToken \in [DOMAIN all.byToken -> Texts]
      BY <1>3, VaultTypes
  <2>2. [byValue |-> all.byValue, byToken |-> all.byToken, replacer |-> sorted] \in Vaults
      BY <1>4, <2>1, IsVault
  <2> QED
      BY <1>6, <2>2
<1>9. Sound(w)
    BY <1>2, <1>4, <1>7, <1>8 DEF Sound
<1>10. Extends(all, w)
    BY <1>4, <1>7 DEF Extends
<1>11. Extends(v, w)
    BY <1>2, <1>10, ExtendsFacts
<1>12. \A p \in ToSet(people) : Knows(w, p)
    BY <1>2, <1>9, <1>10, KnowledgeStays
<1>13. \A n \in DOMAIN w.byToken : Titled(w, n)
  <2> TAKE n \in DOMAIN w.byToken
  <2>1. CASE n \in DOMAIN v.byToken
    <3>1. Titled(v, n) /\ Sound(v)
        BY <2>1 DEF Ready
    <3> QED
        BY <1>9, <1>11, <2>1, <3>1, KnowledgeStays
  <2>2. CASE n \notin DOMAIN v.byToken
    <3>1. n \in DOMAIN all.byToken /\ Titled(all, n)
        BY <1>2, <1>7, <2>2
    <3> QED
        BY <1>2, <1>9, <1>10, <3>1, KnowledgeStays
  <2> QED
      BY <2>1, <2>2
<1> QED
    BY <1>2, <1>4, <1>7, <1>9, <1>11, <1>12, <1>13 DEF Ready

LEMMA StartsReady == Ready(NoVault)
<1> DEFINE v == NoVault
<1>1. v.byValue = <<>> /\ v.byToken = <<>> /\ v.replacer = <<>>
    BY DEF NoVault
<1>2. v \in Vaults
  <2>1. /\ <<>> \in [{} -> Numbers] /\ {} \in SUBSET Texts
        /\ <<>> \in [{} -> Texts] /\ {} \in SUBSET Numbers /\ <<>> \in Seq(Entries)
      OBVIOUS
  <2>2. [byValue |-> <<>>, byToken |-> <<>>, replacer |-> <<>>] \in Vaults
      BY <2>1, IsVault
  <2> QED
      BY <2>2 DEF NoVault
<1>3. DOMAIN v.byValue = {} /\ DOMAIN v.byToken = {} /\ ToSet(v.replacer) = {}
    BY <1>1 DEF ToSet
<1>4. Sorted(v.replacer)
    BY <1>1 DEF Sorted
<1> HIDE DEF v
<1> QED
    BY <1>2, <1>3, <1>4 DEF Ready, Sound, v

-----------------------------------------------------------------------------
(* Redaction. *)

Leaves(text, r) == Replaced(text, r.value, r.token) = text

(* One value of the list is replaced in the text, and nothing else is. *)
LEMMA RedactsOnce ==
    ASSUME NEW text, NEW result, NEW rs, rs = vault.replacer, Len(rs) \in Nat,
           NEW k \in 1..Len(rs),
           \A i \in 1..k - 1 : Leaves(text, rs[i]),
           Replaced(text, rs[k].value, rs[k].token) = result,
           \A i \in k + 1..Len(rs) : Leaves(result, rs[i])
    PROVE  Redact(text) = result
<1> DEFINE N == Len(rs)
           Body(t, i) == Replaced(t, rs[i].value, rs[i].token)
           f == CHOOSE h : h = [i \in 0..N |-> IF i = 0 THEN text ELSE Body(h[i - 1], i)]
           g == [i \in 0..N |-> IF i < k THEN text ELSE result]
<1>1. Redact(text) = f[N]
    BY DEF Redact
<1> HIDE DEF f
<1>2. /\ \A i \in 1..k - 1 : Body(text, i) = text
      /\ Body(text, k) = result
      /\ \A i \in k + 1..N : Body(result, i) = result
    BY DEF Leaves
<1> HIDE DEF Body
<1>3. N \in Nat /\ k \in 1..N
    OBVIOUS
<1> HIDE DEF N
<1>4. ASSUME NEW i \in 1..N PROVE g[i] = Body(g[i - 1], i)
  <2>1. CASE i < k
    <3>1. i \in 1..k - 1 /\ g[i] = text /\ g[i - 1] = text
        BY <1>3, <2>1
    <3> QED
        BY <1>2, <3>1
  <2>2. CASE i = k
    <3>1. g[i] = result /\ g[i - 1] = text
        BY <1>3, <2>2
    <3> QED
        BY <1>2, <2>2, <3>1
  <2>3. CASE i > k
    <3>1. i \in k + 1..N /\ g[i] = result /\ g[i - 1] = result
        BY <1>3, <2>3
    <3> QED
        BY <1>2, <3>1
  <2> QED
      BY <1>3, <2>1, <2>2, <2>3
<1>5. g[0] = text /\ g[N] = result
    BY <1>3
<1>6. g = [i \in 0..N |-> IF i = 0 THEN text ELSE Body(g[i - 1], i)]
  <2>1. g = [i \in 0..N |-> g[i]]
      OBVIOUS
  <2> HIDE DEF g
  <2>2. \A i \in 0..N : g[i] = IF i = 0 THEN text ELSE Body(g[i - 1], i)
      BY <1>3, <1>4, <1>5
  <2> QED
      BY <2>1, <2>2, Zenon
<1>7. f = [i \in 0..N |-> IF i = 0 THEN text ELSE Body(f[i - 1], i)]
  <2> HIDE DEF g
  <2> QED
      BY <1>6 DEF f
<1> HIDE DEF g
<1> DEFINE S == {i \in 0..N : f[i] = g[i]}
<1>8. 0 \in S
    BY <1>3, <1>5, <1>7
<1>9. ASSUME NEW i \in 1..N, i - 1 \in S PROVE i \in S
  <2>1. i \in 0..N /\ f[i] = Body(f[i - 1], i) /\ f[i - 1] = g[i - 1]
      BY <1>3, <1>7, <1>9
  <2> QED
      BY <1>4, <2>1
<1> HIDE DEF S
<1>10. 0..N \subseteq S
    BY <1>3, <1>8, <1>9, Upward
<1>11. N \in S
    BY <1>3, <1>10
<1> QED
    BY <1>1, <1>5, <1>11 DEF S

(* A value that is as long does not occur in another text. *)
LEMMA NotWithin ==
    ASSUME NEW text \in Texts, NEW value \in Texts, value # <<>>, value # text,
           Size(value) >= Size(text)
    PROVE  ~Occurs(text, value)
<1> SUFFICES ASSUME NEW i \in 1..Len(text), OccursAt(text, value, i) PROVE FALSE
    BY DEF Occurs
<1> DEFINE j == i + Len(value) - 1
<1>1. Len(value) \in Nat \ {0} /\ Len(text) \in Nat
    BY DEF Texts
<1>2. j <= Len(text) /\ SubSeq(text, i, j) = value
    BY DEF OccursAt
<1>3. i \in 1..Len(text) + 1 /\ j \in 0..Len(text) /\ i <= j + 1
    BY <1>1, <1>2
<1> HIDE DEF j
<1>4. /\ SubSeq(text, i, j) # text => Size(SubSeq(text, i, j)) < Size(text)
      /\ Size(text) \in Nat /\ Size(SubSeq(text, i, j)) \in Nat
    BY <1>3, PartsAreShorter
<1> QED
    BY <1>2, <1>4

(* What occurs in a text has its characters. *)
LEMMA OccursWith ==
    ASSUME NEW S, NEW text \in Seq(S), NEW value \in Seq(S), NEW i \in 1..Len(text),
           OccursAt(text, value, i), NEW k \in 1..Len(value)
    PROVE  i + k - 1 \in 1..Len(text) /\ text[i + k - 1] = value[k]
<1> DEFINE j == i + Len(value) - 1
<1>1. j <= Len(text) /\ value = SubSeq(text, i, j)
    BY DEF OccursAt
<1>2. Len(text) \in Nat /\ Len(value) \in Nat
    OBVIOUS
<1>3. i + k - 1 \in 1..Len(text) /\ k \in 1..(j - i + 1)
    BY <1>1, <1>2
<1>4. j \in Nat /\ i \in Nat
    BY <1>2
<1> HIDE DEF j
<1>5. SubSeq(text, i, j)[k] = text[i + k - 1]
    BY <1>1, <1>2, <1>3, <1>4
<1> QED
    BY <1>1, <1>3, <1>5

(* Where a value occurs, it begins. *)
LEMMA OccursBegins ==
    ASSUME NEW S, NEW text \in Seq(S), NEW value \in Seq(S), Len(value) \in Nat \ {0},
           NEW i \in 1..Len(text), OccursAt(text, value, i)
    PROVE  text[i] = value[1]
<1>1. 1 \in 1..Len(value) /\ i + 1 - 1 = i
    OBVIOUS
<1>2. text[i + 1 - 1] = value[1]
    BY <1>1, OccursWith
<1> QED
    BY <1>1, <1>2

(* Nor does any value occur in a token. *)
LEMMA NotInToken ==
    ASSUME NEW n \in Numbers, NEW value \in Texts, value # <<>>
    PROVE  ~Occurs(TokenText(n), value)
<1> DEFINE text == TokenText(n)
<1>1. /\ text \in Seq(Glyphs) /\ value \in Seq(Glyphs)
      /\ \A i \in DOMAIN text : text[i] \notin Words
    BY TokenTypes, GlyphTypes
<1>2. 1 \in 1..Len(value) /\ value[1] \in Words
    BY DEF Texts
<1> HIDE DEF text
<1> SUFFICES ASSUME NEW i \in 1..Len(text), OccursAt(text, value, i) PROVE FALSE
    BY DEF Occurs, text
<1>3. i + 1 - 1 \in 1..Len(text) /\ text[i + 1 - 1] = value[1]
    BY <1>1, <1>2, OccursWith
<1> QED
    BY <1>1, <1>2, <1>3

(* The place where the list has the entry first. *)
LEMMA FirstPlace ==
    ASSUME NEW v, Ready(v), NEW r \in ToSet(v.replacer)
    PROVE  LET rs == v.replacer IN
           /\ rs \in Seq(Entries) /\ Len(rs) \in Nat
           /\ \A i \in 1..Len(rs) : /\ rs[i] \in Entries /\ rs[i].value \in Texts
                                    /\ rs[i].value # <<>> /\ Long(rs[i].value)
           /\ \E k \in 1..Len(rs) :
                  /\ rs[k] = r
                  /\ \A i \in 1..k - 1 : rs[i].value # r.value /\ Size(rs[i].value) >= Size(r.value)
<1> DEFINE rs == v.replacer
           S == {k \in 1..Len(rs) : rs[k] = r}
<1>1. rs \in Seq(Entries) /\ Sorted(rs)
    BY VaultTypes DEF Ready, Sound
<1>2. Len(rs) \in Nat /\ DOMAIN rs = 1..Len(rs)
    BY <1>1
<1>3. \A i \in 1..Len(rs) : /\ rs[i] \in Entries /\ rs[i].value \in Texts
                            /\ rs[i].value # <<>> /\ Long(rs[i].value)
  <2> TAKE i \in 1..Len(rs)
  <2>1. rs[i] \in Entries /\ rs[i] \in ToSet(rs)
      BY <1>1, <1>2 DEF ToSet
  <2>2. rs[i].value \in Texts /\ Long(rs[i].value)
      BY <2>1 DEF Entries, Ready, Sound
  <2> QED
      BY <2>1, <2>2, SizeTypes
<1>4. S \in SUBSET Nat /\ S # {}
    BY <1>2 DEF ToSet
<1>5. PICK k \in S : \A j \in S : k <= j
  <2> HIDE DEF S
  <2> QED
      BY <1>4, Least
<1>6. k \in 1..Len(rs) /\ rs[k] = r
    OBVIOUS
<1>7. ASSUME NEW i \in 1..k - 1 PROVE rs[i].value # r.value /\ Size(rs[i].value) >= Size(r.value)
  <2>1. i \in 1..Len(rs) /\ i < k
      BY <1>2, <1>6
  <2>2. i \notin S
    <3> HIDE DEF S
    <3> QED
        BY <1>5, <1>6, <2>1
  <2>3. rs[i] # r /\ rs[i] \in ToSet(rs)
      BY <1>2, <2>1, <2>2 DEF ToSet
  <2>4. rs[i].value # r.value
      BY <2>3 DEF Ready, Sound
  <2>5. SizeOf(rs[i]) >= SizeOf(rs[k])
      BY <1>1, <1>6, <2>1 DEF Sorted
  <2> QED
      BY <1>6, <2>4, <2>5 DEF SizeOf
<1> HIDE DEF S
<1> QED
    BY <1>1, <1>2, <1>3, <1>6, <1>7

(* A name that is shown comes back as its token. *)
LEMMA ComesBack ==
    ASSUME Ready(vault), NEW n \in DOMAIN vault.byToken, Long(vault.byToken[n])
    PROVE  Redact(vault.byToken[n]) = TokenText(n)
<1> DEFINE name == vault.byToken[n]
           r == [value |-> name, token |-> TokenText(n)]
           rs == vault.replacer
<1>1. r \in ToSet(rs) /\ r.value = name /\ r.token = TokenText(n)
    BY DEF Ready, Titled
<1>2. n \in Numbers /\ name \in Texts /\ name # <<>>
    BY VaultTypes, SizeTypes DEF Ready, Sound
<1>3. name \in Seq(Glyphs) /\ TokenText(n) \in Seq(Glyphs) /\ Len(name) \in Nat \ {0}
    BY <1>2, GlyphTypes, TokenTypes
<1> HIDE DEF r, name
<1>4. PICK k \in 1..Len(rs) :
          /\ rs[k] = r
          /\ \A i \in 1..k - 1 : rs[i].value # r.value /\ Size(rs[i].value) >= Size(r.value)
    BY <1>1, FirstPlace
<1>5. /\ Len(rs) \in Nat
      /\ \A i \in 1..Len(rs) : /\ rs[i].value \in Texts /\ rs[i].value # <<>>
                               /\ Len(rs[i].value) \in Nat \ {0}
  <2>1. /\ Len(rs) \in Nat
        /\ \A i \in 1..Len(rs) : rs[i].value \in Texts /\ rs[i].value # <<>>
      BY <1>1, FirstPlace
  <2>2. \A x \in Texts : x # <<>> => Len(x) \in Nat \ {0}
      BY DEF Texts
  <2> QED
      BY <2>1, <2>2
<1>6. ASSUME NEW i \in 1..k - 1 PROVE Leaves(name, rs[i])
  <2>1. i \in 1..Len(rs)
      BY <1>5
  <2>2. ~Occurs(name, rs[i].value)
      BY <1>1, <1>2, <1>4, <1>5, <2>1, NotWithin
  <2> QED
      BY <1>3, <1>5, <2>1, <2>2, NothingReplaced DEF Leaves
<1>7. Replaced(name, rs[k].value, rs[k].token) = TokenText(n)
  <2>1. OnlyAt(name, name, 0)
    <3>1. SubSeq(name, 1, Len(name)) = name
        BY <1>3
    <3>2. ASSUME NEW i \in 1..Len(name) PROVE OccursAt(name, name, i) <=> i = 0 + 1
        BY <1>3, <3>1 DEF OccursAt
    <3> QED
        BY <3>2 DEF OnlyAt
  <2> DEFINE m == Len(name)
  <2>2. m \in Nat /\ 0 + m <= m /\ 0 \in Nat
      BY <1>3
  <2>3. Replaced(name, name, TokenText(n)) = Spliced(name, TokenText(n), 0, m)
      BY <1>2, <1>3, <2>1, <2>2, OneReplaced
  <2>4. SubSeq(name, 1, 0) = <<>> /\ SubSeq(name, 0 + m + 1, Len(name)) = <<>>
      BY <1>3
  <2>5. <<>> \o (TokenText(n) \o <<>>) = TokenText(n)
      BY <1>3, Joined
  <2> QED
      BY <1>1, <1>4, <2>3, <2>4, <2>5 DEF Spliced
<1>8. ASSUME NEW i \in k + 1..Len(rs) PROVE Leaves(TokenText(n), rs[i])
  <2>1. i \in 1..Len(rs)
      BY <1>5
  <2>2. ~Occurs(TokenText(n), rs[i].value)
      BY <1>2, <1>5, <2>1, NotInToken
  <2> QED
      BY <1>3, <1>5, <2>1, <2>2, NothingReplaced DEF Leaves
<1>9. Redact(name) = TokenText(n)
  <2> HIDE DEF Leaves
  <2> QED
      BY <1>5, <1>6, <1>7, <1>8, RedactsOnce
<1> QED
    BY <1>9 DEF name

VaultInv == Ready(vault) /\ \A p \in known : p \in Everyone /\ Knows(vault, p)

LEMMA VaultLearns ==
    ASSUME Ready(vault), NEW people \in Indexes, NEW fresh \in Draws(vault, people),
           vault' = Learned(vault, people, fresh)
    PROVE  /\ Ready(vault') /\ Extends(vault, vault')
           /\ DOMAIN vault'.byToken \subseteq
                  DOMAIN vault.byToken \cup {fresh[i] : i \in 1..Len(people)}
           /\ \A p \in ToSet(people) : Knows(vault', p)
<1> DEFINE v == vault
           w == vault'
<1>1. Ready(v) /\ w = Learned(v, people, fresh) /\ fresh \in Draws(v, people)
    OBVIOUS
<1> HIDE DEF v, w
<1>2. /\ Ready(w) /\ Extends(v, w)
      /\ DOMAIN w.byToken \subseteq DOMAIN v.byToken \cup {fresh[i] : i \in 1..Len(people)}
      /\ \A p \in ToSet(people) : Knows(w, p)
    BY <1>1, Learns
<1> QED
    BY <1>2 DEF v, w

LEMMA VaultInit == StreamInit => VaultInv
<1> SUFFICES ASSUME StreamInit PROVE VaultInv
    OBVIOUS
<1>0. PICK people \in Indexes : \E fresh \in Draws(NoVault, people) :
          vault = Learned(NoVault, people, fresh) /\ known = ToSet(people)
    BY DEF StreamInit, NewVault
<1>1. PICK fresh \in Draws(NoVault, people) :
          vault = Learned(NoVault, people, fresh) /\ known = ToSet(people)
    BY <1>0
<1> DEFINE w == vault
<1>2. w = Learned(NoVault, people, fresh)
    BY <1>1
<1> HIDE DEF w
<1>3. Ready(w) /\ \A p \in ToSet(people) : Knows(w, p)
    BY <1>2, StartsReady, Learns
<1>4. \A p \in ToSet(people) : p \in Everyone
    BY DEF Everyone
<1> QED
    BY <1>1, <1>3, <1>4 DEF VaultInv, w

(* Only Learn touches the vault, and the vault stays as it should be. *)
LEMMA VaultStep == VaultInv /\ [StreamNext]_streamVars => VaultInv'
<1> SUFFICES ASSUME VaultInv, [StreamNext]_streamVars PROVE VaultInv'
    OBVIOUS
<1>1. CASE UNCHANGED <<vault, known>>
    BY <1>1 DEF VaultInv
<1>2. ASSUME NEW people \in Indexes, Learn(people) PROVE VaultInv'
  <2>1. PICK fresh \in Draws(vault, people) : Update(people, fresh)
      BY <1>2 DEF Learn
  <2>2. /\ Ready(vault') /\ Extends(vault, vault')
        /\ \A p \in ToSet(people) : Knows(vault', p)
      BY <2>1, VaultLearns DEF VaultInv, Update
  <2>3. \A p \in known : Knows(vault', p)
    <3> DEFINE v == vault
               w == vault'
    <3>1. Sound(v) /\ Sound(w) /\ Extends(v, w) /\ \A p \in known : Knows(v, p)
        BY <2>2 DEF VaultInv, Ready
    <3> HIDE DEF v, w
    <3>2. \A p : Knows(v, p) => Knows(w, p)
        BY <3>1, KnowledgeStays
    <3> QED
        BY <3>1, <3>2 DEF w
  <2>4. \A p \in known \cup ToSet(people) : p \in Everyone
      BY DEF VaultInv, Everyone
  <2>5. known' = known \cup ToSet(people)
      BY <2>1 DEF Update
  <2> QED
      BY <2>2, <2>3, <2>4, <2>5 DEF VaultInv
<1>3. ASSUME NEW n \in 1..MaxChunk, Delta(n) PROVE UNCHANGED <<vault, known>>
    BY <1>3 DEF Delta
<1>4. Finish \/ Fail \/ UNCHANGED streamVars => UNCHANGED <<vault, known>>
    BY DEF Finish, Fail, streamVars
<1> QED
    BY <1>1, <1>2, <1>3, <1>4 DEF StreamNext

(* The name that is shown for a token comes back as the token, so that the
   model finds the people of its own answers again: whatever people share
   names, words of names or handles, however many the vault has learnt in
   between (redact.go:99-132, llm/client.go:344, 352-360). *)
THEOREM VaultBringsNamesBack == StreamSpec => []NamesComeBack
<1>1. VaultInv => NamesComeBack
    BY ComesBack DEF VaultInv, NamesComeBack
<1> QED
    BY <1>1, VaultInit, VaultStep, PTL DEF StreamSpec

-----------------------------------------------------------------------------
(* A name in a sentence. *)

IsHi(w) == w = "hi"
Greeting == <<"hi", " ">>

(* Nobody is called by the words around the name, and nobody's name is the
   possessive of another. *)
Ordinary ==
    /\ {"hi", " "} \subseteq Words
    /\ \A x \in Said : /\ \A i \in DOMAIN x : ~IsHi(x[i])
                       /\ x # <<>> => ~IsSpace(x[1])
    /\ \A x, y \in Said : x # y \o Suffix

LEMMA GreetingTypes ==
    ASSUME Ordinary
    PROVE  /\ Greeting \in Texts /\ Greeting \in Seq(Glyphs) /\ Len(Greeting) = 2
           /\ IsHi(Greeting[1]) /\ IsSpace(Greeting[2])
<1> DEFINE hi == "hi"
           space == " "
<1>0. Greeting = <<hi, space>> /\ hi \in Words /\ space \in Words
    BY DEF Ordinary, Greeting
<1> HIDE DEF hi, space
<1>1. Greeting \in Texts
    BY <1>0 DEF Texts
<1>2. Len(Greeting) = 2 /\ IsHi(Greeting[1]) /\ IsSpace(Greeting[2])
    BY DEF Greeting, IsHi, IsSpace
<1> QED
    BY <1>1, <1>2, GlyphTypes

IsJoin(c, a, b) == c = a \o b

LEMMA PartBehind ==
    ASSUME NEW S, NEW a \in Seq(S), NEW b \in Seq(S), NEW c, IsJoin(c, a, b),
           NEW i \in Nat, NEW j \in Nat, Len(a) < i, i <= j, j <= Len(c)
    PROVE  SubSeq(c, i, j) = SubSeq(b, i - Len(a), j - Len(a))
<1>1. /\ Len(a) \in Nat /\ Len(b) \in Nat /\ c \in Seq(S) /\ Len(c) = Len(a) + Len(b)
      /\ \A k \in 1..Len(b) : c[k + Len(a)] = b[k]
  <2>1. c \in Seq(S)
      BY Joined DEF IsJoin
  <2> QED
      BY <2>1, ConcatParts DEF IsJoin
<1> DEFINE n == Len(a)
           m == Len(b)
<1>2. n \in Nat /\ m \in Nat /\ n < i /\ i <= j /\ j <= n + m /\ Len(c) = n + m
    BY <1>1
<1>3. b \in Seq(S) /\ c \in Seq(S) /\ \A k \in 1..m : c[k + n] = b[k]
    BY <1>1
<1>4. m = Len(b)
    OBVIOUS
<1> HIDE DEF n, m
<1>5. /\ SubSeq(c, i, j) \in Seq(S) /\ Len(SubSeq(c, i, j)) = j - i + 1
      /\ \A k \in 1..j - i + 1 : SubSeq(c, i, j)[k] = c[i + k - 1]
    BY <1>2, <1>3
<1>6. /\ SubSeq(b, i - n, j - n) \in Seq(S) /\ Len(SubSeq(b, i - n, j - n)) = j - i + 1
      /\ \A k \in 1..j - i + 1 : SubSeq(b, i - n, j - n)[k] = b[i - n + k - 1]
    BY <1>2, <1>3, <1>4
<1>7. \A k \in 1..j - i + 1 : c[i + k - 1] = b[i - n + k - 1]
  <2> TAKE k \in 1..j - i + 1
  <2>1. i - n + k - 1 \in 1..m /\ i - n + k - 1 + n = i + k - 1
      BY <1>2
  <2> QED
      BY <1>3, <2>1
<1> DEFINE s == SubSeq(c, i, j)
           t == SubSeq(b, i - n, j - n)
<1>8. /\ s \in Seq(S) /\ t \in Seq(S) /\ Len(s) = Len(t)
      /\ \A k \in 1..Len(s) : s[k] = t[k]
    BY <1>5, <1>6, <1>7
<1> HIDE DEF s, t
<1>9. s = t
    BY <1>8, SeqEqual
<1> QED
    BY <1>9 DEF s, t, n

LEMMA OccursBehind ==
    ASSUME NEW S, NEW a \in Seq(S), NEW b \in Seq(S), NEW c, IsJoin(c, a, b),
           NEW value, Len(value) \in Nat \ {0},
           NEW i \in Nat, Len(a) < i
    PROVE  OccursAt(c, value, i) <=> OccursAt(b, value, i - Len(a))
<1>1. Len(a) \in Nat /\ Len(b) \in Nat /\ Len(c) = Len(a) + Len(b)
    BY ConcatParts DEF IsJoin
<1> DEFINE j == i + Len(value) - 1
<1>2. CASE j <= Len(c)
  <2>1. j \in Nat /\ i <= j
      BY <1>1
  <2> HIDE DEF j
  <2>2. SubSeq(c, i, j) = SubSeq(b, i - Len(a), j - Len(a))
      BY <1>2, <2>1, PartBehind
  <2>3. j - Len(a) = i - Len(a) + Len(value) - 1 /\ j - Len(a) <= Len(b)
      BY <1>1, <1>2 DEF j
  <2> QED
      BY <1>2, <2>2, <2>3 DEF OccursAt, j
<1>3. CASE ~(j <= Len(c))
  <2>1. ~(i - Len(a) + Len(value) - 1 <= Len(b))
      BY <1>1, <1>3
  <2> QED
      BY <1>3, <2>1 DEF OccursAt
<1> QED
    BY <1>2, <1>3

LEMMA SuffixIsShort == Size(Suffix) = 2 /\ ~Long(Suffix)
<1>1. PICK sum : Sums(Suffix, sum) /\ Size(Suffix) = sum[Len(Suffix)]
    BY WordsTypes, SizeIsSum
<1>2. Len(Suffix) = 2 /\ LengthOf[Suffix[1]] = 1 /\ LengthOf[Suffix[2]] = 1
    BY WordsTypes, WordsAssumption
<1>3. 1 \in 1..2 /\ 2 \in 1..2 /\ 1 - 1 = 0 /\ 2 - 1 = 1
    OBVIOUS
<1>4. sum[0] = 0 /\ sum[1] = sum[0] + LengthOf[Suffix[1]] /\ sum[2] = sum[1] + LengthOf[Suffix[2]]
    BY <1>1, <1>2, <1>3 DEF Sums
<1> QED
    BY <1>1, <1>2, <1>4 DEF Long

(* What is registered begins like a name. *)
LEMMA BeginsOrdinary ==
    ASSUME Ordinary, NEW n, NEW r, IsEntry(r, n), Long(r.value)
    PROVE  /\ r.value \in Texts /\ Len(r.value) \in Nat \ {0}
           /\ ~IsHi(r.value[1]) /\ ~IsSpace(r.value[1])
<1>1. PICK x \in Said : r.value = x \/ r.value = x \o Suffix
    BY DEF IsEntry
<1>2. x \in Texts /\ x \in Seq(Words) /\ x \o Suffix \in Texts
    BY SaidAreTexts, Possessives DEF Texts
<1>3. x # <<>>
  <2>1. SUFFICES ASSUME x = <<>> PROVE FALSE
      OBVIOUS
  <2>2. r.value = <<>> \/ r.value = Suffix
    <3>1. <<>> \o Suffix = Suffix
        BY WordsTypes, GlyphTypes, Joined
    <3> QED
        BY <1>1, <2>1, <3>1
  <2> QED
      BY <2>2, SuffixIsShort, SizeTypes, WordsTypes
<1>4. 1 \in DOMAIN x /\ 1 \in 1..Len(x) /\ Len(x) \in Nat \ {0}
    BY <1>2, <1>3
<1>5. ~IsHi(x[1]) /\ ~IsSpace(x[1])
    BY <1>3, <1>4 DEF Ordinary
<1>6. Len(x \o Suffix) = Len(x) + Len(Suffix) /\ (x \o Suffix)[1] = x[1]
  <2>1. Suffix \in Seq(Words)
      BY WordsTypes DEF Texts
  <2> QED
      BY <1>2, <1>4, <2>1, ConcatParts
<1>7. Len(x \o Suffix) \in Nat \ {0}
    BY <1>4, <1>6, WordsTypes
<1> QED
    BY <1>1, <1>2, <1>4, <1>5, <1>6, <1>7

LEMMA SecondPlace ==
    ASSUME NEW S, NEW a \in Seq(S), NEW b \in Seq(S), NEW c, IsJoin(c, a, b)
    PROVE  Len(a) = 2 => /\ Len(c) = 2 + Len(b) /\ Len(b) \in Nat
                         /\ c[1] = a[1] /\ c[2] = a[2]
<1>1. Len(c) = Len(a) + Len(b) /\ Len(b) \in Nat /\ \A k \in 1..Len(a) : c[k] = a[k]
    BY ConcatParts DEF IsJoin
<1> QED
    BY <1>1

(* Behind the greeting a value occurs as it does in the name alone. *)
LEMMA OccursBehindGreeting ==
    ASSUME Ordinary, NEW b \in Seq(Glyphs), NEW c, IsJoin(c, Greeting, b),
           NEW value \in Texts, Len(value) \in Nat \ {0},
           ~IsHi(value[1]), ~IsSpace(value[1]),
           NEW i \in 1..Len(c), OccursAt(c, value, i)
    PROVE  i - 2 \in 1..Len(b) /\ OccursAt(b, value, i - 2)
<1>1. /\ Greeting \in Seq(Glyphs) /\ Len(Greeting) = 2
      /\ IsHi(Greeting[1]) /\ IsSpace(Greeting[2])
    BY GreetingTypes
<1>2. c \in Seq(Glyphs) /\ value \in Seq(Glyphs)
    BY <1>1, Joined, GlyphTypes DEF IsJoin
<1>3. /\ Len(c) = 2 + Len(b) /\ Len(b) \in Nat
      /\ c[1] = Greeting[1] /\ c[2] = Greeting[2]
    BY <1>1, SecondPlace
<1>5. c[i] = value[1]
    BY <1>2, OccursBegins
<1>6. i # 1 /\ i # 2
    BY <1>1, <1>3, <1>5
<1>7. i \in Nat /\ 2 < i /\ i - 2 \in 1..Len(b)
    BY <1>3, <1>6
<1> QED
    BY <1>1, <1>7, OccursBehind

(* No value occurs in a token, with its suffix or without. *)
LEMMA NotInPossessive ==
    ASSUME NEW n \in Numbers, NEW after \in {<<>>, Suffix}, NEW value \in Texts, Long(value)
    PROVE  ~Occurs(TokenText(n) \o after, value)
<1>1. value # <<>> /\ Len(value) \in Nat \ {0}
    BY SizeTypes DEF Texts
<1>2. CASE after = <<>>
  <2>1. TokenText(n) \o after = TokenText(n)
      BY <1>2, TokenTypes
  <2> QED
      BY <1>1, <2>1, NotInToken
<1>3. CASE after = Suffix
  <2> DEFINE a == TokenText(n)
             c == a \o Suffix
  <2>1. /\ a \in Seq(Glyphs) /\ Suffix \in Seq(Glyphs) /\ value \in Seq(Glyphs)
        /\ \A i \in DOMAIN a : a[i] \notin Words
      BY TokenTypes, GlyphTypes
  <2>2. 1 \in 1..Len(value) /\ value[1] \in Words
      BY <1>1 DEF Texts
  <2> HIDE DEF a
  <2>3. /\ Len(a) \in Nat /\ Len(c) = Len(a) + 2 /\ DOMAIN a = 1..Len(a)
        /\ \A i \in 1..Len(a) : c[i] = a[i]
      BY <2>1, ConcatParts, WordsTypes, SMTT(30)
  <2>4. c \in Seq(Glyphs) /\ IsJoin(c, a, Suffix)
      BY <2>1, Joined DEF IsJoin
  <2> HIDE DEF c
  <2> SUFFICES ASSUME NEW i \in 1..Len(c), OccursAt(c, value, i) PROVE FALSE
      BY <1>3 DEF Occurs, a, c
  <2>5. c[i] = value[1]
      BY <1>1, <2>1, <2>4, OccursBegins
  <2>6. ~(i \in 1..Len(a))
      BY <2>1, <2>2, <2>3, <2>5
  <2>7. i \in Nat /\ Len(a) < i /\ i - Len(a) \in 1..2
      BY <2>3, <2>6
  <2>8. OccursAt(Suffix, value, i - Len(a))
      BY <1>1, <2>1, <2>4, <2>7, OccursBehind
  <2> DEFINE p == i - Len(a)
             q == p + Len(value) - 1
  <2>9. p \in 1..2 /\ q <= 2 /\ SubSeq(Suffix, p, q) = value
      BY <2>7, <2>8, WordsTypes DEF OccursAt
  <2>10. p \in 1..Len(Suffix) + 1 /\ q \in 0..Len(Suffix) /\ p <= q + 1 /\ Suffix \in Texts
      BY <1>1, <2>9, WordsTypes
  <2> HIDE DEF p, q
  <2>11. Size(value) <= 2 /\ Size(value) \in Nat
    <3>1. Size(SubSeq(Suffix, p, q)) <= Size(Suffix) /\ Size(SubSeq(Suffix, p, q)) \in Nat
        BY <2>10, PartsAreShorter
    <3> QED
        BY <2>9, <3>1, SuffixIsShort
  <2> QED
      BY <2>11 DEF Long
<1> QED
    BY <1>2, <1>3

(* The entry of a name, or of its possessive. *)
LEMMA EntryFor ==
    ASSUME Ordinary, NEW v, Ready(v), NEW x \in Said, NEW after \in {<<>>, Suffix},
           x \o after \in DOMAIN v.byValue
    PROVE  \E n \in DOMAIN v.byToken :
               [value |-> x \o after, token |-> TokenText(n) \o after] \in ToSet(v.replacer)
<1>1. PICK r \in ToSet(v.replacer) : r.value = x \o after
    BY DEF Ready, Sound
<1>2. PICK n \in DOMAIN v.byToken : IsEntry(r, n)
    BY DEF Ready, Sound
<1>3. n \in Numbers /\ x \in Texts
    BY VaultTypes, SaidAreTexts DEF Ready, Sound
<1>4. TokenText(n) \o <<>> = TokenText(n)
    BY <1>3, TokenTypes
<1>5. x \o <<>> = x
    BY <1>3 DEF Texts
<1>6. PICK y \in Said : \/ r = [value |-> y, token |-> TokenText(n)]
                        \/ r = [value |-> y \o Suffix, token |-> TokenText(n) \o Suffix]
    BY <1>2 DEF IsEntry
<1>7. \A s, t : [value |-> s, token |-> t].value = s /\ [value |-> s, token |-> t].token = t
    OBVIOUS
<1>8. CASE r = [value |-> y, token |-> TokenText(n)]
  <2>1. y = x \o after
      BY <1>1, <1>7, <1>8
  <2>2. after = <<>>
      BY <2>1 DEF Ordinary
  <2> QED
      BY <1>4, <1>8, <2>1, <2>2
<1>9. CASE r = [value |-> y \o Suffix, token |-> TokenText(n) \o Suffix]
  <2>1. y \o Suffix = x \o after
      BY <1>1, <1>7, <1>9
  <2>2. after = Suffix
    <3>1. SUFFICES ASSUME after = <<>> PROVE FALSE
        OBVIOUS
    <3>2. x = y \o Suffix
        BY <1>5, <2>1, <3>1
    <3> QED
        BY <3>2 DEF Ordinary
  <2> QED
      BY <1>9, <2>1, <2>2
<1> QED
    BY <1>6, <1>8, <1>9

LEMMA OneSpliced ==
    ASSUME NEW S, NEW text \in Seq(S), NEW value \in Seq(S), value # <<>>, NEW token \in Seq(S),
           NEW p \in Nat, p + Len(value) <= Len(text), OnlyAt(text, value, p)
    PROVE  Replaced(text, value, token) = Spliced(text, token, p, Len(value))
  BY OneReplaced

(* A value in a sentence becomes the token of its entry. *)
LEMMA BecomesIts ==
    ASSUME Ordinary, Ready(vault), NEW y \in Texts, NEW n \in DOMAIN vault.byToken,
           NEW after \in {<<>>, Suffix},
           [value |-> y, token |-> TokenText(n) \o after] \in ToSet(vault.replacer)
    PROVE  Redact(Greeting \o y) = Greeting \o (TokenText(n) \o after)
<1> DEFINE token == TokenText(n) \o after
           r == [value |-> y, token |-> token]
           rs == vault.replacer
           text == Greeting \o y
           result == Greeting \o token
<1>1. r \in ToSet(rs) /\ r.value = y /\ r.token = token
    OBVIOUS
<1>2. n \in Numbers
    BY VaultTypes DEF Ready, Sound
<1>3. /\ y \in Seq(Glyphs) /\ token \in Seq(Glyphs)
      /\ Greeting \in Seq(Glyphs) /\ Len(Greeting) = 2
  <2>1. TokenText(n) \o <<>> = TokenText(n) /\ TokenText(n) \in Seq(Glyphs)
        /\ TokenText(n) \o Suffix \in Seq(Glyphs)
      BY <1>2, TokenTypes
  <2> QED
      BY <2>1, GlyphTypes, GreetingTypes
<1>4. \A value \in Texts : Long(value) => ~Occurs(token, value)
    BY <1>2, NotInPossessive
<1> HIDE DEF r, token
<1>5. PICK k \in 1..Len(rs) :
          /\ rs[k] = r
          /\ \A i \in 1..k - 1 : rs[i].value # r.value /\ Size(rs[i].value) >= Size(r.value)
    BY <1>1, FirstPlace
<1>6. /\ Len(rs) \in Nat
      /\ \A i \in 1..Len(rs) : rs[i].value \in Texts /\ Long(rs[i].value)
    BY <1>1, FirstPlace
<1>7. \A i \in 1..Len(rs) : /\ Len(rs[i].value) \in Nat \ {0} /\ rs[i].value # <<>>
                            /\ ~IsHi(rs[i].value[1]) /\ ~IsSpace(rs[i].value[1])
  <2> TAKE i \in 1..Len(rs)
  <2>1. rs[i] \in ToSet(rs)
      BY <1>1, FirstPlace DEF ToSet
  <2>2. PICK m : IsEntry(rs[i], m)
      BY <2>1 DEF Ready, Sound
  <2>3. Long(rs[i].value) /\ rs[i].value # <<>>
      BY <1>6, SizeTypes
  <2> QED
      BY <2>2, <2>3, BeginsOrdinary
<1>8. /\ text \in Seq(Glyphs) /\ IsJoin(text, Greeting, y)
      /\ result \in Seq(Glyphs) /\ IsJoin(result, Greeting, token)
    BY <1>3, Joined DEF IsJoin
<1> HIDE DEF text, result, rs
<1>9. ASSUME NEW i \in 1..k - 1 PROVE Leaves(text, rs[i])
  <2>1. i \in 1..Len(rs)
      BY <1>6
  <2>2. ~Occurs(y, rs[i].value)
      BY <1>1, <1>5, <1>6, <1>7, <2>1, NotWithin
  <2>3. ASSUME NEW j \in 1..Len(text), OccursAt(text, rs[i].value, j) PROVE FALSE
    <3>1. j - 2 \in 1..Len(y) /\ OccursAt(y, rs[i].value, j - 2)
        BY <1>3, <1>6, <1>7, <1>8, <2>1, <2>3, OccursBehindGreeting
    <3> QED
        BY <2>2, <3>1 DEF Occurs
  <2>4. ~Occurs(text, rs[i].value)
      BY <2>3 DEF Occurs
  <2> QED
      BY <1>7, <1>8, <2>1, <2>4, NothingReplaced DEF Leaves
<1>10. ASSUME NEW i \in k + 1..Len(rs) PROVE Leaves(result, rs[i])
  <2>1. i \in 1..Len(rs)
      BY <1>6
  <2>2. ~Occurs(token, rs[i].value)
      BY <1>4, <1>6, <2>1
  <2>3. ASSUME NEW j \in 1..Len(result), OccursAt(result, rs[i].value, j) PROVE FALSE
    <3>1. j - 2 \in 1..Len(token) /\ OccursAt(token, rs[i].value, j - 2)
        BY <1>3, <1>6, <1>7, <1>8, <2>1, <2>3, OccursBehindGreeting
    <3> QED
        BY <2>2, <3>1 DEF Occurs
  <2>4. ~Occurs(result, rs[i].value)
      BY <2>3 DEF Occurs
  <2> QED
      BY <1>7, <1>8, <2>1, <2>4, NothingReplaced DEF Leaves
<1>11. Replaced(text, rs[k].value, rs[k].token) = result
  <2> DEFINE m == Len(y)
             len == Len(text)
  <2>0. y \in Seq(Glyphs) /\ token \in Seq(Glyphs) /\ Greeting \in Seq(Glyphs) /\ text \in Seq(Glyphs)
      BY <1>3, <1>8
  <2>1. /\ y \in Texts /\ m \in Nat \ {0} /\ y # <<>> /\ ~IsHi(y[1]) /\ ~IsSpace(y[1])
    <3>1. rs[k].value = y
        BY <1>1, <1>5
    <3> QED
        BY <1>7, <3>1
  <2>2. len = 2 + m /\ len \in Nat
      BY <1>3, <1>8, <2>1, SecondPlace
  <2>3. OccursAt(text, y, 3)
    <3>0. \A i \in Nat : Len(Greeting) < i =>
              (OccursAt(text, y, i) <=> OccursAt(y, y, i - Len(Greeting)))
      <4> TAKE i \in Nat
      <4> HAVE Len(Greeting) < i
      <4> QED
          BY <1>8, <2>0, <2>1, OccursBehind
    <3>1. OccursAt(text, y, 3) <=> OccursAt(y, y, 1)
      <4>1. 3 \in Nat /\ 2 < 3 /\ 3 - 2 = 1
          OBVIOUS
      <4> QED
          BY <1>3, <3>0, <4>1
    <3>2. SubSeq(y, 1, Len(y)) = y
        BY <1>3
    <3>3. OccursAt(y, y, 1)
        BY <2>1, <3>2 DEF OccursAt
    <3> QED
        BY <3>1, <3>3
  <2>4. OnlyAt(text, y, 2)
    <3>1. ASSUME NEW i \in 1..Len(text), OccursAt(text, y, i) PROVE i = 3
      <4>1. i - 2 \in 1..Len(y) /\ OccursAt(y, y, i - 2)
          BY <1>3, <1>8, <2>1, <3>1, OccursBehindGreeting
      <4>2. i - 2 + m - 1 <= m
          BY <4>1 DEF OccursAt
      <4> QED
          BY <2>1, <2>2, <4>1, <4>2
    <3> QED
        BY <2>3, <3>1 DEF OnlyAt
  <2>5. SubSeq(text, 1, 2) = Greeting
    <3>1. Len(text) \in Nat /\ 2 <= Len(text) /\ text[1] = Greeting[1] /\ text[2] = Greeting[2]
        BY <1>3, <1>8, <2>1, <2>2, SecondPlace
    <3>2. /\ SubSeq(text, 1, 2) \in Seq(Glyphs) /\ Len(SubSeq(text, 1, 2)) = 2
          /\ SubSeq(text, 1, 2)[1] = text[1] /\ SubSeq(text, 1, 2)[2] = text[2]
        BY <1>8, <3>1
    <3> DEFINE a == SubSeq(text, 1, 2)
               b == Greeting
    <3>3. /\ a \in Seq(Glyphs) /\ b \in Seq(Glyphs) /\ Len(a) = Len(b)
          /\ \A i \in 1..Len(a) : a[i] = b[i]
      <4>1. \A i \in 1..Len(a) : i = 1 \/ i = 2
          BY <3>2
      <4> QED
          BY <1>3, <3>1, <3>2, <4>1
    <3> HIDE DEF a, b
    <3>4. a = b
        BY <3>3, SeqEqual
    <3> QED
        BY <3>4 DEF a, b
  <2>6. SubSeq(text, 2 + m + 1, len) = <<>>
      BY <1>8, <2>1, <2>2
  <2>7. Replaced(text, y, token) =
            SubSeq(text, 1, 2) \o (token \o SubSeq(text, 2 + m + 1, len))
    <3>1. 2 + Len(y) <= Len(text) /\ y # <<>> /\ 2 \in Nat
        BY <2>1, <2>2
    <3>2. Replaced(text, y, token) = Spliced(text, token, 2, Len(y))
        BY <2>0, <2>4, <3>1, OneSpliced
    <3> QED
        BY <3>2 DEF Spliced
  <2>8. token \o <<>> = token
      BY <1>3, Joined
  <2> QED
      BY <1>1, <1>5, <1>8, <2>5, <2>6, <2>7, <2>8 DEF IsJoin
<1> HIDE DEF Leaves
<1>12. rs = vault.replacer
    BY DEF rs
<1>13. Redact(text) = result
    BY <1>6, <1>9, <1>10, <1>11, <1>12, RedactsOnce
<1> QED
    BY <1>13 DEF text, result, token

(* For all that anyone known is called. *)
LEMMA AllBecomeTokens == Ordinary /\ VaultInv => NamesBecomeTokens
<1> SUFFICES ASSUME Ordinary, VaultInv PROVE NamesBecomeTokens
    OBVIOUS
<1>1. ASSUME NEW x \in Said, NEW after \in {<<>>, Suffix},
             Long(x) => x \o after \in DOMAIN vault.byValue
      PROVE  BecomesToken(x, after)
  <2> SUFFICES ASSUME Long(x)
               PROVE  \E n \in DOMAIN vault.byToken :
                          Redact(Greeting \o x \o after) = Greeting \o TokenText(n) \o after
      BY DEF BecomesToken, Greeting
  <2>1. Ready(vault)
      BY DEF VaultInv
  <2>2. PICK n \in DOMAIN vault.byToken :
            [value |-> x \o after, token |-> TokenText(n) \o after] \in ToSet(vault.replacer)
    <3> DEFINE v == vault
    <3>1. Ready(v) /\ x \o after \in DOMAIN v.byValue
        BY <1>1, <2>1
    <3> HIDE DEF v
    <3>2. \E n \in DOMAIN v.byToken :
              [value |-> x \o after, token |-> TokenText(n) \o after] \in ToSet(v.replacer)
        BY <3>1, EntryFor
    <3> QED
        BY <3>2 DEF v
  <2>3. n \in Numbers /\ x \in Texts
      BY <2>1, VaultTypes, SaidAreTexts DEF Ready, Sound
  <2>4. /\ x \in Seq(Glyphs) /\ after \in Seq(Glyphs) /\ TokenText(n) \in Seq(Glyphs)
        /\ Greeting \in Seq(Glyphs)
    <3>1. <<>> \in Seq(Glyphs)
        OBVIOUS
    <3> QED
        BY <2>3, <3>1, GlyphTypes, TokenTypes, GreetingTypes
  <2>5. (Greeting \o x) \o after = Greeting \o (x \o after)
      BY <2>4, Joined
  <2>6. (Greeting \o TokenText(n)) \o after = Greeting \o (TokenText(n) \o after)
    <3> DEFINE a == Greeting
               b == TokenText(n)
    <3>1. a \in Seq(Glyphs) /\ b \in Seq(Glyphs) /\ after \in Seq(Glyphs)
        BY <2>4
    <3> HIDE DEF a, b
    <3>2. (a \o b) \o after = a \o (b \o after)
        BY <3>1, Joined
    <3> QED
        BY <3>2 DEF a, b
  <2>7. x \o after \in Texts
    <3>1. x \o <<>> = x
        BY <2>4
    <3> QED
        BY <2>3, <3>1, Possessives
  <2>8. Redact(Greeting \o (x \o after)) = Greeting \o (TokenText(n) \o after)
    <3> DEFINE y == x \o after
    <3>1. y \in Texts /\ [value |-> y, token |-> TokenText(n) \o after] \in ToSet(vault.replacer)
        BY <2>2, <2>7
    <3> HIDE DEF y
    <3>2. Redact(Greeting \o y) = Greeting \o (TokenText(n) \o after)
        BY <2>1, <3>1, BecomesIts
    <3> QED
        BY <3>2 DEF y
  <2> QED
      BY <2>5, <2>6, <2>8
<1>2. ASSUME NEW p \in known
      PROVE  /\ \A x \in Called(p) : BecomesToken(x, <<>>) /\ BecomesToken(x, Suffix)
             /\ \A x \in ToSet(p.handles) : BecomesToken(x, <<>>)
  <2>1. p \in Everyone /\ Knows(vault, p)
      BY DEF VaultInv
  <2>2. SaidOf(p) \subseteq Said
      BY <2>1, SaidAreTexts
  <2>3. Called(p) \subseteq Said /\ ToSet(p.handles) \subseteq Said
      BY <2>2 DEF SaidOf
  <2>4. \A x \in Said : x \o <<>> = x
    <3> TAKE x \in Said
    <3>1. x \in Seq(Words)
        BY SaidAreTexts DEF Texts
    <3> QED
        BY <3>1
  <2>5. ASSUME NEW x \in Called(p)
        PROVE  Long(x) => x \o <<>> \in DOMAIN vault.byValue /\ x \o Suffix \in DOMAIN vault.byValue
      BY <2>1, <2>3, <2>4 DEF Knows, Covers
  <2>6. ASSUME NEW x \in ToSet(p.handles)
        PROVE  Long(x) => x \o <<>> \in DOMAIN vault.byValue
      BY <2>1, <2>3, <2>4 DEF Knows
  <2> HIDE DEF BecomesToken
  <2> QED
      BY <1>1, <2>3, <2>5, <2>6
<1> HIDE DEF BecomesToken
<1> QED
    BY <1>2 DEF NamesBecomeTokens

(* Whoever the vault has learnt and whatever they share: each name, each
   longer word of a name and each handle becomes one token as a whole, the
   possessive of a name keeps its suffix, and the text around stays.  Two
   names may share words and two people a handle; no name is the possessive
   of another name, nor made of the words around it (redact.go:81-157). *)
THEOREM VaultHidesNames == ASSUME Ordinary PROVE StreamSpec => []NamesBecomeTokens
<1>1. VaultInv => NamesBecomeTokens
    BY AllBecomeTokens
<1> QED
    BY <1>1, VaultInit, VaultStep, PTL DEF StreamSpec

-----------------------------------------------------------------------------
(* Tokens in a piece of a text. *)

(* What of the word's letters matters: its first comes again only in sixth
   place, and is neither a separator nor a digit. *)
LEMMA WordFacts ==
    /\ Len(Word) = 7
    /\ Word[6] = Word[1] /\ Word[2] # Word[7]
    /\ \A k \in 2..7 : k # 6 => Word[k] # Word[1]
    /\ Word[1] \notin Separators /\ Word[1] \notin Digits
<1>1. Len(Word) = 7 /\ Word[6] = Word[1] /\ Word[2] # Word[7]
    BY DEF Word
<1>2. \A k \in 2..7 : k # 6 => Word[k] # Word[1]
  <2>1. Word[2] # Word[1] /\ Word[3] # Word[1] /\ Word[4] # Word[1]
        /\ Word[5] # Word[1] /\ Word[7] # Word[1]
      BY DEF Word
  <2>2. \A k \in 2..7 : k = 2 \/ k = 3 \/ k = 4 \/ k = 5 \/ k = 6 \/ k = 7
      OBVIOUS
  <2> QED
      BY <2>1, <2>2
<1>3. Word[1] \notin Separators /\ Word[1] \notin Digits
    BY DEF Word, Separators, Digits
<1> QED
    BY <1>1, <1>2, <1>3

(* t is what text has behind its first e characters. *)
IsPiece(t, text, e) ==
    /\ e + Len(t) <= Len(text)
    /\ \A k \in 1..Len(t) : t[k] = text[e + k]

MeantIn(names, text, i, j) == Stands(text, i, j) /\ Number(text, i, j) \in DOMAIN names

(* What is shown for the place k of the text is right. *)
RightIn(names, text, piece, k) ==
    piece # <<text[k]>> =>
        \E i, j \in DOMAIN text :
            /\ MeantIn(names, text, i, j) /\ i <= k /\ k <= j
            /\ piece = IF k = i THEN names[Number(text, i, j)] ELSE <<>>

(* No token of the text goes on behind e. *)
NoneAcross(names, text, e) ==
    \A i, j \in DOMAIN text : MeantIn(names, text, i, j) => ~(i <= e /\ e < j)

(* No token is written in one word with something else. *)
AllApart(names, text) ==
    \A i, j \in DOMAIN text : MeantIn(names, text, i, j) => TokenAt(text, i, j)

(* A token at the end of t ends in the text there, too. *)
EndsWith(t, text, e) ==
    \A a \in 1..Len(t) :
        Stands(t, a, Len(t)) /\ Number(t, a, Len(t)) \in Numbers =>
            e + Len(t) = Len(text) \/ text[e + Len(t) + 1] \notin Digits

StandsFrom(text, i, first, j) ==
    /\ first <= j
    /\ \A k \in 1..7 : text[i + k - 1] = Word[k]
    /\ text[first - 1] \in Separators
    /\ \A k \in first..j : text[k] \in Digits
    /\ j < Len(text) => text[j + 1] \notin Digits

LEMMA StandsIs ==
    ASSUME NEW text, NEW i \in Nat, NEW j \in Nat, NEW first, first = i + 8
    PROVE  Stands(text, i, j) <=> StandsFrom(text, i, first, j)
<1>1. i + Len(Word) + 1 = first /\ 1..Len(Word) = 1..7
    BY WordFacts
<1> QED
    BY <1>1 DEF Stands, StandsFrom

(* A token of a text stands in a piece that holds all of it; one of a piece
   stands in the text, unless its digits go on behind the piece. *)
LEMMA StandsThere ==
    ASSUME NEW text, NEW e \in Nat, NEW t, Len(t) \in Nat, Len(text) \in Nat, IsPiece(t, text, e),
           NEW a \in 1..Len(t), NEW b \in 1..Len(t)
    PROVE  /\ Stands(text, e + a, e + b) => Stands(t, a, b)
           /\ Stands(t, a, b)
              /\ (b = Len(t) => e + b = Len(text) \/ text[e + b + 1] \notin Digits)
              => Stands(text, e + a, e + b)
<1>1. /\ e + Len(t) <= Len(text) /\ \A k \in 1..Len(t) : t[k] = text[e + k]
      /\ Len(Word) = 7
    BY WordFacts DEF IsPiece
<1> DEFINE f == a + 8
           i == e + a
           j == e + b
           first == e + f
<1>2. Stands(t, a, b) <=> StandsFrom(t, a, f, b)
    BY StandsIs
<1>3. Stands(text, i, j) <=> StandsFrom(text, i, first, j)
  <2>1. i \in Nat /\ j \in Nat /\ first = i + 8
      OBVIOUS
  <2> HIDE DEF i, j, first
  <2> QED
      BY <2>1, StandsIs
<1>4. f \in Nat /\ (f <= b => \A k \in 1..7 : a + k - 1 \in 1..Len(t))
    OBVIOUS
<1>5. f <= b => \A k \in 1..7 : t[a + k - 1] = text[i + k - 1]
  <2> SUFFICES ASSUME f <= b, NEW k \in 1..7 PROVE t[a + k - 1] = text[i + k - 1]
      OBVIOUS
  <2>1. a + k - 1 \in 1..Len(t) /\ e + (a + k - 1) = i + k - 1
      BY <1>4
  <2> QED
      BY <1>1, <2>1
<1>6. f <= b => t[f - 1] = text[first - 1]
  <2> SUFFICES ASSUME f <= b PROVE t[f - 1] = text[first - 1]
      OBVIOUS
  <2>1. f - 1 \in 1..Len(t) /\ e + (f - 1) = first - 1
      OBVIOUS
  <2> QED
      BY <1>1, <2>1
<1>7. f <= b => ((\A k \in f..b : t[k] \in Digits) <=> (\A k \in first..j : text[k] \in Digits))
  <2> SUFFICES ASSUME f <= b
               PROVE  (\A k \in f..b : t[k] \in Digits) <=> (\A k \in first..j : text[k] \in Digits)
      OBVIOUS
  <2>1. ASSUME NEW k \in f..b PROVE t[k] = text[e + k] /\ e + k \in first..j
    <3>1. k \in 1..Len(t) /\ e + k \in first..j
        OBVIOUS
    <3> QED
        BY <1>1, <3>1
  <2>2. ASSUME NEW k \in first..j PROVE k - e \in f..b /\ e + (k - e) = k
      OBVIOUS
  <2> HIDE DEF f
  <2> QED
      BY <2>1, <2>2
<1>8. b < Len(t) => t[b + 1] = text[j + 1] /\ j < Len(text)
  <2> SUFFICES ASSUME b < Len(t) PROVE t[b + 1] = text[j + 1] /\ j < Len(text)
      OBVIOUS
  <2>1. b + 1 \in 1..Len(t) /\ e + (b + 1) = j + 1
      OBVIOUS
  <2> QED
      BY <1>1, <2>1
<1>9. first <= j <=> f <= b
    OBVIOUS
<1> HIDE DEF f, i, j, first
<1>10. ASSUME Stands(text, i, j) PROVE Stands(t, a, b)
  <2>1. f <= b
      BY <1>3, <1>9, <1>10 DEF StandsFrom
  <2>2. \A k \in 1..7 : t[a + k - 1] = Word[k]
      BY <1>3, <1>5, <1>10, <2>1 DEF StandsFrom
  <2>3. t[f - 1] \in Separators
      BY <1>3, <1>6, <1>10, <2>1 DEF StandsFrom
  <2>4. \A k \in f..b : t[k] \in Digits
      BY <1>3, <1>7, <1>10, <2>1 DEF StandsFrom
  <2>5. b < Len(t) => t[b + 1] \notin Digits
      BY <1>3, <1>8, <1>10 DEF StandsFrom
  <2> QED
      BY <1>2, <2>1, <2>2, <2>3, <2>4, <2>5, SMTT(30) DEF StandsFrom
<1>11. ASSUME Stands(t, a, b), b = Len(t) => j = Len(text) \/ text[j + 1] \notin Digits
       PROVE  Stands(text, i, j)
  <2>1. f <= b
      BY <1>2, <1>11 DEF StandsFrom
  <2>2. \A k \in 1..7 : text[i + k - 1] = Word[k]
      BY <1>2, <1>5, <1>11, <2>1 DEF StandsFrom
  <2>3. text[first - 1] \in Separators
      BY <1>2, <1>6, <1>11, <2>1 DEF StandsFrom
  <2>4. \A k \in first..j : text[k] \in Digits
      BY <1>2, <1>7, <1>11, <2>1 DEF StandsFrom
  <2>5. j < Len(text) => text[j + 1] \notin Digits
      BY <1>2, <1>8, <1>11, SMTT(60) DEF StandsFrom
  <2>6. first <= j
      BY <1>9, <2>1
  <2>7. StandsFrom(text, i, first, j)
      BY <2>2, <2>3, <2>4, <2>5, <2>6 DEF StandsFrom
  <2> QED
      BY <1>3, <2>7
<1> QED
    BY <1>10, <1>11 DEF i, j

(* It has the same number. *)
LEMMA NumberThere ==
    ASSUME NEW text \in Seq(STRING), NEW e \in Nat, NEW t \in Seq(STRING), IsPiece(t, text, e),
           NEW a \in 1..Len(t), NEW b \in 1..Len(t), a + 8 <= b
    PROVE  Number(t, a, b) = Number(text, e + a, e + b)
<1> DEFINE S == STRING
           u == SubSeq(t, a + 8, b)
           w == SubSeq(text, e + a + 8, e + b)
<1>1. text \in Seq(S) /\ t \in Seq(S)
    OBVIOUS
<1> HIDE DEF S
<1>2. /\ e + Len(t) <= Len(text) /\ Len(t) \in Nat /\ Len(text) \in Nat
      /\ \A k \in 1..Len(t) : t[k] = text[e + k]
    BY <1>1, SMTT(30) DEF IsPiece
<1>3. /\ u \in Seq(S) /\ Len(u) = b - (a + 8) + 1
      /\ \A k \in 1..b - (a + 8) + 1 : u[k] = t[a + 8 + k - 1]
    BY <1>1, <1>2, SMTT(30)
<1>4. /\ w \in Seq(S) /\ Len(w) = b - (a + 8) + 1
      /\ \A k \in 1..b - (a + 8) + 1 : w[k] = text[e + a + 8 + k - 1]
  <2>1. e + a + 8 \in 1..Len(text) /\ e + b \in 1..Len(text)
        /\ (e + b) - (e + a + 8) + 1 = b - (a + 8) + 1 /\ e + a + 8 <= e + b
      BY <1>2
  <2> QED
      BY <1>1, <1>2, <2>1
<1>5. ASSUME NEW k \in 1..b - (a + 8) + 1 PROVE u[k] = w[k]
  <2>1. a + 8 + k - 1 \in 1..Len(t) /\ e + (a + 8 + k - 1) = e + a + 8 + k - 1
      BY <1>2
  <2> QED
      BY <1>2, <1>3, <1>4, <2>1
<1> HIDE DEF u, w
<1>6. u = w
    BY <1>3, <1>4, <1>5, SeqEqual
<1>7. a + Len(Word) + 1 = a + 8 /\ e + a + Len(Word) + 1 = e + a + 8
    BY <1>2, WordFacts
<1> QED
    BY <1>6, <1>7 DEF Number, u, w

(* A known token of the text stands by itself from i to j. *)
KnownAt(names, text, i, j) == TokenAt(text, i, j) /\ Number(text, i, j) \in DOMAIN names

\* what is shown at k for the token from i to j
NameAt(names, text, i, j, k) == IF k = i THEN names[Number(text, i, j)] ELSE <<>>

(* What is shown at a place: part of a token's name, or the character itself. *)
LEMMA RehydratedIs ==
    ASSUME NEW names, NEW text, Len(text) \in Nat, DOMAIN text = 1..Len(text),
           NEW k \in 1..Len(text), NEW piece, piece = Rehydrated(names, text)[k]
    PROVE  \/ \E i, j \in 1..Len(text) :
                  /\ KnownAt(names, text, i, j) /\ i <= k /\ k <= j
                  /\ piece = NameAt(names, text, i, j, k)
           \/ /\ \A i, j \in 1..Len(text) : KnownAt(names, text, i, j) => ~(i <= k /\ k <= j)
              /\ piece = <<text[k]>>
<1> DEFINE D == (DOMAIN text) \X (DOMAIN text)
           tokens == {t \in D : /\ TokenAt(text, t[1], t[2])
                                /\ Number(text, t[1], t[2]) \in DOMAIN names}
           Covered(t) == k \in t[1]..t[2]
           chosen == CHOOSE t \in tokens : Covered(t)
<1>1. piece = IF \E t \in tokens : Covered(t)
              THEN IF k = chosen[1] THEN names[Number(text, chosen[1], chosen[2])] ELSE <<>>
              ELSE <<text[k]>>
    BY DEF Rehydrated
<1>2. \A t \in tokens : /\ t[1] \in 1..Len(text) /\ t[2] \in 1..Len(text)
                        /\ KnownAt(names, text, t[1], t[2])
    BY DEF KnownAt
<1>3. ASSUME NEW i \in 1..Len(text), NEW j \in 1..Len(text), KnownAt(names, text, i, j)
      PROVE  <<i, j>> \in tokens /\ (i <= k /\ k <= j => Covered(<<i, j>>))
    BY <1>3 DEF KnownAt
<1>4. CASE \E t \in tokens : Covered(t)
  <2>1. chosen \in tokens /\ Covered(chosen)
    <3> HIDE DEF tokens, Covered
    <3> QED
        BY <1>4
  <2> DEFINE i == chosen[1]
             j == chosen[2]
  <2>2. i \in 1..Len(text) /\ j \in 1..Len(text) /\ KnownAt(names, text, i, j)
      BY <1>2, <2>1
  <2>3. i <= k /\ k <= j
      BY <2>1, <2>2
  <2>4. piece = NameAt(names, text, i, j, k)
      BY <1>1, <1>4 DEF NameAt
  <2> HIDE DEF i, j
  <2> QED
      BY <2>2, <2>3, <2>4
<1>5. CASE ~\E t \in tokens : Covered(t)
  <2>1. piece = <<text[k]>>
      BY <1>1, <1>5
  <2>2. \A i, j \in 1..Len(text) : KnownAt(names, text, i, j) => ~(i <= k /\ k <= j)
    <3> HIDE DEF tokens, Covered
    <3> QED
        BY <1>3, <1>5
  <2> QED
      BY <2>1, <2>2
<1> QED
    BY <1>4, <1>5

(* A token has at least nine characters and, if it was issued, at most thirteen. *)
LEMMA TokenSpan ==
    ASSUME NEW text \in Seq(STRING), NEW i \in 1..Len(text), NEW j \in 1..Len(text),
           Stands(text, i, j)
    PROVE  /\ i + 8 <= j
           /\ Number(text, i, j) \in Numbers => j <= i + 12
<1>1. Stands(text, i, j) <=> StandsFrom(text, i, i + 8, j)
    BY StandsIs
<1>2. i + 8 <= j
    BY <1>1 DEF StandsFrom
<1>3. ASSUME Number(text, i, j) \in Numbers PROVE j <= i + 12
  <2>1. Len(Number(text, i, j)) \in 1..5
      BY <1>3, NumbersAssumption
  <2>2. i + Len(Word) + 1 = i + 8
      BY WordFacts
  <2>3. Number(text, i, j) = SubSeq(text, i + 8, j)
      BY <2>2 DEF Number
  <2>4. Len(SubSeq(text, i + 8, j)) = j - (i + 8) + 1
      BY <1>2
  <2> QED
      BY <2>1, <2>3, <2>4
<1> QED
    BY <1>2, <1>3

(* What is shown for a piece that ends with its tokens is right. *)
LEMMA PieceRight ==
    ASSUME NEW names, DOMAIN names \subseteq Numbers,
           NEW text \in Seq(STRING), NEW e \in Nat, NEW t \in Seq(STRING), IsPiece(t, text, e),
           EndsWith(t, text, e), NEW k \in 1..Len(t)
    PROVE  /\ RightIn(names, text, Rehydrated(names, t)[k], e + k)
           /\ (\A i, j \in 1..Len(t) : KnownAt(names, t, i, j) => ~(i <= k /\ k <= j)) =>
                  Rehydrated(names, t)[k] = <<text[e + k]>>
           /\ \A i, j \in 1..Len(t) : KnownAt(names, t, i, j) =>
                  /\ e + i \in 1..Len(text) /\ e + j \in 1..Len(text)
                  /\ MeantIn(names, text, e + i, e + j)
                  /\ NameAt(names, text, e + i, e + j, e + k) = NameAt(names, t, i, j, k)
<1> DEFINE piece == Rehydrated(names, t)[k]
<1>1. /\ Len(t) \in Nat /\ Len(text) \in Nat /\ DOMAIN t = 1..Len(t) /\ DOMAIN text = 1..Len(text)
      /\ e + Len(t) <= Len(text) /\ t[k] = text[e + k]
    BY DEF IsPiece
<1>2. ASSUME NEW i \in 1..Len(t), NEW j \in 1..Len(t), KnownAt(names, t, i, j)
      PROVE  /\ e + i \in 1..Len(text) /\ e + j \in 1..Len(text)
             /\ MeantIn(names, text, e + i, e + j)
             /\ NameAt(names, text, e + i, e + j, e + k) = NameAt(names, t, i, j, k)
  <2>1. Stands(t, i, j) /\ Number(t, i, j) \in DOMAIN names
      BY <1>2 DEF KnownAt, TokenAt
  <2>2. i + 8 <= j
      BY <2>1, TokenSpan
  <2>3. Number(t, i, j) = Number(text, e + i, e + j)
      BY <2>2, NumberThere
  <2>4. j = Len(t) => e + j = Len(text) \/ text[e + j + 1] \notin Digits
      BY <2>1 DEF EndsWith
  <2>5. Stands(text, e + i, e + j)
      BY <1>1, <2>1, <2>4, StandsThere
  <2>6. e + i \in 1..Len(text) /\ e + j \in 1..Len(text) /\ (e + k = e + i <=> k = i)
      BY <1>1
  <2> QED
      BY <2>1, <2>3, <2>5, <2>6 DEF MeantIn, NameAt
<1>3. \/ \E i, j \in 1..Len(t) :
             /\ KnownAt(names, t, i, j) /\ i <= k /\ k <= j
             /\ piece = NameAt(names, t, i, j, k)
      \/ /\ \A i, j \in 1..Len(t) : KnownAt(names, t, i, j) => ~(i <= k /\ k <= j)
         /\ piece = <<t[k]>>
  <2>1. piece = Rehydrated(names, t)[k]
      OBVIOUS
  <2> HIDE DEF piece
  <2> QED
      BY <1>1, <2>1, RehydratedIs
<1> HIDE DEF piece
<1>4. RightIn(names, text, piece, e + k)
  <2>1. CASE piece = <<t[k]>>
      BY <1>1, <2>1 DEF RightIn
  <2>2. ASSUME NEW i \in 1..Len(t), NEW j \in 1..Len(t), KnownAt(names, t, i, j),
               i <= k, k <= j, piece = NameAt(names, t, i, j, k)
        PROVE  RightIn(names, text, piece, e + k)
    <3> DEFINE x == e + i
               y == e + j
    <3>1. /\ x \in DOMAIN text /\ y \in DOMAIN text /\ MeantIn(names, text, x, y)
          /\ piece = NameAt(names, text, x, y, e + k)
        BY <1>1, <1>2, <2>2
    <3>2. x <= e + k /\ e + k <= y
        BY <2>2
    <3> HIDE DEF x, y
    <3> QED
        BY <3>1, <3>2 DEF RightIn, NameAt
  <2> QED
      BY <1>3, <2>1, <2>2
<1>5. (\A i, j \in 1..Len(t) : KnownAt(names, t, i, j) => ~(i <= k /\ k <= j)) =>
          piece = <<text[e + k]>>
    BY <1>1, <1>3
<1> QED
    BY <1>2, <1>4, <1>5 DEF piece

(* The only other place of a token that looks like its beginning. *)
LEMMA InnerBeginning ==
    ASSUME NEW text, Len(text) \in Nat,
           NEW i \in 1..Len(text), NEW j \in 1..Len(text), Stands(text, i, j),
           NEW z \in i + 1..j, text[z] = Word[1]
    PROVE  z = i + 5 /\ z + 1 \in 1..Len(text) /\ text[z + 1] = Word[7]
<1>1. StandsFrom(text, i, i + 8, j)
    BY StandsIs
<1>2. /\ i + 8 <= j
      /\ \A k \in 1..7 : text[i + k - 1] = Word[k]
      /\ text[(i + 8) - 1] \in Separators
      /\ \A k \in i + 8..j : text[k] \in Digits
    BY <1>1 DEF StandsFrom
<1>3. CASE z \in i + 8..j
    BY <1>2, <1>3, WordFacts
<1>4. CASE z = i + 7
  <2>1. (i + 8) - 1 = z
      BY <1>4
  <2> QED
      BY <1>2, <2>1, WordFacts
<1>5. CASE z \in i + 1..i + 6
  <2> DEFINE k == z - i + 1
  <2>1. k \in 2..7 /\ k \in 1..7 /\ i + k - 1 = z
      BY <1>5
  <2>2. text[z] = Word[k]
      BY <1>2, <2>1
  <2>3. k = 6
      BY <2>1, <2>2, WordFacts
  <2>4. 7 \in 1..7 /\ i + 7 - 1 = z + 1 /\ z = i + 5
      BY <2>3
  <2>5. text[i + 7 - 1] = Word[7]
      BY <1>2, <2>4
  <2>6. z + 1 \in 1..Len(text)
      BY <1>2, <2>4
  <2> QED
      BY <2>4, <2>5, <2>6
<1> QED
    BY <1>2, <1>3, <1>4, <1>5

(* Two tokens that share a place are the same. *)
LEMMA TokensApart ==
    ASSUME NEW text, Len(text) \in Nat,
           NEW i \in 1..Len(text), NEW j \in 1..Len(text), Stands(text, i, j),
           NEW x \in 1..Len(text), NEW y \in 1..Len(text), Stands(text, x, y),
           i <= x, x <= j
    PROVE  i = x /\ j = y
<1>1. StandsFrom(text, i, i + 8, j) /\ StandsFrom(text, x, x + 8, y)
    BY StandsIs
<1>2. /\ i + 8 <= j /\ x + 8 <= y
      /\ \A k \in 1..7 : text[i + k - 1] = Word[k]
      /\ \A k \in 1..7 : text[x + k - 1] = Word[k]
      /\ text[(i + 8) - 1] \in Separators
      /\ \A k \in i + 8..j : text[k] \in Digits
      /\ \A k \in x + 8..y : text[k] \in Digits
      /\ j < Len(text) => text[j + 1] \notin Digits
      /\ y < Len(text) => text[y + 1] \notin Digits
    BY <1>1 DEF StandsFrom
<1>3. text[x] = Word[1] /\ text[x + 1] = Word[2]
  <2>1. 1 \in 1..7 /\ 2 \in 1..7 /\ x + 1 - 1 = x /\ x + 2 - 1 = x + 1
      OBVIOUS
  <2> QED
      BY <1>2, <2>1
<1>4. i = x
  <2>1. SUFFICES ASSUME i < x PROVE FALSE
      OBVIOUS
  <2>2. x \in i + 1..j
      BY <2>1
  <2>3. text[x + 1] = Word[7]
      BY <1>3, <2>2, InnerBeginning
  <2> QED
      BY <1>3, <2>3, WordFacts
<1>5. j = y
  <2>1. CASE j < y
    <3>1. j + 1 \in x + 8..y /\ j < Len(text)
        BY <1>2, <1>4, <2>1
    <3> QED
        BY <1>2, <3>1
  <2>2. CASE y < j
    <3>1. y + 1 \in i + 8..j /\ y < Len(text)
        BY <1>2, <1>4, <2>2
    <3> QED
        BY <1>2, <3>1
  <2> QED
      BY <2>1, <2>2
<1> QED
    BY <1>4, <1>5

(* The same for any place they share. *)
LEMMA Overlap ==
    ASSUME NEW text, Len(text) \in Nat,
           NEW i \in 1..Len(text), NEW j \in 1..Len(text), Stands(text, i, j),
           NEW x \in 1..Len(text), NEW y \in 1..Len(text), Stands(text, x, y),
           NEW k \in Nat, i <= k, k <= j, x <= k, k <= y
    PROVE  i = x /\ j = y
<1>1. CASE i <= x
    BY <1>1, TokensApart
<1>2. CASE x <= i
    BY <1>2, TokensApart
<1> QED
    BY <1>1, <1>2

(* A token that stands by itself in the text does in a piece that holds it. *)
LEMMA KnownThere ==
    ASSUME NEW names, NEW text \in Seq(STRING), NEW e \in Nat, NEW t \in Seq(STRING),
           IsPiece(t, text, e), NEW i \in 1..Len(t), NEW j \in 1..Len(t),
           KnownAt(names, text, e + i, e + j)
    PROVE  KnownAt(names, t, i, j)
<1>1. /\ Len(t) \in Nat /\ Len(text) \in Nat /\ e + Len(t) <= Len(text)
      /\ \A k \in 1..Len(t) : t[k] = text[e + k]
    BY DEF IsPiece
<1>2. /\ Stands(text, e + i, e + j) /\ Number(text, e + i, e + j) \in DOMAIN names
      /\ e + i > 1 => ~WordChar(text[e + i - 1])
      /\ e + j < Len(text) => ~WordChar(text[e + j + 1])
    BY DEF KnownAt, TokenAt
<1>3. Stands(t, i, j)
    BY <1>1, <1>2, StandsThere
<1>4. i + 8 <= j
    BY <1>3, TokenSpan
<1>5. Number(t, i, j) = Number(text, e + i, e + j)
    BY <1>4, NumberThere
<1>6. i > 1 => ~WordChar(t[i - 1])
  <2> SUFFICES ASSUME i > 1 PROVE ~WordChar(t[i - 1])
      OBVIOUS
  <2>1. i - 1 \in 1..Len(t) /\ e + (i - 1) = e + i - 1 /\ e + i > 1
      BY <1>1
  <2> QED
      BY <1>1, <1>2, <2>1
<1>7. j < Len(t) => ~WordChar(t[j + 1])
  <2> SUFFICES ASSUME j < Len(t) PROVE ~WordChar(t[j + 1])
      OBVIOUS
  <2>1. j + 1 \in 1..Len(t) /\ e + (j + 1) = e + j + 1 /\ e + j < Len(text)
      BY <1>1
  <2> QED
      BY <1>1, <1>2, <2>1
<1> QED
    BY <1>2, <1>3, <1>5, <1>6, <1>7 DEF KnownAt, TokenAt

(* A piece cut between the tokens is shown like its part of the text. *)
LEMMA PieceFinal ==
    ASSUME NEW names, DOMAIN names \subseteq Numbers,
           NEW text \in Seq(STRING), NEW e \in Nat, NEW t \in Seq(STRING), IsPiece(t, text, e),
           EndsWith(t, text, e), AllApart(names, text),
           NoneAcross(names, text, e), NoneAcross(names, text, e + Len(t)),
           NEW k \in 1..Len(t)
    PROVE  Rehydrated(names, t)[k] = Rehydrated(names, text)[e + k]
<1> DEFINE piece == Rehydrated(names, t)[k]
           whole == Rehydrated(names, text)[e + k]
<1>1. /\ Len(t) \in Nat /\ Len(text) \in Nat /\ DOMAIN t = 1..Len(t) /\ DOMAIN text = 1..Len(text)
      /\ e + Len(t) <= Len(text) /\ e + k \in 1..Len(text)
    BY DEF IsPiece
<1>2. /\ (\A i, j \in 1..Len(t) : KnownAt(names, t, i, j) => ~(i <= k /\ k <= j)) =>
             piece = <<text[e + k]>>
      /\ \A i, j \in 1..Len(t) : KnownAt(names, t, i, j) =>
             /\ e + i \in 1..Len(text) /\ e + j \in 1..Len(text)
             /\ MeantIn(names, text, e + i, e + j)
             /\ NameAt(names, text, e + i, e + j, e + k) = NameAt(names, t, i, j, k)
    BY PieceRight, SMTT(30)
<1>3. \/ \E i, j \in 1..Len(t) :
             /\ KnownAt(names, t, i, j) /\ i <= k /\ k <= j
             /\ piece = NameAt(names, t, i, j, k)
      \/ \A i, j \in 1..Len(t) : KnownAt(names, t, i, j) => ~(i <= k /\ k <= j)
  <2>1. piece = Rehydrated(names, t)[k]
      OBVIOUS
  <2> HIDE DEF piece
  <2> QED
      BY <1>1, <2>1, RehydratedIs
<1>4. \/ \E x, y \in 1..Len(text) :
             /\ KnownAt(names, text, x, y) /\ x <= e + k /\ e + k <= y
             /\ whole = NameAt(names, text, x, y, e + k)
      \/ /\ \A x, y \in 1..Len(text) : KnownAt(names, text, x, y) => ~(x <= e + k /\ e + k <= y)
         /\ whole = <<text[e + k]>>
  <2> DEFINE m == e + k
  <2>1. m \in 1..Len(text) /\ whole = Rehydrated(names, text)[m]
      BY <1>1
  <2> HIDE DEF whole, m
  <2>2. \/ \E x, y \in 1..Len(text) :
               /\ KnownAt(names, text, x, y) /\ x <= m /\ m <= y
               /\ whole = NameAt(names, text, x, y, m)
        \/ /\ \A x, y \in 1..Len(text) : KnownAt(names, text, x, y) => ~(x <= m /\ m <= y)
           /\ whole = <<text[m]>>
      BY <1>1, <2>1, RehydratedIs, SMTT(60)
  <2> QED
      BY <2>2 DEF m
<1> HIDE DEF piece, whole
<1>5. ASSUME NEW x \in 1..Len(text), NEW y \in 1..Len(text), KnownAt(names, text, x, y),
             x <= e + k, e + k <= y, whole = NameAt(names, text, x, y, e + k)
      PROVE  piece = whole
  <2>1. MeantIn(names, text, x, y)
      BY <1>5 DEF KnownAt, TokenAt, MeantIn
  <2>2. e < x /\ y <= e + Len(t)
    <3>1. ~(x <= e /\ e < y) /\ ~(x <= e + Len(t) /\ e + Len(t) < y)
        BY <1>1, <2>1 DEF NoneAcross
    <3> QED
        BY <1>1, <1>5, <3>1
  <2> DEFINE i == x - e
             j == y - e
  <2>3. i \in 1..Len(t) /\ j \in 1..Len(t) /\ e + i = x /\ e + j = y /\ i <= k /\ k <= j
      BY <1>1, <1>5, <2>2
  <2> HIDE DEF i, j
  <2>4. KnownAt(names, t, i, j)
      BY <1>5, <2>3, KnownThere
  <2>5. PICK a \in 1..Len(t), b \in 1..Len(t) :
            /\ KnownAt(names, t, a, b) /\ a <= k /\ k <= b
            /\ piece = NameAt(names, t, a, b, k)
      BY <1>3, <2>3, <2>4
  <2>6. a = i /\ b = j
    <3>1. Stands(t, a, b) /\ Stands(t, i, j)
        BY <2>4, <2>5 DEF KnownAt, TokenAt
    <3>2. /\ Len(t) \in Nat /\ k \in Nat /\ i \in 1..Len(t) /\ j \in 1..Len(t)
          /\ a <= k /\ k <= b /\ i <= k /\ k <= j
        BY <1>1, <2>3, <2>5
    <3> QED
        BY <3>1, <3>2, Overlap
  <2> QED
      BY <1>2, <1>5, <2>3, <2>4, <2>5, <2>6
<1>6. ASSUME \A x, y \in 1..Len(text) : KnownAt(names, text, x, y) => ~(x <= e + k /\ e + k <= y),
             whole = <<text[e + k]>>
      PROVE  piece = whole
  <2>1. ASSUME NEW i \in 1..Len(t), NEW j \in 1..Len(t), KnownAt(names, t, i, j), i <= k, k <= j
        PROVE  FALSE
    <3> DEFINE x == e + i
               y == e + j
    <3>1. x \in 1..Len(text) /\ y \in 1..Len(text) /\ MeantIn(names, text, x, y)
        BY <1>2, <2>1
    <3>2. x <= e + k /\ e + k <= y
        BY <2>1
    <3> HIDE DEF x, y
    <3>3. KnownAt(names, text, x, y)
        BY <1>1, <3>1 DEF AllApart, KnownAt, MeantIn
    <3> QED
        BY <1>6, <3>1, <3>2, <3>3
  <2>2. piece = <<text[e + k]>>
      BY <1>2, <2>1
  <2> QED
      BY <1>6, <2>2
<1>7. piece = whole
    BY <1>4, <1>5, <1>6
<1> QED
    BY <1>7 DEF piece, whole-----------------------------------------------------------------------------

(* The text of a reply: TokenStream. *)

(* HoldBack holds no more than its limit and no more than there is. *)
LEMMA HeldLengthFits ==
    ASSUME NEW text \in Seq(STRING)
    PROVE  HeldLength(text) \in 0..Len(text) /\ HeldLength(text) <= HoldLimit
<1>1. CASE Tails(text) = {}
    BY <1>1 DEF HeldLength, HoldLimit
<1>2. CASE Tails(text) # {}
    <2>1. Tails(text) \in SUBSET Nat
        BY DEF Tails, HoldLimit
    <2>2. \E n \in Tails(text) : \A k \in Tails(text) : n <= k
        BY <1>2, <2>1, Least
    <2>3. HeldLength(text) \in Tails(text)
        BY <1>2, <2>2 DEF HeldLength
    <2> QED
        BY <2>3 DEF Tails, HoldLimit
<1> QED
    BY <1>1, <1>2

(* Two parts of a text that meet make up what they span. *)
LEMMA PartsJoin ==
    ASSUME NEW text \in Seq(STRING), NEW i \in Nat, NEW j \in Nat, i <= j, j <= Len(text)
    PROVE  /\ SubSeq(text, 1, i) \in Seq(STRING)
           /\ SubSeq(text, i + 1, j) \in Seq(STRING)
           /\ Len(SubSeq(text, i + 1, j)) = j - i
           /\ SubSeq(text, 1, i) \o SubSeq(text, i + 1, j) = SubSeq(text, 1, j)
<1> DEFINE head == SubSeq(text, 1, i)
           tail == SubSeq(text, i + 1, j)
           all == SubSeq(text, 1, j)
<1>1. \A k \in 1..Len(text) : text[k] \in STRING
    BY ElementOfSeq
<1>2. /\ head \in Seq(STRING) /\ Len(head) = i
      /\ \A k \in 1..i : head[k] = text[k]
    BY <1>1, SubSeqProperties
<1>3. /\ tail \in Seq(STRING) /\ Len(tail) = j - i
      /\ \A k \in 1..(j - i) : tail[k] = text[i + k]
    <2>1. \A k \in (i + 1)..j : text[k] \in STRING
        BY <1>1
    <2>2. /\ tail \in Seq(STRING)
          /\ Len(tail) = IF i + 1 <= j THEN j - (i + 1) + 1 ELSE 0
          /\ \A k \in 1..(j - (i + 1) + 1) : tail[k] = text[i + 1 + k - 1]
        BY <2>1, SubSeqProperties
    <2> QED
        BY <2>2
<1>4. /\ all \in Seq(STRING) /\ Len(all) = j
      /\ \A k \in 1..j : all[k] = text[k]
    BY <1>1, SubSeqProperties
<1> HIDE DEF head, tail, all
<1>5. /\ head \o tail \in Seq(STRING)
      /\ Len(head \o tail) = j
      /\ \A k \in 1..j : (head \o tail)[k] = all[k]
    <2>1. /\ head \o tail \in Seq(STRING)
          /\ Len(head \o tail) = Len(head) + Len(tail)
          /\ \A k \in 1..(Len(head) + Len(tail)) :
                 (head \o tail)[k] = IF k <= Len(head) THEN head[k] ELSE tail[k - Len(head)]
        BY <1>2, <1>3, ConcatProperties
    <2>2. i \in Nat /\ j \in Nat /\ i <= j /\ Len(head) + Len(tail) = j
        BY <1>2, <1>3
    <2>3. ASSUME NEW k \in 1..j PROVE (head \o tail)[k] = all[k]
        <3>1. CASE k <= i
            <4>1. (head \o tail)[k] = head[k] /\ k \in 1..i
                BY <1>2, <2>1, <2>2, <3>1
            <4> QED
                BY <1>2, <1>4, <4>1
        <3>2. CASE ~(k <= i)
            <4>1. (head \o tail)[k] = tail[k - i] /\ k - i \in 1..(j - i) /\ i + (k - i) = k
                BY <1>2, <2>1, <2>2, <3>2
            <4> QED
                BY <1>3, <1>4, <4>1
        <3> QED
            BY <3>1, <3>2
    <2> QED
        BY <2>1, <2>2, <2>3
<1>6. head \o tail = all
    BY <1>4, <1>5, SeqEqual
<1> QED
    BY <1>2, <1>3, <1>6 DEF head, tail, all

LEMMA Cutting ==
    ASSUME NEW text \in Seq(STRING), NEW i \in 0..Len(text)
    PROVE  /\ UpTo(text, i) \in Seq(STRING)
           /\ From(text, i + 1) \in Seq(STRING)
           /\ Len(From(text, i + 1)) = Len(text) - i
           /\ UpTo(text, i) \o From(text, i + 1) = text
<1>1. SubSeq(text, 1, Len(text)) = text
    BY SubSeqFull
<1>2. Len(text) \in Nat
    OBVIOUS
<1>3. /\ SubSeq(text, 1, i) \in Seq(STRING)
      /\ SubSeq(text, i + 1, Len(text)) \in Seq(STRING)
      /\ Len(SubSeq(text, i + 1, Len(text))) = Len(text) - i
      /\ SubSeq(text, 1, i) \o SubSeq(text, i + 1, Len(text)) = SubSeq(text, 1, Len(text))
    <2>1. i \in Nat /\ i <= Len(text) /\ Len(text) <= Len(text)
        BY <1>2
    <2> QED
        BY <1>2, <2>1, PartsJoin
<1> QED
    BY <1>1, <1>3 DEF UpTo, From

(* The two parts of HoldBack make up its argument. *)
LEMMA HoldBackSplits ==
    ASSUME NEW text \in Seq(STRING)
    PROVE  /\ HoldBack(text).emit \in Seq(STRING)
           /\ HoldBack(text).hold \in Seq(STRING)
           /\ Len(HoldBack(text).hold) <= HoldLimit
           /\ HoldBack(text).emit \o HoldBack(text).hold = text
<1> DEFINE cut == Len(text) - HeldLength(text)
<1>1. cut \in 0..Len(text) /\ Len(text) - cut <= HoldLimit
    BY HeldLengthFits
<1>2. HoldBack(text).emit = UpTo(text, cut) /\ HoldBack(text).hold = From(text, cut + 1)
    BY DEF HoldBack
<1> QED
    BY <1>1, <1>2, Cutting

LEMMA Associative ==
    ASSUME NEW r \in Seq(STRING), NEW s \in Seq(STRING), NEW t \in Seq(STRING)
    PROVE  (r \o s) \o t = r \o (s \o t)
    OBVIOUS

LEMMA NextPart ==
    ASSUME NEW r \in Seq(STRING), NEW i \in 0..Len(r), NEW n \in Nat, i + n <= Len(r)
    PROVE  /\ SubSeq(r, i + 1, i + n) \in Seq(STRING)
           /\ UpTo(r, i) \o SubSeq(r, i + 1, i + n) = UpTo(r, i + n)
    BY PartsJoin DEF UpTo

-----------------------------------------------------------------------------

TextInv == StreamTypeOK /\ NothingLost

LEMMA TextStep == TextInv /\ [StreamNext]_streamVars => TextInv'
<1> SUFFICES ASSUME TextInv, [StreamNext]_streamVars
             PROVE  TextInv'
    OBVIOUS
<1> USE RepliesAssumption, ChunkAssumption
<1>0. reply \in Seq(STRING)
    BY DEF TextInv, StreamTypeOK
<1>1. ASSUME NEW n \in 1..MaxChunk, Delta(n)
      PROVE  TextInv'
    <2> DEFINE s == SubSeq(reply, received + 1, received + n)
               split == HoldBack(hold \o s)
    <2>1. s \in Seq(STRING) /\ UpTo(reply, received) \o s = UpTo(reply, received + n)
        <3>1. received \in 0..Len(reply) /\ n \in Nat /\ received + n <= Len(reply)
            BY <1>0, <1>1 DEF TextInv, StreamTypeOK, Delta
        <3> QED
            BY <1>0, <3>1, NextPart
    <2>2. hold \o s \in Seq(STRING) /\ hold \in Seq(STRING) /\ emitted \in Seq(STRING)
        BY <2>1 DEF TextInv, StreamTypeOK
    <2>3. /\ split.emit \in Seq(STRING) /\ split.hold \in Seq(STRING)
          /\ Len(split.hold) <= HoldLimit
          /\ split.emit \o split.hold = hold \o s
        BY <2>2, HoldBackSplits
    <2>4. emitted' = emitted \o split.emit /\ hold' = split.hold
        BY <1>1 DEF Delta, EmitDelta
    <2>5. status = "streaming" /\ status' = status
        BY <1>1 DEF Delta
    <2> HIDE DEF s, split
    <2>6. (emitted \o split.emit) \o split.hold = (emitted \o hold) \o s
        <3>1. /\ emitted \in Seq(STRING) /\ hold \in Seq(STRING) /\ s \in Seq(STRING)
              /\ split.emit \in Seq(STRING) /\ split.hold \in Seq(STRING)
              /\ split.emit \o split.hold = hold \o s
            BY <2>1, <2>2, <2>3
        <3> DEFINE p == split.emit
                   q == split.hold
        <3>2. /\ p \in Seq(STRING) /\ q \in Seq(STRING) /\ p \o q = hold \o s
            BY <3>1
        <3> HIDE DEF p, q
        <3>3. (emitted \o p) \o q = emitted \o (p \o q)
            BY <3>1, <3>2, Associative, ZenonT(60)
        <3>4. (emitted \o hold) \o s = emitted \o (hold \o s)
            BY <3>1, Associative, ZenonT(60)
        <3> QED
            BY <3>2, <3>3, <3>4, Zenon DEF p, q
    <2>7. emitted' \o hold' = (emitted \o hold) \o s
        BY <2>4, <2>6, Zenon
    <2>8. emitted \o hold = UpTo(reply, received)
        BY <2>5 DEF TextInv, NothingLost
    <2>9. NothingLost'
        <3>1. emitted' \o hold' = UpTo(reply, received + n)
            BY <2>1, <2>7, <2>8, Zenon
        <3>2. reply' = reply /\ received' = received + n
            BY <1>1 DEF Delta
        <3> QED
            BY <2>5, <3>1, <3>2 DEF NothingLost, UpTo
    <2>10. StreamTypeOK'
        <3>1. emitted' \in Seq(STRING)
            BY <2>2, <2>3, <2>4
        <3>2. received' \in 0..Len(reply)
            BY <1>0, <1>1 DEF TextInv, StreamTypeOK, Delta
        <3>3. awkward' \in BOOLEAN
            BY <1>1 DEF TextInv, StreamTypeOK, Delta, EndsAwkwardly
        <3> QED
            BY <1>1, <2>3, <2>4, <3>1, <3>2, <3>3 DEF TextInv, StreamTypeOK, Delta
    <2> QED
        BY <2>9, <2>10 DEF TextInv
<1>2. CASE Finish
    <2>1. emitted \in Seq(STRING) /\ hold \in Seq(STRING)
        BY DEF TextInv, StreamTypeOK
    <2>2. emitted' = UpTo(reply, received)
        BY <1>2 DEF Finish, TextInv, NothingLost
    <2>3. NothingLost'
        <3>1. emitted' \in Seq(STRING)
            BY <1>2, <2>1 DEF Finish
        <3>2. emitted' \o <<>> = emitted'
            BY <3>1
        <3> QED
            BY <1>2, <2>2, <3>2 DEF Finish, NothingLost, UpTo
    <2>4. StreamTypeOK'
        BY <1>2, <2>1 DEF Finish, TextInv, StreamTypeOK, HoldLimit
    <2> QED
        BY <2>3, <2>4 DEF TextInv
<1>3. CASE Fail
    BY <1>3 DEF Fail, TextInv, StreamTypeOK, NothingLost, UpTo
<1>4. CASE UNCHANGED stream
    BY <1>4 DEF stream, TextInv, StreamTypeOK, NothingLost, UpTo
<1>5. ASSUME NEW people \in Indexes, Learn(people)
      PROVE  TextInv'
    BY <1>4, <1>5 DEF Learn
<1>6. CASE UNCHANGED streamVars
    BY <1>4, <1>6 DEF streamVars
<1> QED
    BY <1>1, <1>2, <1>3, <1>5, <1>6 DEF StreamNext

LEMMA TextInit == StreamInit => TextInv
<1> SUFFICES ASSUME StreamInit
             PROVE  TextInv
    OBVIOUS
<1>1. reply \in Seq(STRING)
    BY RepliesAssumption DEF StreamInit
<1>2. UpTo(reply, 0) = <<>> /\ <<>> \o <<>> = <<>>
    BY <1>1, SubSeqEmpty DEF UpTo
<1>3. Len(reply) \in Nat /\ <<>> \in Seq(STRING) /\ Len(<<>>) = 0
    BY <1>1
<1>4. StreamTypeOK
    <2>1. reply \in Replies /\ awkward \in BOOLEAN
        BY DEF StreamInit
    <2>3. received \in 0..Len(reply)
        <3>1. received = 0
            BY DEF StreamInit
        <3> QED
            BY <1>3, <3>1
    <2>2. hold \in Seq(STRING) /\ Len(hold) <= HoldLimit /\ emitted \in Seq(STRING)
        BY <1>3 DEF StreamInit, HoldLimit
    <2> QED
        BY <2>1, <2>2, <2>3 DEF StreamInit, StreamTypeOK
<1>5. NothingLost
    BY <1>2 DEF StreamInit, NothingLost
<1> QED
    BY <1>4, <1>5 DEF TextInv

(* However a reply is cut, nothing of it is lost, repeated or reordered on
   its way through HoldBack, and no more than the limit is ever held back
   (redact.go:215-222, llm/client.go:266-282, 341-343). *)
THEOREM StreamKeepsText == StreamSpec => [](StreamTypeOK /\ NothingLost)
<1>1. TextInv => StreamTypeOK /\ NothingLost
    BY DEF TextInv
<1> QED
    BY <1>1, TextInit, TextStep, PTL DEF StreamSpec-----------------------------------------------------------------------------

(* Where HoldBack cuts. *)

(* What t has from p on could grow into a token. *)
BeginsAt(t, p) ==
    /\ \A k \in 1..7 : p + k - 1 <= Len(t) => t[p + k - 1] = Word[k]
    /\ p + 7 <= Len(t) => t[p + 7] \in Separators
    /\ \A k \in p + 8..Len(t) : t[k] \in Digits

(* TokenPrefix of the rest of a text, in the places of the text. *)
LEMMA PrefixIs ==
    ASSUME NEW t \in Seq(STRING), NEW p \in 1..Len(t)
    PROVE  TokenPrefix(From(t, p)) <=> BeginsAt(t, p)
<1> DEFINE S == STRING
           s == From(t, p)
           n == Len(t) - p + 1
<1>1. t \in Seq(S) /\ Len(t) \in Nat
    OBVIOUS
<1> HIDE DEF S
<1>2. Len(s) = n /\ \A k \in 1..n : s[k] = t[p + k - 1]
    BY <1>1, SubSeqProperties DEF From
<1>3. n \in Nat /\ \A k : k \in 1..n <=> k \in Nat /\ 1 <= k /\ p + k - 1 <= Len(t)
    BY <1>1
<1>4. TokenPrefix(s) <=>
          /\ \A k \in 1..n : k <= 7 => s[k] = Word[k]
          /\ n > 7 => s[8] \in Separators /\ \A k \in 9..n : s[k] \in Digits
  <2>1. Len(Word) = 7 /\ 7 + 1 = 8 /\ 7 + 2 = 9
      BY WordFacts
  <2> HIDE DEF s, n
  <2> QED
      BY <1>2, <2>1 DEF TokenPrefix
<1>5. (\A k \in 1..n : k <= 7 => s[k] = Word[k]) <=>
          \A k \in 1..7 : p + k - 1 <= Len(t) => t[p + k - 1] = Word[k]
  <2>1. ASSUME NEW k \in 1..7, p + k - 1 <= Len(t) PROVE k \in 1..n /\ k <= 7 /\ s[k] = t[p + k - 1]
      BY <1>1, <1>2, <2>1
  <2>2. ASSUME NEW k \in 1..n, k <= 7 PROVE k \in 1..7 /\ p + k - 1 <= Len(t) /\ s[k] = t[p + k - 1]
      BY <1>1, <1>2, <2>2
  <2> HIDE DEF s, n
  <2> QED
      BY <2>1, <2>2
<1>6. (n > 7 => s[8] \in Separators) <=> (p + 7 <= Len(t) => t[p + 7] \in Separators)
  <2>1. n > 7 <=> p + 7 <= Len(t)
      BY <1>1
  <2>2. n > 7 => 8 \in 1..n /\ p + 8 - 1 = p + 7
      BY <1>1
  <2> HIDE DEF s, n
  <2> QED
      BY <1>2, <2>1, <2>2
<1>7. (n > 7 => \A k \in 9..n : s[k] \in Digits) <=> \A k \in p + 8..Len(t) : t[k] \in Digits
  <2>1. ASSUME NEW k \in 9..n PROVE p + k - 1 \in p + 8..Len(t) /\ s[k] = t[p + k - 1]
      BY <1>1, <1>2
  <2>2. ASSUME NEW m \in p + 8..Len(t)
        PROVE  n > 7 /\ m - p + 1 \in 9..n /\ s[m - p + 1] = t[m]
    <3>1. m - p + 1 \in 1..n /\ p + (m - p + 1) - 1 = m /\ n > 7 /\ m - p + 1 \in 9..n
        BY <1>1
    <3> QED
        BY <1>2, <3>1
  <2>3. ASSUME n > 7 => \A k \in 9..n : s[k] \in Digits
        PROVE  \A m \in p + 8..Len(t) : t[m] \in Digits
    <3> HIDE DEF s, n
    <3> QED
        BY <2>2, <2>3
  <2>4. ASSUME \A m \in p + 8..Len(t) : t[m] \in Digits
        PROVE  \A k \in 9..n : s[k] \in Digits
    <3> HIDE DEF s, n
    <3> QED
        BY <2>1, <2>4
  <2> QED
      BY <2>3, <2>4
<1> HIDE DEF s, n
<1>8. TokenPrefix(s) <=> BeginsAt(t, p)
    BY <1>4, <1>5, <1>6, <1>7 DEF BeginsAt
<1> QED
    BY <1>8 DEF s

(* What is held could become a token, and nothing shorter could: if nothing is
   held, no tail of the length of a token could. *)
LEMMA HeldIs ==
    ASSUME NEW t \in Seq(STRING)
    PROVE  /\ HeldLength(t) # 0 => BeginsAt(t, Len(t) - HeldLength(t) + 1)
           /\ \A p \in 1..Len(t) :
                  BeginsAt(t, p) /\ Len(t) - p + 1 <= HoldLimit => HeldLength(t) # 0
<1>1. \A n \in Tails(t) : n \in 1..Len(t) /\ BeginsAt(t, Len(t) - n + 1)
  <2> SUFFICES ASSUME NEW n \in Tails(t)
               PROVE  n \in 1..Len(t) /\ BeginsAt(t, Len(t) - n + 1)
      OBVIOUS
  <2>1. n \in 1..Len(t) /\ TokenPrefix(From(t, Len(t) - n + 1))
      BY DEF Tails, HoldLimit
  <2>2. Len(t) - n + 1 \in 1..Len(t)
      BY <2>1
  <2> QED
      BY <2>1, <2>2, PrefixIs
<1>2. Tails(t) # {} => HeldLength(t) \in Tails(t)
  <2>1. Tails(t) \in SUBSET Nat
      BY DEF Tails, HoldLimit
  <2> QED
      BY <2>1, Least DEF HeldLength
<1>3. ASSUME NEW p \in 1..Len(t), BeginsAt(t, p), Len(t) - p + 1 <= HoldLimit
      PROVE  Tails(t) # {}
  <2> DEFINE n == Len(t) - p + 1
  <2>1. n \in 1..HoldLimit /\ n <= Len(t) /\ Len(t) - n + 1 = p
      BY <1>3 DEF HoldLimit
  <2>2. TokenPrefix(From(t, p))
      BY <1>3, PrefixIs
  <2> HIDE DEF n
  <2> QED
      BY <2>1, <2>2 DEF Tails
<1>4. Tails(t) = {} => HeldLength(t) = 0
    BY DEF HeldLength
<1>5. Tails(t) # {} => HeldLength(t) # 0
    BY <1>1, <1>2
<1> QED
    BY <1>1, <1>2, <1>3, <1>4, <1>5

(* A chunk that ends within the word of a token, behind CONTAC. *)
LEMMA EndsBehindContac ==
    ASSUME NEW text \in Seq(STRING), NEW i \in 1..Len(text), i + 5 <= Len(text),
           \A k \in 1..6 : text[i + k - 1] = Word[k]
    PROVE  EndsAwkwardly(UpTo(text, i + 5))
<1> DEFINE L == {"C", "O", "N", "T", "A"}
           S == STRING \cup L
           r == i + 5
           head == UpTo(text, r)
           tail == From(head, i)
           six == UpTo(Word, 6)
<1>1. Word \in Seq(L) /\ Len(Word) = 7
    BY DEF Word
<1> HIDE DEF L
<1>2. text \in Seq(S) /\ Word \in Seq(S) /\ Len(text) \in Nat
    BY <1>1
<1> HIDE DEF S
<1>3. head \in Seq(S) /\ Len(head) = r /\ \A k \in 1..r : head[k] = text[k]
    BY <1>2, SubSeqProperties, SMTT(30) DEF UpTo
<1>4. six \in Seq(S) /\ Len(six) = 6 /\ \A k \in 1..6 : six[k] = Word[k]
    BY <1>1, <1>2, SubSeqProperties, SMTT(30) DEF UpTo
<1> HIDE DEF head, six
<1>5. tail \in Seq(S) /\ Len(tail) = 6 /\ \A k \in 1..6 : tail[k] = head[i + k - 1]
    BY <1>3, SubSeqProperties DEF From
<1>6. ASSUME NEW k \in 1..6 PROVE tail[k] = six[k]
  <2>1. i + k - 1 \in 1..r
      OBVIOUS
  <2> QED
      BY <1>3, <1>4, <1>5, <2>1, ZenonT(60)
<1> HIDE DEF tail
<1>7. tail = six
    BY <1>4, <1>5, <1>6, SeqEqual, ZenonT(60)
<1>8. Len(head) >= 6 /\ Len(head) - 5 = i
    BY <1>3
<1> QED
    BY <1>7, <1>8 DEF EndsAwkwardly, tail, six, head, r

(* The end of what is held back begins a token or nothing: what is emitted
   ends with its tokens, and between the tokens of the text, unless the text so
   far ends behind CONTAC. *)
LEMMA CutSplits ==
    ASSUME NEW names, DOMAIN names \subseteq Numbers,
           NEW text \in Seq(STRING), NEW e \in Nat, NEW t \in Seq(STRING), IsPiece(t, text, e),
           NEW cut, cut = Len(t) - HeldLength(t)
    PROVE  /\ cut \in 0..Len(t)
           /\ UpTo(t, cut) \in Seq(STRING) /\ Len(UpTo(t, cut)) = cut
           /\ IsPiece(UpTo(t, cut), text, e) /\ EndsWith(UpTo(t, cut), text, e)
           /\ NoneAcross(names, text, e) /\ ~EndsAwkwardly(UpTo(text, e + Len(t)))
              => NoneAcross(names, text, e + cut)
<1> DEFINE S == STRING
           h == HeldLength(t)
           u == UpTo(t, cut)
<1>1. /\ Len(t) \in Nat /\ Len(text) \in Nat /\ e + Len(t) <= Len(text)
      /\ \A k \in 1..Len(t) : t[k] = text[e + k]
      /\ DOMAIN text = 1..Len(text)
    BY DEF IsPiece
<1>2. h \in 0..Len(t) /\ cut = Len(t) - h
    BY HeldLengthFits
<1>3. h # 0 => BeginsAt(t, cut + 1)
  <2>1. h # 0 => BeginsAt(t, Len(t) - h + 1)
      BY HeldIs
  <2>2. Len(t) - h + 1 = cut + 1
      BY <1>1, <1>2
  <2> QED
      BY <2>1, <2>2
<1>4. \A p \in 1..Len(t) : BeginsAt(t, p) /\ Len(t) - p + 1 <= 14 => h # 0
    BY HeldIs DEF HoldLimit
<1> HIDE DEF h
<1>5. cut \in 0..Len(t) /\ (h = 0 => cut = Len(t)) /\ (h # 0 => cut + 1 \in 1..Len(t))
    BY <1>1, <1>2
<1>6. u \in Seq(S) /\ Len(u) = cut /\ \A k \in 1..cut : u[k] = t[k]
  <2>1. t \in Seq(S)
      OBVIOUS
  <2> HIDE DEF S
  <2> QED
      BY <1>1, <1>5, <2>1, SubSeqProperties DEF UpTo
<1>7. IsPiece(u, text, e)
  <2>1. e + cut <= Len(text) /\ \A k \in 1..cut : k \in 1..Len(t)
      BY <1>1, <1>5
  <2> HIDE DEF u
  <2> QED
      BY <1>1, <1>6, <2>1 DEF IsPiece
<1>8. h # 0 => t[cut + 1] = Word[1] /\ text[e + cut + 1] = Word[1]
  <2> SUFFICES ASSUME h # 0 PROVE t[cut + 1] = Word[1] /\ text[e + cut + 1] = Word[1]
      OBVIOUS
  <2>1. 1 \in 1..7 /\ (cut + 1) + 1 - 1 = cut + 1 /\ cut + 1 \in 1..Len(t)
        /\ cut + 1 <= Len(t) /\ e + (cut + 1) = e + cut + 1
      BY <1>1, <1>5
  <2>2. t[cut + 1] = Word[1]
      BY <1>3, <2>1 DEF BeginsAt
  <2> QED
      BY <1>1, <2>1, <2>2
<1> HIDE DEF u
<1>9. EndsWith(u, text, e)
  <2> SUFFICES ASSUME NEW a \in 1..cut, Stands(u, a, cut), Number(u, a, cut) \in Numbers
               PROVE  e + cut = Len(text) \/ text[e + cut + 1] \notin Digits
      BY <1>6 DEF EndsWith
  <2>1. CASE h # 0
      BY <1>8, <2>1, WordFacts
  <2>2. CASE h = 0
    <3>1. cut = Len(t) /\ a \in 1..Len(u) /\ cut \in 1..Len(u) /\ u \in Seq(STRING)
        BY <1>1, <1>5, <1>6, <2>2
    <3>2. cut <= a + 12
        BY <3>1, TokenSpan
    <3>3. StandsFrom(u, a, a + 8, cut)
      <4>1. a \in Nat /\ cut \in Nat
          BY <1>1, <3>1
      <4> QED
          BY <4>1, StandsIs
    <3>4. /\ \A k \in 1..7 : u[a + k - 1] = Word[k]
          /\ u[(a + 8) - 1] \in Separators
          /\ \A k \in a + 8..cut : u[k] \in Digits
        BY <3>3 DEF StandsFrom
    <3>7. a + 8 <= cut
        BY <3>3 DEF StandsFrom
    <3>5. BeginsAt(t, a)
      <4>1. \A k \in 1..7 : t[a + k - 1] = Word[k]
        <5> SUFFICES ASSUME NEW k \in 1..7 PROVE t[a + k - 1] = Word[k]
            OBVIOUS
        <5>1. a + k - 1 \in 1..cut
            BY <1>1, <3>1, <3>7
        <5> QED
            BY <1>6, <3>4, <5>1
      <4>2. t[a + 7] \in Separators
        <5>1. a + 7 \in 1..cut /\ (a + 8) - 1 = a + 7
            BY <1>1, <3>1, <3>7
        <5> QED
            BY <1>6, <3>4, <5>1
      <4>3. \A k \in a + 8..Len(t) : t[k] \in Digits
        <5> SUFFICES ASSUME NEW k \in a + 8..Len(t) PROVE t[k] \in Digits
            OBVIOUS
        <5>1. k \in 1..cut /\ k \in a + 8..cut
            BY <1>1, <3>1
        <5> QED
            BY <1>6, <3>4, <5>1
      <4> QED
          BY <4>1, <4>2, <4>3 DEF BeginsAt
    <3>6. a \in 1..Len(t) /\ Len(t) - a + 1 <= 14
        BY <1>1, <3>1, <3>2
    <3> QED
        BY <1>4, <2>2, <3>5, <3>6
  <2> QED
      BY <2>1, <2>2
<1>10. ASSUME NoneAcross(names, text, e), ~EndsAwkwardly(UpTo(text, e + Len(t)))
       PROVE  NoneAcross(names, text, e + cut)
  <2> SUFFICES ASSUME NEW i \in 1..Len(text), NEW j \in 1..Len(text), MeantIn(names, text, i, j),
                      i <= e + cut, e + cut < j
               PROVE  FALSE
      BY <1>1 DEF NoneAcross
  <2>1. Stands(text, i, j) /\ Number(text, i, j) \in Numbers
      BY DEF MeantIn
  <2>2. i + 8 <= j /\ j <= i + 12
      BY <2>1, TokenSpan
  <2>3. i > e
    <3>1. ~(i <= e /\ e < j)
        BY <1>1, <1>10 DEF NoneAcross
    <3> QED
        BY <1>1, <1>5, <3>1
  <2>4. /\ \A k \in 1..7 : text[i + k - 1] = Word[k]
        /\ text[(i + 8) - 1] \in Separators
        /\ \A k \in i + 8..j : text[k] \in Digits
    <3>1. StandsFrom(text, i, i + 8, j)
        BY <2>1, StandsIs
    <3> QED
        BY <3>1 DEF StandsFrom
  <2>5. CASE h = 0
    <3> DEFINE p == i - e
    <3>1. p \in 1..Len(t) /\ e + p = i /\ e + Len(t) < j /\ Len(t) - p + 1 <= 14
        BY <1>1, <1>5, <2>2, <2>3, <2>5
    <3> HIDE DEF p
    <3>2. \A k \in 1..7 : p + k - 1 <= Len(t) => t[p + k - 1] = Word[k]
      <4> SUFFICES ASSUME NEW k \in 1..7, p + k - 1 <= Len(t) PROVE t[p + k - 1] = Word[k]
          OBVIOUS
      <4>1. Len(t) \in Nat /\ p \in 1..Len(t) /\ e + p = i
          BY <1>1, <3>1
      <4>2. p + k - 1 \in 1..Len(t) /\ e + (p + k - 1) = i + k - 1
          BY <4>1
      <4> QED
          BY <1>1, <2>4, <4>2
    <3>3. p + 7 <= Len(t) => t[p + 7] \in Separators
      <4> SUFFICES ASSUME p + 7 <= Len(t) PROVE t[p + 7] \in Separators
          OBVIOUS
      <4>1. p + 7 \in 1..Len(t) /\ e + (p + 7) = (i + 8) - 1
          BY <1>1, <3>1
      <4> QED
          BY <1>1, <2>4, <4>1
    <3>4. \A k \in p + 8..Len(t) : t[k] \in Digits
      <4> SUFFICES ASSUME NEW k \in p + 8..Len(t) PROVE t[k] \in Digits
          OBVIOUS
      <4>1. k \in 1..Len(t) /\ e + k \in i + 8..j
          BY <1>1, <3>1
      <4> QED
          BY <1>1, <2>4, <4>1
    <3>5. BeginsAt(t, p)
        BY <3>2, <3>3, <3>4 DEF BeginsAt
    <3> QED
        BY <1>4, <2>5, <3>1, <3>5
  <2>6. CASE h # 0
    <3> DEFINE z == e + cut + 1
    <3>1. z \in i + 1..j /\ text[z] = Word[1]
        BY <1>1, <1>5, <1>8, <2>6
    <3>2. z = i + 5 /\ text[z + 1] = Word[7]
      <4> HIDE DEF z
      <4> QED
          BY <1>1, <2>1, <3>1, InnerBeginning
    <3>3. ~(cut + 2 <= Len(t))
      <4> SUFFICES ASSUME cut + 2 <= Len(t) PROVE FALSE
          OBVIOUS
      <4>3. cut \in Nat /\ Len(t) \in Nat
          BY <1>1, <1>5
      <4>1. /\ 2 \in 1..7 /\ (cut + 1) + 2 - 1 = cut + 2 /\ cut + 2 \in 1..Len(t)
            /\ e + (cut + 2) = z + 1
          BY <4>3
      <4>2. t[cut + 2] = Word[2]
          BY <1>3, <2>6, <4>1 DEF BeginsAt
      <4>4. t[cut + 2] = text[e + (cut + 2)]
          BY <1>1, <4>1
      <4>5. text[z + 1] = Word[7] /\ Word[2] # Word[7]
          BY <3>2, WordFacts
      <4> HIDE DEF z
      <4> QED
          BY <4>1, <4>2, <4>4, <4>5
    <3>4. e + Len(t) = i + 5 /\ i + 5 <= Len(text)
        BY <1>1, <1>5, <2>6, <3>2, <3>3
    <3>5. \A k \in 1..6 : text[i + k - 1] = Word[k]
      <4>1. \A k \in 1..6 : k \in 1..7
          OBVIOUS
      <4> QED
          BY <2>4, <4>1
    <3>6. EndsAwkwardly(UpTo(text, i + 5))
        BY <3>4, <3>5, EndsBehindContac
    <3> QED
        BY <1>10, <3>4, <3>6
  <2> QED
      BY <2>5, <2>6
<1> QED
    BY <1>5, <1>6, <1>7, <1>9, <1>10 DEF u-----------------------------------------------------------------------------

(* What is shown. *)

Pieces == Texts \cup Seq(STRING)

(* One piece for each character. *)
LEMMA RehydratedTypes ==
    ASSUME NEW names, \A n \in DOMAIN names : names[n] \in Texts, NEW t \in Seq(STRING)
    PROVE  Rehydrated(names, t) \in Seq(Pieces) /\ Len(Rehydrated(names, t)) = Len(t)
<1> DEFINE n == Len(t)
           r == Rehydrated(names, t)
           tokens == {x \in (DOMAIN t) \X (DOMAIN t) :
                         /\ TokenAt(t, x[1], x[2])
                         /\ Number(t, x[1], x[2]) \in DOMAIN names}
           body(k) == IF \E x \in tokens : k \in x[1]..x[2]
                      THEN LET x == CHOOSE x \in tokens : k \in x[1]..x[2]
                           IN  IF k = x[1] THEN names[Number(t, x[1], x[2])] ELSE <<>>
                      ELSE <<t[k]>>
<1>1. n \in Nat /\ DOMAIN t = 1..n
    OBVIOUS
<1>2. r = [k \in 1..n |-> body(k)]
    BY DEF Rehydrated
<1> HIDE DEF body, r
<1>3. ASSUME NEW k \in 1..n PROVE r[k] \in Pieces
  <2> DEFINE piece == Rehydrated(names, t)[k]
  <2>1. \/ \E i, j \in 1..Len(t) :
               /\ KnownAt(names, t, i, j) /\ i <= k /\ k <= j
               /\ piece = NameAt(names, t, i, j, k)
        \/ /\ \A i, j \in 1..Len(t) : KnownAt(names, t, i, j) => ~(i <= k /\ k <= j)
           /\ piece = <<t[k]>>
    <3>1. piece = Rehydrated(names, t)[k]
        OBVIOUS
    <3> HIDE DEF piece
    <3> QED
        BY <1>1, <3>1, RehydratedIs
  <2>2. <<>> \in Pieces /\ <<t[k]>> \in Pieces /\ \A m \in DOMAIN names : names[m] \in Pieces
      BY <1>1 DEF Pieces
  <2> HIDE DEF piece
  <2>3. piece \in Pieces
      BY <2>1, <2>2 DEF NameAt, KnownAt
  <2> QED
      BY <2>3 DEF piece, r
<1>4. r \in [1..n -> Pieces]
    BY <1>2, <1>3
<1> HIDE DEF n
<1>5. r \in Seq(Pieces) /\ Len(r) = n
    BY <1>1, <1>4
<1> QED
    BY <1>5 DEF r, n

(* What has been shown of the text, up to where its parts have been emitted. *)
ShownIs(names, text, out, set) ==
    /\ out \in Seq(Pieces) /\ Len(out) <= Len(text)
    /\ \A k \in 1..Len(out) : RightIn(names, text, out[k], k)
    /\ ~set /\ AllApart(names, text) =>
           /\ NoneAcross(names, text, Len(out))
           /\ \A k \in 1..Len(out) : out[k] = Rehydrated(names, text)[k]

(* Names for numbers. *)
NamesNumbers(names) ==
    DOMAIN names \subseteq Numbers /\ \A n \in DOMAIN names : names[n] \in Texts

(* The piece from e to d ends between tokens if it begins there, or is cut
   behind CONTAC. *)
KeepsApart(names, text, set, after, e, d) ==
    /\ set => after
    /\ ~after /\ NoneAcross(names, text, e) => NoneAcross(names, text, d)

(* One more piece. *)
LEMMA MoreIsShown ==
    ASSUME NEW names, NamesNumbers(names),
           NEW text \in Seq(STRING), NEW out, NEW set, ShownIs(names, text, out, set),
           NEW u \in Seq(STRING), IsPiece(u, text, Len(out)), EndsWith(u, text, Len(out)),
           NEW after, KeepsApart(names, text, set, after, Len(out), Len(out) + Len(u))
    PROVE  /\ ShownIs(names, text, out \o Rehydrated(names, u), after)
           /\ Len(out \o Rehydrated(names, u)) = Len(out) + Len(u)
<1> DEFINE e == Len(out)
           r == Rehydrated(names, u)
           w == out \o r
<1>1. r \in Seq(Pieces) /\ Len(r) = Len(u) /\ Len(u) \in Nat /\ Len(text) \in Nat
  <2>1. Rehydrated(names, u) \in Seq(Pieces) /\ Len(Rehydrated(names, u)) = Len(u)
      BY RehydratedTypes DEF NamesNumbers
  <2>2. Len(u) \in Nat /\ Len(text) \in Nat
      OBVIOUS
  <2> QED
      BY <2>1, <2>2
<1>2. out \in Seq(Pieces) /\ e \in Nat
    BY DEF ShownIs
<1>3. \A k \in 1..Len(u) : RightIn(names, text, r[k], e + k)
    BY <1>2, PieceRight DEF NamesNumbers
<1>4. ASSUME ~after, AllApart(names, text)
      PROVE  NoneAcross(names, text, e) /\ \A k \in 1..Len(u) : r[k] = Rehydrated(names, text)[e + k]
  <2>1. NoneAcross(names, text, e)
      BY <1>4 DEF ShownIs, KeepsApart
  <2>2. NoneAcross(names, text, e + Len(u))
      BY <1>4, <2>1 DEF KeepsApart
  <2> QED
      BY <1>2, <1>4, <2>1, <2>2, PieceFinal DEF NamesNumbers
<1>5. e + Len(u) <= Len(text)
    BY DEF IsPiece
<1> HIDE DEF r
<1>6. /\ w \in Seq(Pieces) /\ Len(w) = e + Len(u)
      /\ \A k \in 1..e + Len(u) : w[k] = IF k <= e THEN out[k] ELSE r[k - e]
  <2> DEFINE S == Pieces
  <2>1. r \in Seq(S) /\ out \in Seq(S)
      BY <1>1, <1>2
  <2> HIDE DEF S
  <2>2. /\ out \o r \in Seq(S) /\ Len(out \o r) = Len(out) + Len(r)
        /\ \A k \in 1..Len(out) + Len(r) :
               (out \o r)[k] = IF k <= Len(out) THEN out[k] ELSE r[k - Len(out)]
      BY <2>1, ConcatProperties
  <2> QED
      BY <1>1, <2>2 DEF S
<1> HIDE DEF w
<1>7. ASSUME NEW k \in 1..e + Len(u)
      PROVE  \/ k \in 1..e /\ w[k] = out[k]
             \/ k - e \in 1..Len(u) /\ w[k] = r[k - e] /\ e + (k - e) = k
    BY <1>1, <1>2, <1>6
<1> HIDE DEF e
<1>8. ASSUME NEW k \in 1..e + Len(u) PROVE RightIn(names, text, w[k], k)
  <2>1. \A m \in 1..e : RightIn(names, text, out[m], m)
      BY DEF ShownIs, e
  <2> QED
      BY <1>3, <1>7, <2>1
<1>9. ASSUME ~after, AllApart(names, text), NEW k \in 1..e + Len(u)
      PROVE  w[k] = Rehydrated(names, text)[k]
  <2>1. \A m \in 1..e : out[m] = Rehydrated(names, text)[m]
      BY <1>9 DEF ShownIs, KeepsApart, e
  <2>2. \A m \in 1..Len(u) : r[m] = Rehydrated(names, text)[e + m]
      BY <1>4, <1>9
  <2> QED
      BY <1>7, <2>1, <2>2
<1>10. ~after /\ AllApart(names, text) => NoneAcross(names, text, e + Len(u))
    BY <1>4 DEF KeepsApart, e
<1>11. ShownIs(names, text, w, after)
    BY <1>5, <1>6, <1>8, <1>9, <1>10 DEF ShownIs
<1> QED
    BY <1>6, <1>11 DEF e, w, r

(* A vault that learns numbers which the text does not mention. *)
LEMMA ShownStays ==
    ASSUME NEW names, NEW more, NEW text \in Seq(STRING),
           DOMAIN names \subseteq DOMAIN more, \A n \in DOMAIN names : more[n] = names[n],
           DOMAIN more \subseteq Numbers,
           \A n \in DOMAIN more : n \notin DOMAIN names =>
               ~\E i, j \in DOMAIN text : SubSeq(text, i, j) = n,
           NEW out, NEW set, ShownIs(names, text, out, set)
    PROVE  ShownIs(more, text, out, set)
<1>1. Len(text) \in Nat /\ DOMAIN text = 1..Len(text)
    OBVIOUS
<1>2. ASSUME NEW i \in 1..Len(text), NEW j \in 1..Len(text), Stands(text, i, j)
      PROVE  Number(text, i, j) \in DOMAIN more <=> Number(text, i, j) \in DOMAIN names
  <2>1. i + 8 <= j
      BY <1>2, TokenSpan
  <2>2. i + 8 \in DOMAIN text /\ j \in DOMAIN text /\ i + Len(Word) + 1 = i + 8
      BY <1>1, <2>1, WordFacts
  <2>3. Number(text, i, j) = SubSeq(text, i + 8, j)
      BY <2>2 DEF Number
  <2> DEFINE m == Number(text, i, j)
  <2> HIDE DEF m
  <2>4. \E a, b \in DOMAIN text : SubSeq(text, a, b) = m
      BY <2>2, <2>3 DEF m
  <2>5. m \in DOMAIN more <=> m \in DOMAIN names
      BY <2>4
  <2> QED
      BY <2>5 DEF m
<1>3. ASSUME NEW i \in 1..Len(text), NEW j \in 1..Len(text)
      PROVE  /\ MeantIn(more, text, i, j) <=> MeantIn(names, text, i, j)
             /\ KnownAt(more, text, i, j) <=> KnownAt(names, text, i, j)
             /\ MeantIn(names, text, i, j) => more[Number(text, i, j)] = names[Number(text, i, j)]
    BY <1>2 DEF MeantIn, KnownAt, TokenAt
<1>4. ASSUME NEW k \in 1..Len(text)
      PROVE  Rehydrated(more, text)[k] = Rehydrated(names, text)[k]
  <2> DEFINE p == Rehydrated(more, text)[k]
             q == Rehydrated(names, text)[k]
  <2>1. \/ \E i, j \in 1..Len(text) :
               /\ KnownAt(more, text, i, j) /\ i <= k /\ k <= j
               /\ p = NameAt(more, text, i, j, k)
        \/ /\ \A i, j \in 1..Len(text) : KnownAt(more, text, i, j) => ~(i <= k /\ k <= j)
           /\ p = <<text[k]>>
    <3>1. p = Rehydrated(more, text)[k]
        OBVIOUS
    <3> HIDE DEF p
    <3> QED
        BY <1>1, <3>1, RehydratedIs
  <2>2. \/ \E i, j \in 1..Len(text) :
               /\ KnownAt(names, text, i, j) /\ i <= k /\ k <= j
               /\ q = NameAt(names, text, i, j, k)
        \/ /\ \A i, j \in 1..Len(text) : KnownAt(names, text, i, j) => ~(i <= k /\ k <= j)
           /\ q = <<text[k]>>
    <3>1. q = Rehydrated(names, text)[k]
        OBVIOUS
    <3> HIDE DEF q
    <3> QED
        BY <1>1, <3>1, RehydratedIs
  <2> HIDE DEF p, q
  <2>3. ASSUME \A i, j \in 1..Len(text) : KnownAt(names, text, i, j) => ~(i <= k /\ k <= j)
        PROVE  p = q
    <3>1. \A i, j \in 1..Len(text) : KnownAt(more, text, i, j) => ~(i <= k /\ k <= j)
        BY <1>3, <2>3
    <3> QED
        BY <2>1, <2>2, <2>3, <3>1
  <2>4. ASSUME NEW i \in 1..Len(text), NEW j \in 1..Len(text),
               KnownAt(names, text, i, j), i <= k, k <= j
        PROVE  p = q
    <3>1. PICK a \in 1..Len(text), b \in 1..Len(text) :
              /\ KnownAt(more, text, a, b) /\ a <= k /\ k <= b
              /\ p = NameAt(more, text, a, b, k)
        BY <1>3, <2>1, <2>4
    <3>2. PICK x \in 1..Len(text), y \in 1..Len(text) :
              /\ KnownAt(names, text, x, y) /\ x <= k /\ k <= y
              /\ q = NameAt(names, text, x, y, k)
        BY <2>2, <2>4
    <3>3. a = x /\ b = y
      <4>1. Stands(text, a, b) /\ Stands(text, x, y)
          BY <3>1, <3>2 DEF KnownAt, TokenAt
      <4>2. k \in Nat /\ Len(text) \in Nat /\ a <= k /\ k <= b /\ x <= k /\ k <= y
          BY <1>1, <3>1, <3>2
      <4> QED
          BY <4>1, <4>2, Overlap
    <3>4. MeantIn(names, text, x, y)
        BY <3>2 DEF KnownAt, TokenAt, MeantIn
    <3>5. more[Number(text, x, y)] = names[Number(text, x, y)]
        BY <1>3, <3>4
    <3> QED
        BY <3>1, <3>2, <3>3, <3>5 DEF NameAt
  <2>5. p = q
      BY <2>3, <2>4
  <2> QED
      BY <2>5 DEF p, q
<1>5. Len(out) \in Nat /\ Len(out) <= Len(text)
    BY DEF ShownIs
<1>6. ASSUME NEW k \in 1..Len(out) PROVE RightIn(more, text, out[k], k)
  <2>1. RightIn(names, text, out[k], k)
      BY DEF ShownIs
  <2> DEFINE piece == out[k]
  <2> HIDE DEF piece
  <2>2. RightIn(names, text, piece, k)
      BY <2>1 DEF piece
  <2>3. RightIn(more, text, piece, k)
      BY <1>1, <1>3, <2>2 DEF RightIn
  <2> QED
      BY <2>3 DEF piece
<1>7. AllApart(more, text) => AllApart(names, text)
    BY <1>1, <1>3 DEF AllApart
<1>8. \A e : NoneAcross(names, text, e) => NoneAcross(more, text, e)
    BY <1>1, <1>3 DEF NoneAcross
<1>9. \A k \in 1..Len(out) : Rehydrated(more, text)[k] = Rehydrated(names, text)[k]
    BY <1>1, <1>4, <1>5
<1> QED
    BY <1>6, <1>7, <1>8, <1>9 DEF ShownIs

(* With t behind a the text is there up to m. *)
Reaches(a, t, text, m) == a \o t = UpTo(text, m)

(* What comes next in a text is a piece of it. *)
LEMMA NextPiece ==
    ASSUME NEW text \in Seq(STRING), NEW m \in 0..Len(text), NEW a \in Seq(STRING),
           NEW t \in Seq(STRING), Reaches(a, t, text, m)
    PROVE  IsPiece(t, text, Len(a)) /\ Len(a) + Len(t) = m
<1> DEFINE S == STRING
           head == UpTo(text, m)
<1>1. text \in Seq(S) /\ a \in Seq(S) /\ t \in Seq(S) /\ Len(text) \in Nat
    OBVIOUS
<1> HIDE DEF S
<1>2. Len(head) = m /\ \A k \in 1..m : head[k] = text[k]
    BY <1>1, SubSeqProperties DEF UpTo
<1>3. /\ Len(a) \in Nat /\ Len(t) \in Nat
      /\ Len(a \o t) = Len(a) + Len(t)
      /\ \A k \in 1..Len(t) : (a \o t)[k + Len(a)] = t[k]
    BY <1>1, ConcatParts
<1>4. a \o t = head
    BY DEF Reaches
<1> HIDE DEF head
<1>5. Len(a) + Len(t) = m /\ \A k \in 1..Len(t) : head[k + Len(a)] = t[k]
    BY <1>2, <1>3, <1>4
<1>6. \A k \in 1..Len(t) : t[k] = text[Len(a) + k]
  <2> SUFFICES ASSUME NEW k \in 1..Len(t) PROVE t[k] = text[Len(a) + k]
      OBVIOUS
  <2>1. k + Len(a) \in 1..m /\ k + Len(a) = Len(a) + k
      BY <1>3, <1>5
  <2> QED
      BY <1>2, <1>5, <2>1
<1> QED
    BY <1>1, <1>5, <1>6 DEF IsPiece

(* A chunk emits the piece behind what was emitted, up to HoldBack's cut. *)
LEMMA DeltaIs ==
    ASSUME TextInv, NEW n \in 1..MaxChunk, Delta(n)
    PROVE  \E t \in Seq(STRING) :
               /\ IsPiece(t, reply, Len(emitted)) /\ Len(emitted) + Len(t) = received + n
               /\ emitted' = emitted \o UpTo(t, Len(t) - HeldLength(t))
               /\ shown' = shown \o Rehydrated(vault.byToken, UpTo(t, Len(t) - HeldLength(t)))
<1> DEFINE s == SubSeq(reply, received + 1, received + n)
           t == hold \o s
           m == received + n
<1>1. /\ reply \in Seq(STRING) /\ received \in 0..Len(reply) /\ n \in Nat /\ m <= Len(reply)
      /\ m \in 0..Len(reply)
    BY RepliesAssumption, ChunkAssumption DEF TextInv, StreamTypeOK, Delta
<1>2. s \in Seq(STRING) /\ UpTo(reply, received) \o s = UpTo(reply, m)
    BY <1>1, NextPart
<1>3. hold \in Seq(STRING) /\ emitted \in Seq(STRING)
    BY DEF TextInv, StreamTypeOK
<1>4. emitted \o hold = UpTo(reply, received)
    BY DEF TextInv, NothingLost, Delta
<1>5. /\ emitted' = emitted \o UpTo(t, Len(t) - HeldLength(t))
      /\ shown' = shown \o Rehydrated(vault.byToken, UpTo(t, Len(t) - HeldLength(t)))
    BY DEF Delta, EmitDelta, HoldBack, Rehydrate
<1> HIDE DEF s, m
<1>6. t \in Seq(STRING)
    BY <1>2, <1>3
<1>7. emitted \o t = UpTo(reply, m)
  <2>1. (emitted \o hold) \o s = emitted \o (hold \o s)
      BY <1>2, <1>3, Associative, Zenon
  <2> QED
      BY <1>2, <1>4, <2>1, Zenon
<1> HIDE DEF t
<1>8. IsPiece(t, reply, Len(emitted)) /\ Len(emitted) + Len(t) = m
  <2>1. Reaches(emitted, t, reply, m)
      BY <1>7 DEF Reaches
  <2> QED
      BY <1>1, <1>3, <1>6, <2>1, NextPiece
<1> QED
    BY <1>5, <1>6, <1>8 DEF m

ShownInv ==
    /\ TextInv /\ VaultInv
    /\ Len(shown) = Len(emitted)
    /\ ShownIs(vault.byToken, reply, shown, awkward)
    /\ status = "done" => Len(shown) = Len(reply)

(* What a vault has issued: names for numbers. *)
LEMMA IssuedTypes ==
    ASSUME VaultInv
    PROVE  NamesNumbers(vault.byToken)
<1> DEFINE v == vault
<1>1. v \in Vaults
    BY DEF VaultInv, Ready, Sound
<1> HIDE DEF v
<1>2. NamesNumbers(v.byToken)
    BY <1>1, VaultTypes DEF NamesNumbers
<1> QED
    BY <1>2 DEF v

(* A chunk shows one more piece. *)
LEMMA ShownDelta ==
    ASSUME ShownInv, NEW n \in 1..MaxChunk, Delta(n)
    PROVE  /\ Len(shown') = Len(emitted')
           /\ ShownIs(vault.byToken, reply, shown', awkward')
<1> DEFINE names == vault.byToken
<1>1. NamesNumbers(names)
    BY IssuedTypes DEF ShownInv
<1>2. ShownIs(names, reply, shown, awkward) /\ Len(shown) = Len(emitted) /\ TextInv
    BY DEF ShownInv
<1>3. PICK t \in Seq(STRING) :
          /\ IsPiece(t, reply, Len(emitted)) /\ Len(emitted) + Len(t) = received + n
          /\ emitted' = emitted \o UpTo(t, Len(t) - HeldLength(t))
          /\ shown' = shown \o Rehydrated(names, UpTo(t, Len(t) - HeldLength(t)))
    BY <1>2, DeltaIs
<1>4. awkward' = (awkward \/ EndsAwkwardly(UpTo(reply, received + n)))
    BY DEF Delta
<1>5. reply \in Seq(STRING) /\ emitted \in Seq(STRING) /\ Len(emitted) \in Nat
    BY <1>2, RepliesAssumption DEF TextInv, StreamTypeOK
<1> DEFINE e == Len(shown)
           after == awkward'
           cut == Len(t) - HeldLength(t)
           u == UpTo(t, cut)
<1>6. e = Len(emitted) /\ e \in Nat /\ IsPiece(t, reply, e) /\ e + Len(t) = received + n
    BY <1>2, <1>3, <1>5
<1>7. emitted' = emitted \o u /\ shown' = shown \o Rehydrated(names, u)
    BY <1>3
<1>8. cut = Len(t) - HeldLength(t)
    OBVIOUS
<1>9. (awkward => after) /\ (~after => ~EndsAwkwardly(UpTo(reply, e + Len(t))))
    BY <1>4, <1>6
<1> HIDE DEF names, cut, after
<1>10. /\ cut \in 0..Len(t) /\ u \in Seq(STRING) /\ Len(u) = cut
       /\ IsPiece(u, reply, e) /\ EndsWith(u, reply, e)
       /\ NoneAcross(names, reply, e) /\ ~EndsAwkwardly(UpTo(reply, e + Len(t)))
          => NoneAcross(names, reply, e + cut)
  <2> HIDE DEF e, u
  <2>1. /\ DOMAIN names \subseteq Numbers
        /\ reply \in Seq(STRING) /\ e \in Nat /\ t \in Seq(STRING) /\ IsPiece(t, reply, e)
      BY <1>1, <1>5, <1>6 DEF NamesNumbers
  <2>2. /\ cut \in 0..Len(t) /\ UpTo(t, cut) \in Seq(STRING) /\ Len(UpTo(t, cut)) = cut
        /\ IsPiece(UpTo(t, cut), reply, e) /\ EndsWith(UpTo(t, cut), reply, e)
        /\ NoneAcross(names, reply, e) /\ ~EndsAwkwardly(UpTo(reply, e + Len(t)))
           => NoneAcross(names, reply, e + cut)
      BY <1>8, <2>1, CutSplits
  <2> QED
      BY <2>2 DEF u
<1> HIDE DEF u
<1>11. KeepsApart(names, reply, awkward, after, e, e + Len(u))
    BY <1>9, <1>10 DEF KeepsApart
<1>12. /\ ShownIs(names, reply, shown \o Rehydrated(names, u), after)
       /\ Len(shown \o Rehydrated(names, u)) = e + Len(u)
  <2>1. /\ u \in Seq(STRING) /\ IsPiece(u, reply, Len(shown)) /\ EndsWith(u, reply, Len(shown))
        /\ KeepsApart(names, reply, awkward, after, Len(shown), Len(shown) + Len(u))
      BY <1>10, <1>11
  <2>2. NamesNumbers(names) /\ reply \in Seq(STRING) /\ ShownIs(names, reply, shown, awkward)
      BY <1>1, <1>2, <1>5
  <2> QED
      BY <2>1, <2>2, MoreIsShown, ZenonT(60)
<1>13. Len(emitted \o u) = e + Len(u)
  <2>1. emitted \in Seq(STRING) /\ u \in Seq(STRING) /\ Len(emitted) = e
      BY <1>5, <1>6, <1>10
  <2>2. Len(emitted \o u) = Len(emitted) + Len(u)
      BY <2>1
  <2> QED
      BY <2>1, <2>2
<1> QED
    BY <1>7, <1>12, <1>13 DEF names, after

(* At the end what is held comes out, and with it all of the reply. *)
LEMMA ShownFinish ==
    ASSUME ShownInv, Finish
    PROVE  /\ Len(shown') = Len(emitted') /\ Len(shown') = Len(reply)
           /\ ShownIs(vault.byToken, reply, shown', awkward)
<1> DEFINE names == vault.byToken
           e == Len(shown)
<1>1. NamesNumbers(names)
    BY IssuedTypes DEF ShownInv
<1>2. ShownIs(names, reply, shown, awkward) /\ e = Len(emitted) /\ TextInv
    BY DEF ShownInv
<1>3. /\ reply \in Seq(STRING) /\ emitted \in Seq(STRING) /\ hold \in Seq(STRING)
      /\ Len(reply) \in Nat /\ e \in Nat
    BY <1>2, RepliesAssumption DEF TextInv, StreamTypeOK
<1>4. Reaches(emitted, hold, reply, Len(reply))
    BY <1>2 DEF Finish, TextInv, NothingLost, Reaches
<1>5. IsPiece(hold, reply, e) /\ e + Len(hold) = Len(reply)
  <2>1. Len(reply) \in 0..Len(reply)
      BY <1>3
  <2>2. IsPiece(hold, reply, Len(emitted)) /\ Len(emitted) + Len(hold) = Len(reply)
      BY <1>3, <1>4, <2>1, NextPiece
  <2> QED
      BY <1>2, <2>2
<1>6. emitted' = emitted \o hold /\ shown' = shown \o Rehydrated(names, hold)
    BY DEF Finish, Rehydrate
<1> HIDE DEF names
<1>7. EndsWith(hold, reply, e)
    BY <1>5 DEF EndsWith
<1>8. KeepsApart(names, reply, awkward, awkward, e, e + Len(hold))
  <2>1. \A j \in DOMAIN reply : ~(Len(reply) < j)
      BY <1>3
  <2> QED
      BY <1>5, <2>1 DEF KeepsApart, NoneAcross
<1>9. /\ ShownIs(names, reply, shown \o Rehydrated(names, hold), awkward)
      /\ Len(shown \o Rehydrated(names, hold)) = e + Len(hold)
  <2>1. /\ IsPiece(hold, reply, Len(shown)) /\ EndsWith(hold, reply, Len(shown))
        /\ KeepsApart(names, reply, awkward, awkward, Len(shown), Len(shown) + Len(hold))
      BY <1>5, <1>7, <1>8
  <2>2. /\ NamesNumbers(names) /\ reply \in Seq(STRING) /\ hold \in Seq(STRING)
        /\ ShownIs(names, reply, shown, awkward)
      BY <1>1, <1>2, <1>3
  <2> QED
      BY <2>1, <2>2, MoreIsShown, SMTT(30)
<1>10. Len(emitted \o hold) = e + Len(hold)
  <2>1. Len(emitted \o hold) = Len(emitted) + Len(hold)
      BY <1>3
  <2> QED
      BY <1>2, <2>1
<1> QED
    BY <1>5, <1>6, <1>9, <1>10 DEF names

(* A vault that learns changes nothing of what has been shown. *)
LEMMA ShownLearn ==
    ASSUME ShownInv, NEW people \in Indexes, Learn(people)
    PROVE  ShownIs(vault'.byToken, reply, shown, awkward)
<1> DEFINE names == vault.byToken
           more == vault'.byToken
<1>1. PICK fresh \in Draws(vault, people) :
          /\ \A i \in DOMAIN people : fresh[i] \notin Mentioned
          /\ Update(people, fresh)
    BY DEF Learn
<1>2. /\ Ready(vault') /\ Extends(vault, vault')
      /\ DOMAIN more \subseteq DOMAIN names \cup {fresh[i] : i \in 1..Len(people)}
    BY <1>1, VaultLearns DEF ShownInv, VaultInv, Update
<1>3. NamesNumbers(more)
  <2> DEFINE v == vault'
  <2>1. v \in Vaults
      BY <1>2 DEF Ready, Sound
  <2> HIDE DEF v
  <2>2. NamesNumbers(v.byToken)
      BY <2>1, VaultTypes DEF NamesNumbers
  <2> QED
      BY <2>2 DEF v
<1>4. DOMAIN names \subseteq DOMAIN more /\ \A n \in DOMAIN names : more[n] = names[n]
    BY <1>2 DEF Extends
<1>5. ASSUME NEW n \in DOMAIN more, n \notin DOMAIN names
      PROVE  ~\E i, j \in DOMAIN reply : SubSeq(reply, i, j) = n
  <2>1. PICK i \in 1..Len(people) : n = fresh[i]
      BY <1>2, <1>5
  <2>2. DOMAIN people = 1..Len(people)
    <3>1. people \in Seq(People)
        BY IndexAssumption
    <3> QED
        BY <3>1
  <2>3. n \notin Mentioned /\ n \in Numbers
      BY <1>1, <1>3, <1>5, <2>1, <2>2 DEF NamesNumbers
  <2> QED
      BY <2>3 DEF Mentioned
<1>6. ShownIs(names, reply, shown, awkward) /\ reply \in Seq(STRING)
    BY RepliesAssumption DEF ShownInv, TextInv, StreamTypeOK
<1> HIDE DEF names, more
<1>7. DOMAIN more \subseteq Numbers
    BY <1>3 DEF NamesNumbers
<1>8. ShownIs(more, reply, shown, awkward)
    BY <1>4, <1>5, <1>6, <1>7, ShownStays
<1> QED
    BY <1>8 DEF more

LEMMA ShownInit == StreamInit => ShownInv
<1> SUFFICES ASSUME StreamInit PROVE ShownInv
    OBVIOUS
<1>1. TextInv /\ VaultInv
    BY TextInit, VaultInit
<1>2. shown = <<>> /\ emitted = <<>> /\ status = "streaming"
    BY DEF StreamInit
<1>3. reply \in Seq(STRING) /\ Len(reply) \in Nat
    BY RepliesAssumption DEF StreamInit
<1> DEFINE names == vault.byToken
<1> HIDE DEF names
<1>4. ShownIs(names, reply, <<>>, awkward)
  <2>1. <<>> \in Seq(Pieces) /\ Len(<<>>) = 0 /\ 1..Len(<<>>) = {}
      OBVIOUS
  <2>2. NoneAcross(names, reply, 0)
    <3>1. \A i \in DOMAIN reply : ~(i <= 0)
        BY <1>3
    <3> QED
        BY <3>1 DEF NoneAcross
  <2> QED
      BY <1>3, <2>1, <2>2 DEF ShownIs
<1> QED
    BY <1>1, <1>2, <1>4 DEF ShownInv, names

LEMMA ShownStep == ShownInv /\ [StreamNext]_streamVars => ShownInv'
<1> SUFFICES ASSUME ShownInv, [StreamNext]_streamVars PROVE ShownInv'
    OBVIOUS
<1>1. TextInv' /\ VaultInv'
    BY TextStep, VaultStep DEF ShownInv
<1>2. ASSUME NEW n \in 1..MaxChunk, Delta(n) PROVE ShownInv'
  <2>1. Len(shown') = Len(emitted') /\ ShownIs(vault.byToken, reply, shown', awkward')
      BY <1>2, ShownDelta
  <2>2. reply' = reply /\ vault' = vault /\ status' # "done"
      BY <1>2 DEF Delta
  <2> QED
      BY <1>1, <2>1, <2>2 DEF ShownInv
<1>3. CASE Finish
  <2>1. /\ Len(shown') = Len(emitted') /\ Len(shown') = Len(reply)
        /\ ShownIs(vault.byToken, reply, shown', awkward)
      BY <1>3, ShownFinish
  <2>2. reply' = reply /\ vault' = vault /\ awkward' = awkward
      BY <1>3 DEF Finish
  <2> QED
      BY <1>1, <2>1, <2>2 DEF ShownInv
<1>4. CASE Fail
    BY <1>1, <1>4 DEF Fail, ShownInv
<1>5. ASSUME NEW people \in Indexes, Learn(people) PROVE ShownInv'
  <2>1. ShownIs(vault'.byToken, reply, shown, awkward)
      BY <1>5, ShownLearn
  <2>2. UNCHANGED <<reply, shown, emitted, awkward, status>>
      BY <1>5 DEF Learn, stream
  <2> QED
      BY <1>1, <2>1, <2>2 DEF ShownInv
<1>6. CASE UNCHANGED streamVars
    BY <1>1, <1>6 DEF streamVars, stream, ShownInv
<1> QED
    BY <1>2, <1>3, <1>4, <1>5, <1>6 DEF StreamNext

(* Nobody is named who is not meant, however a reply is cut and whatever the
   vault learns meanwhile: what is shown otherwise than it was said is a token
   of the finished reply, with all of its digits (redact.go:193-246,
   llm/client.go:266-282). *)
THEOREM StreamNamesNobodyElse == StreamSpec => []NoWrongName
<1>1. ShownInv => NoWrongName
  <2> SUFFICES ASSUME ShownInv, NEW k \in DOMAIN shown, shown[k] # <<reply[k]>>
               PROVE  \E i, j \in DOMAIN reply :
                          /\ Meant(i, j) /\ i <= k /\ k <= j
                          /\ shown[k] = IF k = i THEN vault.byToken[Number(reply, i, j)] ELSE <<>>
      BY DEF NoWrongName
  <2> DEFINE names == vault.byToken
             piece == shown[k]
  <2>1. ShownIs(names, reply, shown, awkward)
      BY DEF ShownInv
  <2>2. shown \in Seq(Pieces)
      BY <2>1 DEF ShownIs
  <2>3. k \in 1..Len(shown)
      BY <2>2
  <2>4. RightIn(names, reply, piece, k)
      BY <2>1, <2>3 DEF ShownIs
  <2>5. \A i, j : MeantIn(names, reply, i, j) <=> Meant(i, j)
      BY DEF MeantIn, Meant
  <2>6. piece # <<reply[k]>>
      OBVIOUS
  <2> HIDE DEF names, piece
  <2>7. \E i, j \in DOMAIN reply :
            /\ Meant(i, j) /\ i <= k /\ k <= j
            /\ piece = IF k = i THEN names[Number(reply, i, j)] ELSE <<>>
      BY <2>4, <2>5, <2>6 DEF RightIn
  <2> QED
      BY <2>7 DEF names, piece
<1> QED
    BY <1>1, ShownInit, ShownStep, PTL DEF StreamSpec

(* What the stream shows is what the finished reply will say, however it is
   cut and whatever the vault learns meanwhile, but for a chunk that ends
   behind CONTAC and a token in one word with something else (llm/client.go:
   266-282). *)
THEOREM StreamShowsFinalText == StreamSpec => []ShowsFinalText
<1>1. ShownInv => ShowsFinalText
  <2> SUFFICES ASSUME ShownInv, status = "done", ~awkward,
                      \A i, j \in DOMAIN reply : Meant(i, j) => TokenAt(reply, i, j)
               PROVE  shown = Rehydrate(reply)
      BY DEF ShowsFinalText
  <2> DEFINE names == vault.byToken
             whole == Rehydrated(names, reply)
  <2>1. ShownIs(names, reply, shown, awkward) /\ Len(shown) = Len(reply)
      BY DEF ShownInv
  <2>2. AllApart(names, reply)
      BY DEF AllApart, MeantIn, Meant
  <2>3. reply \in Seq(STRING)
      BY RepliesAssumption DEF ShownInv, TextInv, StreamTypeOK
  <2>4. NamesNumbers(names)
      BY IssuedTypes DEF ShownInv
  <2> HIDE DEF names
  <2>5. whole \in Seq(Pieces) /\ Len(whole) = Len(reply)
      BY <2>3, <2>4, RehydratedTypes DEF NamesNumbers
  <2>6. shown \in Seq(Pieces) /\ \A k \in 1..Len(shown) : shown[k] = whole[k]
      BY <2>1, <2>2 DEF ShownIs
  <2> HIDE DEF whole
  <2>7. shown = whole
      BY <2>1, <2>5, <2>6, SeqEqual
  <2> QED
      BY <2>7 DEF whole, names, Rehydrate
<1> QED
    BY <1>1, ShownInit, ShownStep, PTL DEF StreamSpec
=============================================================================
