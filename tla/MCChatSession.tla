--------------------------- MODULE MCChatSession ---------------------------
(***************************************************************************)
(* The instance of ChatSession that TLC explores: a channel that a reply's *)
(* tokens overfill, and two questions, so that one can follow a cancelled  *)
(* one.                                                                    *)
(***************************************************************************)
EXTENDS ChatSession

(* hasModel decides nothing.  Once a response has been cancelled, the turn
   matters only by being there or not and by having text or not: AnswerInOrder
   asks no more, and whether a step changed the turn at all is asked of the
   step. *)
Live ==
    <<mode, session, detecting, checked, chatErr, asked, goVars, chanVars, cancelled, listener,
      IF NothingCancelled THEN <<turn>> ELSE <<turn = NoTurn, turn.text = <<>>>>>>
=============================================================================
