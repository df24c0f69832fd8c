----------------------------- MODULE MCChatList -----------------------------
(* The chat list with what is live of its state. *)
EXTENDS ChatList

(* listPos and currentChatID are read in a conversation only, and set on
   entering one. *)
Live ==
    <<mode, tab, height, query, listVars, returnToChat,
      IF mode \in {"conversation", "insert", "react"} THEN <<listPos, current>> ELSE <<>>>>
=============================================================================
