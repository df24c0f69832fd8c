--------------------------- MODULE MCAttachments ---------------------------
(***************************************************************************)
(* Two drafts, two files, and failures enough to interrupt the same draft  *)
(* twice.  The view forgets where a file comes from: only FilesStayInChat  *)
(* looks at it, and its run, the one with two chats, does without.         *)
(***************************************************************************)
EXTENDS Attachments, TLC

Unnamed == <<screenVars, input, Len(composeAtts), Cardinality(pasting), pastes,
             [l \in Sent |-> <<sends[l].chat, sends[l].text, Len(sends[l].files)>>],
             commands, log, faults, deleted>>

Exchange == Permutations(Chats)
=============================================================================
