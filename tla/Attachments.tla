----------------------------- MODULE Attachments -----------------------------
(***************************************************************************)
(* A draft with files (internal/ui: media.go, nav.go, messages.go): how it *)
(* is put together, sent part by part in the background, resumed after a   *)
(* failure, and recognised when the server's copy comes back.              *)
(*                                                                         *)
(* The parts of a draft are its files, the first with the caption; a draft *)
(* without files has one part, its text.  Of the rows on screen only the   *)
(* placeholders matter here.  The server may send any of its messages as   *)
(* a live event, more than once, and a refetch shows the chat as it was at *)
(* some earlier moment.  Everything happens within the two minutes hasEcho *)
(* allows for.                                                             *)
(***************************************************************************)
EXTENDS Naturals, Sequences, FiniteSets

CONSTANTS
    Chats,
    None,
    Texts, NoText,   \* what can be typed, and the empty string
    MaxSends,        \* bound: drafts sent
    MaxPastes,       \* bound: files attached
    MaxFaults,       \* bound: failed requests
    MaxMoves         \* bound: chats opened

ASSUME AttachmentsAssumption ==
    /\ None \notin Chats /\ NoText \notin Texts
    /\ MaxSends \in Nat /\ MaxPastes \in Nat /\ MaxFaults \in Nat /\ MaxMoves \in Nat

\* A send command at work, and what is left of a draft.
Commands == [text : Texts \cup {NoText}, from : Nat, at : Nat,
             phase : {"upload", "send", "sent", "failed"}]
Remainders == [text : Texts \cup {NoText}, from : Nat]

ASSUME NoneAssumption == None \notin Commands \cup Remainders

VARIABLES
    mode, current,   \* m.mode, m.currentChatID
    input,           \* m.input
    composeAtts,     \* m.composeAtts
    pasting,         \* clipboard reads in flight
    placeholders,    \* the "local:" rows of m.messages
    failedSends,     \* m.failedSends: what is left of a draft
    sends,           \* the drafts sent, as they were
    commands,        \* the send command of each, while it runs
    loads,           \* loads in flight
    log,             \* each chat's messages from the user, at the server
    deleted,         \* chats deleted elsewhere
    pastes, faults, moves

draftVars == <<input, composeAtts, pasting, pastes>>
screenVars == <<mode, current, placeholders, failedSends, loads, moves>>
sendVars == <<sends, commands, log, faults>>
vars == <<draftVars, screenVars, sendVars, deleted>>

Locals == 1..MaxSends
Sent == 1..Len(sends)

\* A file remembers the chat that was open when it was picked.
File(n) == [n |-> n, for |-> current]

Parts(l) == IF sends[l].files = <<>> THEN 1 ELSE Len(sends[l].files)

\* at is the part it is busy with, from the one it started with
Command(l, text, from) ==
    [text |-> text, from |-> from, at |-> from,
     phase |-> IF sends'[l].files = <<>> THEN "send" ELSE "upload"]

Fault == faults < MaxFaults /\ faults' = faults + 1

Init ==
    /\ mode = "list" /\ current = None
    /\ input = NoText /\ composeAtts = <<>> /\ pasting = {}
    /\ placeholders = {} /\ failedSends = [l \in Locals |-> None]
    /\ sends = <<>> /\ commands = [l \in Locals |-> None]
    /\ loads = {} /\ log = [c \in Chats |-> <<>>] /\ deleted = {}
    /\ pastes = 0 /\ faults = 0 /\ moves = 0

-----------------------------------------------------------------------------
(* The user. *)

Open(c) ==
    /\ mode = "list" /\ c \notin deleted
    /\ moves < MaxMoves /\ moves' = moves + 1
    /\ mode' = "conversation" /\ current' = c /\ placeholders' = {}
    /\ loads' = loads \cup {c}
    /\ UNCHANGED <<failedSends, draftVars, sendVars, deleted>>

Back ==
    /\ mode = "conversation" /\ mode' = "list"
    /\ UNCHANGED <<current, placeholders, failedSends, loads, moves, draftVars, sendVars,
                   deleted>>

Insert ==
    /\ mode = "conversation" /\ mode' = "insert"
    /\ UNCHANGED <<current, placeholders, failedSends, loads, moves, draftVars, sendVars,
                   deleted>>

Escape ==
    /\ mode = "insert" /\ mode' = "conversation"
    /\ input' = NoText /\ composeAtts' = <<>>
    /\ UNCHANGED <<current, placeholders, failedSends, loads, moves, pasting, pastes, sendVars,
                   deleted>>

Type ==
    /\ mode = "insert" /\ input = NoText
    /\ input' \in Texts
    /\ UNCHANGED <<composeAtts, pasting, pastes, screenVars, sendVars, deleted>>

\* A file dragged into the terminal comes as a paste of its path.
PasteFile ==
    /\ mode = "insert"
    /\ pastes < MaxPastes /\ pastes' = pastes + 1
    /\ composeAtts' = Append(composeAtts, File(pastes'))
    /\ UNCHANGED <<input, pasting, screenVars, sendVars, deleted>>

\* ctrl+v, which reads the clipboard in the background
PasteClipboard ==
    /\ mode = "insert"
    /\ pastes < MaxPastes /\ pastes' = pastes + 1
    /\ pasting' = pasting \cup {File(pastes')}
    /\ UNCHANGED <<input, composeAtts, screenVars, sendVars, deleted>>

\* The image joins whatever draft there is by then, or there was none.
ClipboardArrives(f) ==
    /\ f \in pasting /\ pasting' = pasting \ {f}
    /\ composeAtts' \in {composeAtts, Append(composeAtts, f)}
    /\ UNCHANGED <<input, pastes, screenVars, sendVars, deleted>>

\* With no text left it eats the last file.
Backspace ==
    /\ mode = "insert"
    /\ \/ input # NoText /\ input' = NoText /\ UNCHANGED composeAtts
       \/ /\ input = NoText /\ composeAtts # <<>>
          /\ composeAtts' = SubSeq(composeAtts, 1, Len(composeAtts) - 1)
          /\ UNCHANGED input
    /\ UNCHANGED <<pasting, pastes, screenVars, sendVars, deleted>>

SendInput ==
    /\ mode = "insert" /\ Len(sends) < MaxSends
    /\ input # NoText \/ composeAtts # <<>>
    /\ sends' = Append(sends, [chat |-> current, text |-> input, files |-> composeAtts])
    /\ LET l == Len(sends')
       IN  /\ placeholders' = placeholders \cup {l}
           /\ commands' = [commands EXCEPT ![l] = Command(l, input, 1)]
    /\ input' = NoText /\ composeAtts' = <<>> /\ mode' = "conversation"
    /\ UNCHANGED <<current, failedSends, loads, moves, pasting, pastes, log, faults, deleted>>

\* R on a placeholder with a failure flag
RetryFailedSend(l) ==
    /\ mode = "conversation" /\ l \in placeholders /\ failedSends[l] # None
    /\ UNCHANGED sends
    /\ commands' = [commands EXCEPT ![l] = Command(l, failedSends[l].text, failedSends[l].from)]
    /\ failedSends' = [failedSends EXCEPT ![l] = None]
    /\ UNCHANGED <<mode, current, placeholders, loads, moves, draftVars, log, faults, deleted>>

-----------------------------------------------------------------------------
(* The send command. *)

Running(l, phase) == commands[l] # None /\ commands[l].phase = phase

\* Fault: the draft's caption is reported with whatever part failed
CaptionOfAny(l) == commands[l].text

\* The caption goes with the first of the command's parts.
Caption(l) == IF commands[l].at = commands[l].from THEN commands[l].text ELSE NoText

\* What is left of the draft, on its way to Update as a sendResultMsg
Abort(l) == commands' = [commands EXCEPT ![l] = [text |-> Caption(l), from |-> @.at,
                                                 at |-> @.at, phase |-> "failed"]]

Upload(l) ==
    /\ Running(l, "upload")
    /\ \/ commands' = [commands EXCEPT ![l].phase = "send"] /\ UNCHANGED faults
       \/ Fault /\ Abort(l)
    /\ UNCHANGED <<draftVars, screenVars, sends, log, deleted>>

\* The server takes the message; err will say that it was reported as failed.
Dispatch(l) ==
    /\ Running(l, "send") /\ sends[l].chat \notin deleted
    /\ commands' = [commands EXCEPT ![l].phase = "sent"]
    /\ log' = [log EXCEPT ![sends[l].chat] =
                   Append(@, [draft |-> l, part |-> commands[l].at, text |-> Caption(l),
                              err |-> FALSE])]
    /\ UNCHANGED <<draftVars, screenVars, sends, faults, deleted>>

Refused(l) ==
    /\ Running(l, "send") /\ Abort(l)
    /\ IF sends[l].chat \in deleted THEN UNCHANGED faults ELSE Fault
    /\ UNCHANGED <<draftVars, screenVars, sends, log, deleted>>

Accepted(l) ==
    /\ Running(l, "sent")
    /\ LET k == commands[l]
       IN  commands' = [commands EXCEPT ![l] =
                            IF k.at = Parts(l) THEN None
                            ELSE [k EXCEPT !.at = @ + 1, !.phase = "upload"]]
    /\ UNCHANGED <<draftVars, screenVars, sends, log, faults, deleted>>

\* "The send call can error after the bridge dispatched"
ReportedFailed(l) ==
    /\ Running(l, "sent") /\ Fault /\ Abort(l)
    /\ LET c == sends[l].chat
           mine == {p \in DOMAIN log[c] : log[c][p].draft = l}
           p == CHOOSE q \in mine : \A r \in mine : r <= q
       IN  log' = [log EXCEPT ![c][p].err = TRUE]
    /\ UNCHANGED <<draftVars, screenVars, sends, deleted>>

\* The refetch it asks for may come at any time anyway: MessagesRefreshed.
SendResult(l) ==
    /\ Running(l, "failed")
    /\ failedSends' = [failedSends EXCEPT ![l] =
                           [text |-> commands[l].text, from |-> commands[l].from]]
    /\ commands' = [commands EXCEPT ![l] = None]
    /\ UNCHANGED <<mode, current, placeholders, loads, moves, draftVars, sends, log, faults,
                   deleted>>

-----------------------------------------------------------------------------
(* What the server holds comes back. *)

SameShape(m, l) == (sends[m.draft].files = <<>>) = (sends[l].files = <<>>)

\* Fault: any message of the right shape is an echo
HasEchoOfShape(msgs, l) == \E m \in msgs : SameShape(m, l)

HasEcho(msgs, l) == \E m \in msgs : m.text = sends[l].text /\ SameShape(m, l)

Drop(ls) ==
    /\ placeholders' = placeholders \ ls
    /\ failedSends' = [l \in Locals |-> IF l \in ls THEN None ELSE failedSends[l]]

\* a refetch of the open chat, as it was after its first k messages
MessagesRefreshed(k) ==
    /\ current # None
    /\ LET msgs == {log[current][p] : p \in 1..k}
       IN  Drop({l \in placeholders : HasEcho(msgs, l)})
    /\ UNCHANGED <<mode, current, loads, moves, draftVars, sendVars, deleted>>

\* The load of a chat replaces the rows; a stale one is dropped.
MessagesLoaded(c) ==
    /\ c \in loads /\ loads' = loads \ {c}
    /\ placeholders' = IF c = current THEN {} ELSE placeholders
    /\ UNCHANGED <<mode, current, failedSends, moves, draftVars, sendVars, deleted>>

\* The first placeholder with the message's text, whatever its shape
Claimed(m) ==
    LET alike == {l \in placeholders : sends[l].text = m.text}
    IN  {l \in alike : \A o \in alike : l <= o}

LiveMessage(m) ==
    /\ mode \in {"conversation", "insert"}
    /\ Drop(Claimed(m))
    /\ UNCHANGED <<mode, current, loads, moves, draftVars, sendVars, deleted>>

\* The files of the draft survive; the text does not.
ChatDeleted(c) ==
    /\ c \notin deleted /\ deleted' = deleted \cup {c}
    /\ IF c = current /\ mode \in {"conversation", "insert"}
       THEN /\ mode' = "list" /\ current' = None /\ placeholders' = {}
            /\ input' = NoText
       ELSE UNCHANGED <<mode, current, placeholders, input>>
    /\ UNCHANGED <<failedSends, loads, moves, composeAtts, pasting, pastes, sendVars>>

Compose == \/ Insert \/ Escape \/ Type \/ PasteFile \/ PasteClipboard \/ Backspace \/ SendInput
           \/ \E f \in pasting : ClipboardArrives(f)
Send(l) == \/ Upload(l) \/ Dispatch(l) \/ Refused(l) \/ Accepted(l) \/ ReportedFailed(l)
           \/ SendResult(l) \/ RetryFailedSend(l)
Next ==
    \/ Compose \/ Back
    \/ \E c \in Chats : Open(c) \/ MessagesLoaded(c) \/ ChatDeleted(c)
    \/ \E l \in Sent : Send(l)
    \/ current # None /\ \E k \in 0..Len(log[current]) : MessagesRefreshed(k)
    \/ current # None /\ \E p \in DOMAIN log[current] : LiveMessage(log[current][p])

Spec == Init /\ [][Next]_vars

-----------------------------------------------------------------------------
(***************************************************************************)
(* "uploads each pending file and sends it, attaching the caption to the   *)
(* first. The first failure aborts the rest" (media.go:255-256): whatever  *)
(* fails and however often it is retried, the parts of a draft reach the   *)
(* chat in order and without a gap, the caption with the first only, and a *)
(* part comes twice only if the first time was reported as failed.         *)
(***************************************************************************)
ArrivesInOrder ==
    \A c \in Chats : \A q \in DOMAIN log[c] :
        LET m == log[c][q]
            before == {p \in 1..q - 1 : log[c][p].draft = m.draft}
        IN  /\ m.text = IF m.part = 1 THEN sends[m.draft].text ELSE NoText
            /\ \A p \in before : log[c][p].part <= m.part
            /\ \A p \in before : log[c][p].part = m.part => log[c][p].err
            /\ m.part = 1 \/ \E p \in before : log[c][p].part = m.part - 1

\* No other message of the user's in these drafts has the text of l.
OwnText(l) == \A o \in Sent \ {l} :
    sends[o].text # sends[l].text /\ (sends[l].text = NoText => Parts(o) = 1)

(***************************************************************************)
(* A draft whose text no other message has is not given up before its      *)
(* first part is in the chat: until then it is on its way, or what is left *)
(* of it is kept for a retry (update.go:111-124, poll.go:72-119,           *)
(* wsevents.go:170-182).  An echo does not carry another draft away.       *)
(***************************************************************************)
KeptUntilSent ==
    \A l \in Sent :
        OwnText(l) /\ commands[l] = None /\ failedSends[l] = None
            => \E p \in DOMAIN log[sends[l].chat] :
                   log[sends[l].chat][p].draft = l /\ log[sends[l].chat][p].part = 1

(***************************************************************************)
(* "local file paths attached to the draft" (model.go:86), and             *)
(* "conversation state must be cleared for a deleted chat"                 *)
(* (wsevents_test.go:288): a file goes to the chat it was picked in.       *)
(***************************************************************************)
FilesStayInChat ==
    \A l \in Sent : \A i \in DOMAIN sends[l].files : sends[l].files[i].for = sends[l].chat
=============================================================================
