-------------------------- MODULE AttachmentsProofs --------------------------
(***************************************************************************)
(* The parts of a draft arrive in order, and no draft of its own text is   *)
(* given up before its first part is in the chat: for any number of        *)
(* drafts, files, failures and chats.                                      *)
(***************************************************************************)
EXTENDS Attachments, SequenceTheorems, TLAPS

Captions == Texts \cup {NoText}
Files == [n : Nat, for : Chats \cup {None}]
Drafts == [chat : Chats, text : Captions, files : Seq(Files)]
Messages == [draft : Nat, part : Nat, text : Captions, err : BOOLEAN]

(* Whoever composes has a chat open. *)
TypesInv ==
    /\ current \in Chats \cup {None} /\ pastes \in Nat
    /\ mode \in {"list", "conversation", "insert"}
    /\ mode # "list" => current \in Chats
    /\ input \in Captions /\ composeAtts \in Seq(Files) /\ pasting \subseteq Files
    /\ sends \in Seq(Drafts) /\ Len(sends) <= MaxSends
    /\ placeholders \subseteq Sent
    /\ commands \in [Locals -> Commands \cup {None}]
    /\ failedSends \in [Locals -> Remainders \cup {None}]
    /\ log \in [Chats -> Seq(Messages)]

(* Part k of draft l is among the messages s. *)
Arrived(s, l, k) == \E p \in DOMAIN s : s[p].draft = l /\ s[p].part = k

(* Everything before part a of draft l is there, and a itself at most with a
   failure reported: it is a's turn. *)
Due(s, l, a) ==
    /\ a = 1 \/ (Arrived(s, l, 1) /\ Arrived(s, l, a - 1))
    /\ \A p \in DOMAIN s : s[p].draft = l => s[p].part <= a /\ (s[p].part = a => s[p].err)

(* Everything up to part a is there, and a is the latest. *)
Reached(s, l, a) ==
    /\ Arrived(s, l, 1)
    /\ \E p \in DOMAIN s :
          /\ s[p].draft = l /\ s[p].part = a
          /\ \A q \in DOMAIN s : s[q].draft = l => q <= p /\ s[q].part <= a

(* What is left of a draft of n parts with this text, from a part on. *)
Rest(r, text, n) == r.from \in 1..n /\ r.text = IF r.from = 1 THEN text ELSE NoText

(* A command knows where it is. *)
OnItsWay(k, s, l, text, n) ==
    /\ Rest(k, text, n) /\ k.at \in k.from..n
    /\ IF k.phase = "sent" THEN Reached(s, l, k.at) ELSE Due(s, l, k.at)
    /\ k.phase = "failed" => k.at = k.from

(* The message at q of a chat is one of its draft's, in its turn. *)
InTurn(s, q, text, n) ==
    /\ s[q].part \in 1..n
    /\ Arrived(s, s[q].draft, 1)
    /\ s[q].text = IF s[q].part = 1 THEN text ELSE NoText
    /\ \A p \in 1..q - 1 : s[p].draft = s[q].draft =>
           s[p].part <= s[q].part /\ (s[p].part = s[q].part => s[p].err)
    /\ s[q].part = 1 \/ \E p \in 1..q - 1 :
           s[p].draft = s[q].draft /\ s[p].part = s[q].part - 1

Chat(l) == log[sends[l].chat]

CommandsInv == \A l \in Sent : commands[l] # None =>
    /\ failedSends[l] = None
    /\ OnItsWay(commands[l], Chat(l), l, sends[l].text, Parts(l))

FailedInv == \A l \in Sent : failedSends[l] # None =>
    /\ Rest(failedSends[l], sends[l].text, Parts(l))
    /\ Due(Chat(l), l, failedSends[l].from)

LogInv == \A c \in Chats : \A q \in DOMAIN log[c] :
    /\ log[c][q].draft \in Sent
    /\ sends[log[c][q].draft].chat = c
    /\ InTurn(log[c], q, sends[log[c][q].draft].text, Parts(log[c][q].draft))

UnsentInv == \A l \in Locals \ Sent : commands[l] = None /\ failedSends[l] = None

(* The account of the drafts. *)
Account == CommandsInv /\ FailedInv /\ LogInv /\ UnsentInv
-----------------------------------------------------------------------------
(* What happens to the messages of a chat. *)

LEMMA Appended ==
    ASSUME NEW s \in Seq(Messages), NEW m \in Messages, NEW t, t = Append(s, m)
    PROVE  /\ t \in Seq(Messages) /\ Len(s) \in Nat
           /\ DOMAIN s = 1..Len(s) /\ DOMAIN t = 1..Len(s) + 1
           /\ \A p \in 1..Len(s) : t[p] = s[p]
           /\ t[Len(s) + 1] = m
OBVIOUS

(* A part that was due has arrived. *)
LEMMA Arrival ==
    ASSUME NEW s \in Seq(Messages), NEW m \in Messages, NEW t, t = Append(s, m),
           NEW n \in Nat, NEW text, m.part \in 1..n, Due(s, m.draft, m.part),
           m.text = IF m.part = 1 THEN text ELSE NoText
    PROVE  /\ Reached(t, m.draft, m.part)
           /\ InTurn(t, Len(s) + 1, text, n)
<1>1. /\ Len(s) \in Nat /\ DOMAIN s = 1..Len(s) /\ DOMAIN t = 1..Len(s) + 1
      /\ \A p \in 1..Len(s) : t[p] = s[p]
      /\ t[Len(s) + 1] = m
  BY Appended
<1>2. \A p \in 1..Len(s) : s[p].draft = m.draft =>
          s[p].part <= m.part /\ (s[p].part = m.part => s[p].err)
  BY <1>1 DEF Due
<1>3. m.part \in Nat /\ m.part <= m.part
  BY DEF Messages
<1>4. Arrived(t, m.draft, 1)
  <2>1. CASE m.part = 1
    BY <1>1, <2>1 DEF Arrived
  <2>2. CASE m.part # 1
    <3>1. PICK p \in DOMAIN s : s[p].draft = m.draft /\ s[p].part = 1
      BY <2>2 DEF Due, Arrived
    <3> QED
      BY <1>1, <3>1 DEF Arrived
  <2> QED
    BY <2>1, <2>2
<1>5. Reached(t, m.draft, m.part)
  <2>1. \A q \in DOMAIN t : t[q].draft = m.draft => q <= Len(s) + 1 /\ t[q].part <= m.part
    BY <1>1, <1>2, <1>3
  <2> QED
    BY <1>1, <1>4, <2>1 DEF Reached
<1>6. m.part = 1 \/ \E p \in 1..Len(s) : t[p].draft = m.draft /\ t[p].part = m.part - 1
  <2>1. CASE m.part # 1
    <3>1. PICK p \in DOMAIN s : s[p].draft = m.draft /\ s[p].part = m.part - 1
      BY <2>1 DEF Due, Arrived
    <3> QED
      BY <1>1, <3>1
  <2> QED
    BY <2>1
<1>7. Len(s) + 1 - 1 = Len(s)
  BY <1>1
<1> QED
  BY <1>1, <1>2, <1>4, <1>5, <1>6, <1>7 DEF InTurn

LEMMA ReachedIsDue ==
    ASSUME NEW s \in Seq(Messages), NEW l, NEW a \in Nat \ {0}, Reached(s, l, a),
           NEW b, b = a + 1
    PROVE  Due(s, l, b)
<1>1. PICK p \in DOMAIN s :
          /\ s[p].draft = l /\ s[p].part = a
          /\ \A q \in DOMAIN s : s[q].draft = l => q <= p /\ s[q].part <= a
  BY DEF Reached
<1>2. \A q \in DOMAIN s : s[q] \in Messages
  OBVIOUS
<1>3. \A q \in DOMAIN s : s[q].part \in Nat
  BY <1>2 DEF Messages
<1>4. \A q \in DOMAIN s : s[q].draft = l => s[q].part <= b /\ s[q].part # b
  BY <1>1, <1>3
<1>5. b - 1 = a
  OBVIOUS
<1>6. Arrived(s, l, 1) /\ Arrived(s, l, b - 1)
  BY <1>1, <1>5 DEF Reached, Arrived
<1> QED
  BY <1>4, <1>6 DEF Due

(* The others do not notice. *)
LEMMA ArrivalElsewhere ==
    ASSUME NEW s \in Seq(Messages), NEW m \in Messages, NEW t, t = Append(s, m)
    PROVE  /\ \A l, k : Arrived(s, l, k) => Arrived(t, l, k)
           /\ \A l, a : l # m.draft /\ Due(s, l, a) => Due(t, l, a)
           /\ \A l, a : l # m.draft /\ Reached(s, l, a) => Reached(t, l, a)
           /\ \A q \in DOMAIN s : \A text, n : InTurn(s, q, text, n) => InTurn(t, q, text, n)
<1>1. /\ Len(s) \in Nat /\ DOMAIN s = 1..Len(s) /\ DOMAIN t = 1..Len(s) + 1
      /\ \A p \in 1..Len(s) : t[p] = s[p]
      /\ t[Len(s) + 1] = m
  BY Appended
<1>2. ASSUME NEW l, NEW k, Arrived(s, l, k) PROVE Arrived(t, l, k)
  BY <1>1, <1>2 DEF Arrived
<1>3. ASSUME NEW l, NEW a, l # m.draft, Due(s, l, a) PROVE Due(t, l, a)
  BY <1>1, <1>2, <1>3 DEF Due
<1>4. ASSUME NEW l, NEW a, l # m.draft, Reached(s, l, a) PROVE Reached(t, l, a)
  BY <1>1, <1>2, <1>4 DEF Reached
<1>5. ASSUME NEW q \in DOMAIN s, NEW text, NEW n, InTurn(s, q, text, n)
      PROVE  InTurn(t, q, text, n)
  <2>1. q \in 1..Len(s) /\ t[q] = s[q] /\ \A p \in 1..q - 1 : p \in 1..Len(s) /\ t[p] = s[p]
    BY <1>1
  <2> QED
    BY <1>2, <1>5, <2>1 DEF InTurn
<1> QED
  BY <1>2, <1>3, <1>4, <1>5

(* The messages t are the messages s but for failures reported, part a of
   draft l among them. *)
FlagsSet(s, t, l, a) ==
    /\ t \in Seq(Messages) /\ DOMAIN t = DOMAIN s
    /\ \A q \in DOMAIN s : /\ t[q].draft = s[q].draft /\ t[q].part = s[q].part
                           /\ t[q].text = s[q].text /\ (s[q].err => t[q].err)
    /\ a # 1 => \E q \in DOMAIN s : s[q].draft = l /\ s[q].part = a - 1
    /\ \A q \in DOMAIN s : s[q].draft = l /\ s[q].part = a => t[q].err

(* The latest part of a draft is reported as failed, so it is due again. *)
LEMMA Reported ==
    ASSUME NEW s \in Seq(Messages), NEW l, NEW a \in Nat \ {0}, Reached(s, l, a),
           NEW z \in DOMAIN s, s[z].draft = l,
           \A r \in DOMAIN s : s[r].draft = l => r <= z,
           NEW text, NEW n, InTurn(s, z, text, n),
           NEW t, t = [s EXCEPT ![z].err = TRUE]
    PROVE  FlagsSet(s, t, l, a)
<1>1. PICK p \in DOMAIN s : /\ s[p].draft = l /\ s[p].part = a
                            /\ \A q \in DOMAIN s : s[q].draft = l => q <= p /\ s[q].part <= a
  BY DEF Reached
<1>2. DOMAIN s = 1..Len(s) /\ Len(s) \in Nat /\ \A q \in DOMAIN s : s[q] \in Messages
  OBVIOUS
<1>4. z = p
  <2>1. z <= p /\ p <= z /\ z \in Nat /\ p \in Nat
    BY <1>1, <1>2
  <2> QED
    BY <2>1
<1>5. t = [s EXCEPT ![p].err = TRUE]
  BY <1>4
<1>6. DOMAIN t = DOMAIN s /\ \A q \in DOMAIN s : q # p => t[q] = s[q]
  BY <1>5
<1>7. t[p] = [s[p] EXCEPT !.err = TRUE]
  BY <1>1, <1>5
<1>8. /\ t[p] \in Messages /\ t[p].draft = s[p].draft /\ t[p].part = s[p].part
      /\ t[p].text = s[p].text /\ t[p].err = TRUE
  BY <1>1, <1>2, <1>7 DEF Messages
<1>9. t \in Seq(Messages)
  <2>1. \A q \in 1..Len(s) : t[q] \in Messages
    BY <1>2, <1>6, <1>8
  <2>2. t \in [1..Len(s) -> Messages]
    BY <1>2, <1>5, <2>1
  <2> QED
    BY <1>2, <2>2, SeqDef
<1>10. InTurn(s, p, text, n)
  BY <1>4
<1>11. 1..p - 1 \subseteq DOMAIN s
  BY <1>2
<1>12. a # 1 => \E q \in DOMAIN s : s[q].draft = l /\ s[q].part = a - 1
  BY <1>1, <1>10, <1>11 DEF InTurn
<1>13. ASSUME NEW q \in DOMAIN s, s[q].draft = l, s[q].part = a, q # p PROVE s[q].err
  <2>1. q \in 1..p - 1
    BY <1>1, <1>2, <1>13
  <2> QED
    BY <1>1, <1>10, <1>13, <2>1 DEF InTurn
<1>14. \A q \in DOMAIN s : s[q].draft = l /\ s[q].part = a => t[q].err
  BY <1>6, <1>8, <1>13
<1>15. \A q \in DOMAIN s : /\ t[q].draft = s[q].draft /\ t[q].part = s[q].part
                           /\ t[q].text = s[q].text /\ (s[q].err => t[q].err)
  BY <1>6, <1>8
<1> QED
  BY <1>6, <1>9, <1>12, <1>14, <1>15 DEF FlagsSet

(* A report takes nothing away. *)
LEMMA ReportKeeps ==
    ASSUME NEW s, NEW t, DOMAIN t = DOMAIN s,
           \A q \in DOMAIN s : \A p \in 1..q - 1 : p \in DOMAIN s,
           \A q \in DOMAIN s : /\ t[q].draft = s[q].draft /\ t[q].part = s[q].part
                               /\ t[q].text = s[q].text /\ (s[q].err => t[q].err)
    PROVE  /\ \A l, k : Arrived(s, l, k) => Arrived(t, l, k)
           /\ \A l, a : Due(s, l, a) => Due(t, l, a)
           /\ \A l, a : Reached(s, l, a) => Reached(t, l, a)
           /\ \A q \in DOMAIN s : \A text, n : InTurn(s, q, text, n) => InTurn(t, q, text, n)
<1>2. ASSUME NEW l, NEW k, Arrived(s, l, k) PROVE Arrived(t, l, k)
  BY <1>2 DEF Arrived
<1>3. ASSUME NEW l, NEW a, Due(s, l, a) PROVE Due(t, l, a)
  BY <1>2, <1>3 DEF Due
<1>4. ASSUME NEW l, NEW a, Reached(s, l, a) PROVE Reached(t, l, a)
  BY <1>2, <1>4 DEF Reached
<1>5. ASSUME NEW q \in DOMAIN s, NEW text, NEW n, InTurn(s, q, text, n)
      PROVE  InTurn(t, q, text, n)
  BY <1>2, <1>5 DEF InTurn
<1> QED
  BY <1>2, <1>3, <1>4, <1>5
-----------------------------------------------------------------------------
(* Types. *)

LEMMA Bounds == MaxSends \in Nat /\ None \notin Chats /\ None \notin Commands /\ None \notin Remainders
  BY AttachmentsAssumption, NoneAssumption

LEMMA PartsCount == TypesInv => \A l \in Sent :
    /\ l \in Locals /\ l \in Nat /\ sends[l] \in Drafts /\ sends[l].chat \in Chats
    /\ sends[l].text \in Captions /\ Parts(l) \in Nat \ {0}
    /\ Chat(l) \in Seq(Messages)
<1> SUFFICES ASSUME TypesInv, NEW l \in Sent
             PROVE  /\ l \in Locals /\ l \in Nat /\ sends[l] \in Drafts /\ sends[l].chat \in Chats
                    /\ sends[l].text \in Captions /\ Parts(l) \in Nat \ {0}
                    /\ Chat(l) \in Seq(Messages)
  OBVIOUS
<1>1. /\ sends \in Seq(Drafts) /\ Len(sends) <= MaxSends /\ MaxSends \in Nat
      /\ log \in [Chats -> Seq(Messages)]
  BY Bounds DEF TypesInv
<1>2. l \in 1..Len(sends) /\ Len(sends) \in Nat
  BY <1>1 DEF Sent
<1>3. l \in Locals /\ l \in Nat /\ sends[l] \in Drafts
  BY <1>1, <1>2 DEF Locals
<1>4. sends[l].chat \in Chats /\ sends[l].text \in Captions /\ sends[l].files \in Seq(Files)
  BY <1>3 DEF Drafts
<1>5. Parts(l) \in Nat \ {0}
  <2>1. sends[l].files # <<>> => Len(sends[l].files) \in Nat \ {0}
    BY <1>4
  <2> QED
    BY <2>1 DEF Parts
<1>6. Chat(l) \in Seq(Messages)
  BY <1>1, <1>4 DEF Chat
<1> QED
  BY <1>3, <1>4, <1>5, <1>6

LEMMA CommandTypes == TypesInv => \A l \in Sent : commands[l] # None =>
    /\ commands[l] \in Commands /\ Caption(l) \in Captions
    /\ commands[l].text \in Captions /\ commands[l].from \in Nat /\ commands[l].at \in Nat
    /\ commands[l].phase \in {"upload", "send", "sent", "failed"}
  BY PartsCount DEF TypesInv, Caption, Captions, Commands

LEMMA AbortTypes ==
    ASSUME TypesInv, NEW l \in Sent, commands[l] # None, Abort(l)
    PROVE  commands' \in [Locals -> Commands \cup {None}]
<1>1. [text |-> Caption(l), from |-> commands[l].at, at |-> commands[l].at, phase |-> "failed"]
          \in Commands
  BY CommandTypes DEF Commands, Captions
<1> QED
  BY <1>1 DEF Abort, TypesInv

LEMMA StartTypes ==
    ASSUME TypesInv, NEW l \in Locals, NEW text \in Captions, NEW from \in Nat,
           commands' = [commands EXCEPT ![l] = Command(l, text, from)]
    PROVE  commands' \in [Locals -> Commands \cup {None}]
<1>1. Command(l, text, from) \in Commands
  BY DEF Command, Commands, Captions
<1> QED
  BY <1>1 DEF TypesInv

LEMMA ComposeTypes == TypesInv /\ Compose => TypesInv'
<1> SUFFICES ASSUME TypesInv, Compose PROVE TypesInv'
  OBVIOUS
<1>1. CASE Insert
  BY <1>1 DEF Insert, TypesInv, draftVars, sendVars, Sent
<1>2. CASE Escape
  BY <1>2 DEF Escape, TypesInv, sendVars, Sent, Captions
<1>3. CASE Type
  BY <1>3 DEF Type, TypesInv, screenVars, sendVars, Sent, Captions
<1>4. ASSUME NEW f, f = File(pastes'), pastes' = pastes + 1
      PROVE  f \in Files /\ pastes' \in Nat
  BY <1>4 DEF File, Files, TypesInv
<1>5. CASE PasteFile
  <2>1. composeAtts' \in Seq(Files)
    BY <1>4, <1>5 DEF PasteFile, TypesInv
  <2> QED
    BY <1>4, <1>5, <2>1 DEF PasteFile, TypesInv, screenVars, sendVars, Sent
<1>6. CASE PasteClipboard
  <2>1. pasting' \subseteq Files
    BY <1>4, <1>6 DEF PasteClipboard, TypesInv
  <2> QED
    BY <1>4, <1>6, <2>1 DEF PasteClipboard, TypesInv, screenVars, sendVars, Sent
<1>7. CASE Backspace
  <2>1. composeAtts' \in Seq(Files)
    <3>1. composeAtts # <<>> => SubSeq(composeAtts, 1, Len(composeAtts) - 1) \in Seq(Files)
      <4>1. \A p \in 1..Len(composeAtts) : composeAtts[p] \in Files
        BY DEF TypesInv
      <4>2. Len(composeAtts) - 1 <= Len(composeAtts) /\ Len(composeAtts) \in Nat
        BY DEF TypesInv
      <4>3. \A p \in 1..Len(composeAtts) - 1 : composeAtts[p] \in Files
        BY <4>1, <4>2
      <4> QED
        BY <4>2, <4>3, SubSeqProperties DEF TypesInv
    <3> QED
      BY <1>7, <3>1 DEF Backspace, TypesInv
  <2>2. input' \in Captions
    BY <1>7 DEF Backspace, TypesInv, Captions
  <2> QED
    BY <1>7, <2>1, <2>2 DEF Backspace, TypesInv, screenVars, sendVars, Sent
<1>8. CASE SendInput
  <2>1. [chat |-> current, text |-> input, files |-> composeAtts] \in Drafts
    BY <1>8 DEF SendInput, TypesInv, Drafts
  <2>2. /\ sends' \in Seq(Drafts) /\ Len(sends') = Len(sends) + 1 /\ Len(sends) \in Nat
        /\ Len(sends') <= MaxSends
    BY <1>8, <2>1, Bounds DEF SendInput, TypesInv
  <2>3. commands' \in [Locals -> Commands \cup {None}]
    <3>1. Len(sends') \in Locals
      BY <2>2, Bounds DEF Locals
    <3>2. commands' = [commands EXCEPT ![Len(sends')] = Command(Len(sends'), input, 1)]
      BY <1>8 DEF SendInput
    <3> QED
      BY <3>1, <3>2, StartTypes DEF TypesInv
  <2>4. placeholders' \subseteq Sent'
    <3>1. placeholders' = placeholders \cup {Len(sends')}
      BY <1>8 DEF SendInput
    <3>2. placeholders \subseteq 1..Len(sends)
      BY DEF TypesInv, Sent
    <3>3. 1..Len(sends') = 1..Len(sends) \cup {Len(sends')}
      BY <2>2
    <3> QED
      BY <3>1, <3>2, <3>3 DEF Sent
  <2> QED
    BY <1>8, <2>2, <2>3, <2>4 DEF SendInput, TypesInv, Captions
<1>9. CASE \E f \in pasting : ClipboardArrives(f)
  <2>1. composeAtts' \in Seq(Files) /\ pasting' \subseteq Files
    <3>1. PICK f \in pasting : ClipboardArrives(f)
      BY <1>9
    <3>2. f \in Files /\ Append(composeAtts, f) \in Seq(Files)
      BY DEF TypesInv
    <3> QED
      BY <3>1, <3>2 DEF ClipboardArrives, TypesInv
  <2> QED
    BY <1>9, <2>1 DEF ClipboardArrives, TypesInv, screenVars, sendVars, Sent
<1> QED
  BY <1>1, <1>2, <1>3, <1>5, <1>6, <1>7, <1>8, <1>9 DEF Compose

LEMMA SendTypes == TypesInv => \A l \in Sent : Send(l) => TypesInv'
<1> SUFFICES ASSUME TypesInv, NEW l \in Sent, Send(l) PROVE TypesInv'
  OBVIOUS
<1>0. l \in Locals
  BY PartsCount
<1>1. CASE Upload(l)
  <2>1. commands[l] # None
    BY <1>1 DEF Upload, Running
  <2>2. commands' \in [Locals -> Commands \cup {None}]
    <3>1. CASE Abort(l)
      BY <2>1, <3>1, AbortTypes
    <3>2. CASE commands' = [commands EXCEPT ![l].phase = "send"]
      <4>1. [commands[l] EXCEPT !.phase = "send"] \in Commands
        BY <2>1, CommandTypes DEF Commands
      <4> QED
        BY <3>2, <4>1 DEF TypesInv
    <3> QED
      BY <1>1, <3>1, <3>2 DEF Upload
  <2> QED
    BY <1>1, <2>2 DEF Upload, TypesInv, draftVars, screenVars, Sent
<1>2. CASE Dispatch(l)
  <2>1. commands[l] # None
    BY <1>2 DEF Dispatch, Running
  <2>2. commands' \in [Locals -> Commands \cup {None}]
    <3>1. [commands[l] EXCEPT !.phase = "sent"] \in Commands
      BY <2>1, CommandTypes DEF Commands
    <3> QED
      BY <1>2, <3>1 DEF Dispatch, TypesInv
  <2>3. log' \in [Chats -> Seq(Messages)]
    <3>1. [draft |-> l, part |-> commands[l].at, text |-> Caption(l), err |-> FALSE] \in Messages
      BY <2>1, CommandTypes, PartsCount DEF Messages
    <3>2. Append(log[sends[l].chat], [draft |-> l, part |-> commands[l].at, text |-> Caption(l),
                                      err |-> FALSE]) \in Seq(Messages)
      BY <3>1, PartsCount DEF Chat
    <3> QED
      BY <1>2, <3>2 DEF Dispatch, TypesInv
  <2> QED
    BY <1>2, <2>2, <2>3 DEF Dispatch, TypesInv, draftVars, screenVars, Sent
<1>3. CASE Refused(l)
  BY <1>3, AbortTypes DEF Refused, Running, TypesInv, draftVars, screenVars, Sent
<1>4. CASE Accepted(l)
  <2>1. commands[l] # None
    BY <1>4 DEF Accepted, Running
  <2>2. [commands[l] EXCEPT !.at = @ + 1, !.phase = "upload"] \in Commands
    <3>1. commands[l] \in Commands /\ commands[l].at + 1 \in Nat
      BY <2>1, CommandTypes
    <3> QED
      BY <3>1 DEF Commands
  <2>3. commands' \in [Locals -> Commands \cup {None}]
    BY <1>4, <2>2 DEF Accepted, TypesInv
  <2> QED
    BY <1>4, <2>3 DEF Accepted, TypesInv, draftVars, screenVars, Sent
<1>5. CASE ReportedFailed(l)
  <2> DEFINE c == sends[l].chat
             mine == {p \in DOMAIN log[c] : log[c][p].draft = l}
             z == CHOOSE q \in mine : \A r \in mine : r <= q
  <2>1. log' = [log EXCEPT ![c] = [log[c] EXCEPT ![z] = [log[c][z] EXCEPT !.err = TRUE]]]
    BY <1>5 DEF ReportedFailed
  <2> HIDE DEF c, z
  <2>2. ASSUME NEW s \in Seq(Messages)
        PROVE  [s EXCEPT ![z] = [s[z] EXCEPT !.err = TRUE]] \in Seq(Messages)
    <3>1. s \in [1..Len(s) -> Messages] /\ Len(s) \in Nat
      OBVIOUS
    <3>2. z \in 1..Len(s) => [s[z] EXCEPT !.err = TRUE] \in Messages
      BY <3>1 DEF Messages
    <3>3. [s EXCEPT ![z] = [s[z] EXCEPT !.err = TRUE]] \in [1..Len(s) -> Messages]
      BY <3>1, <3>2
    <3> QED
      BY <3>1, <3>3, SeqDef
  <2>3. log' \in [Chats -> Seq(Messages)]
    BY <2>1, <2>2, PartsCount DEF TypesInv, Chat, c
  <2>4. commands' \in [Locals -> Commands \cup {None}]
    BY <1>5, AbortTypes DEF ReportedFailed, Running
  <2> QED
    BY <1>5, <2>3, <2>4 DEF ReportedFailed, TypesInv, draftVars, screenVars, Sent
<1>6. CASE SendResult(l)
  <2>1. commands[l] # None
    BY <1>6 DEF SendResult, Running
  <2>2. [text |-> commands[l].text, from |-> commands[l].from] \in Remainders
    BY <2>1, CommandTypes DEF Remainders, Captions
  <2>3. failedSends' \in [Locals -> Remainders \cup {None}]
    BY <1>6, <2>2 DEF SendResult, TypesInv
  <2>4. commands' \in [Locals -> Commands \cup {None}]
    BY <1>6 DEF SendResult, TypesInv
  <2> QED
    BY <1>6, <2>3, <2>4 DEF SendResult, TypesInv, draftVars, Sent
<1>7. CASE RetryFailedSend(l)
  <2>1. failedSends[l] \in Remainders
    BY <1>0, <1>7 DEF RetryFailedSend, TypesInv
  <2>2. commands' \in [Locals -> Commands \cup {None}]
    <3>1. /\ failedSends[l].text \in Captions /\ failedSends[l].from \in Nat
      BY <2>1 DEF Remainders, Captions
    <3> QED
      BY <1>0, <1>7, <3>1, StartTypes DEF RetryFailedSend
  <2>3. failedSends' \in [Locals -> Remainders \cup {None}]
    BY <1>7 DEF RetryFailedSend, TypesInv
  <2> QED
    BY <1>7, <2>2, <2>3 DEF RetryFailedSend, TypesInv, draftVars, Sent
<1> QED
  BY <1>1, <1>2, <1>3, <1>4, <1>5, <1>6, <1>7 DEF Send
(* What the server holds comes back, or a chat is opened, left or deleted. *)
Elsewhere ==
    \/ Back
    \/ \E c \in Chats : Open(c) \/ MessagesLoaded(c) \/ ChatDeleted(c)
Echo ==
    \/ current # None /\ \E k \in 0..Len(log[current]) : MessagesRefreshed(k)
    \/ current # None /\ \E p \in DOMAIN log[current] : LiveMessage(log[current][p])

LEMMA ElsewhereTypes == TypesInv /\ Elsewhere => TypesInv'
<1> SUFFICES ASSUME TypesInv, Elsewhere PROVE TypesInv'
  OBVIOUS
<1>1. CASE Back
  BY <1>1 DEF Back, TypesInv, draftVars, sendVars, Sent
<1>2. ASSUME NEW c \in Chats, Open(c) PROVE TypesInv'
  BY <1>2 DEF Open, TypesInv, draftVars, sendVars, Sent
<1>3. ASSUME NEW c \in Chats, MessagesLoaded(c) PROVE TypesInv'
  BY <1>3 DEF MessagesLoaded, TypesInv, draftVars, sendVars, Sent
<1>4. ASSUME NEW c \in Chats, ChatDeleted(c) PROVE TypesInv'
  BY <1>4 DEF ChatDeleted, TypesInv, sendVars, Sent, Captions
<1> QED
  BY <1>1, <1>2, <1>3, <1>4 DEF Elsewhere

LEMMA DropTypes ==
    ASSUME TypesInv, NEW ls, Drop(ls)
    PROVE  /\ placeholders' \subseteq placeholders
           /\ failedSends' \in [Locals -> Remainders \cup {None}]
           /\ \A l \in Locals : failedSends'[l] = IF l \in ls THEN None ELSE failedSends[l]
BY DEF Drop, TypesInv

LEMMA EchoTypes == TypesInv /\ Echo => TypesInv'
<1> SUFFICES ASSUME TypesInv, Echo PROVE TypesInv'
  OBVIOUS
<1>1. PICK ls : Drop(ls)
  BY DEF Echo, MessagesRefreshed, LiveMessage
<1>2. UNCHANGED <<mode, current, draftVars, sendVars>>
  BY DEF Echo, MessagesRefreshed, LiveMessage
<1> QED
  BY <1>1, <1>2, DropTypes DEF TypesInv, draftVars, sendVars, Sent

LEMMA TypesInit == Init => TypesInv
  BY Bounds DEF Init, TypesInv, Captions, Sent, Locals

LEMMA TypesStep == TypesInv /\ [Next]_vars => TypesInv'
<1> SUFFICES ASSUME TypesInv, [Next]_vars PROVE TypesInv'
  OBVIOUS
<1>1. CASE UNCHANGED vars
  BY <1>1 DEF vars, draftVars, screenVars, sendVars, TypesInv, Sent
<1> QED
  BY <1>1, ComposeTypes, SendTypes, ElsewhereTypes, EchoTypes DEF Next, Elsewhere, Echo

-----------------------------------------------------------------------------
(* What is kept. *)

\* KeptUntilSent, said with Arrived
Kept == \A l \in Sent : OwnText(l) /\ commands[l] = None /\ failedSends[l] = None
                            => Arrived(Chat(l), l, 1)

LEMMA KeptIsKept == Kept <=> KeptUntilSent
  BY DEF Kept, KeptUntilSent, Arrived, Chat

(* One draft moves on, and so does its chat perhaps. *)
LEMMA OneMoves ==
    ASSUME TypesInv, Account, sends' = sends, NEW l \in Sent,
           commands' = [commands EXCEPT ![l] = commands'[l]],
           failedSends' = [failedSends EXCEPT ![l] = failedSends'[l]],
           NEW t, log' = [log EXCEPT ![sends[l].chat] = t],
           \A k \in Sent \ {l} : \A a : /\ Due(Chat(l), k, a) => Due(t, k, a)
                                        /\ Reached(Chat(l), k, a) => Reached(t, k, a),
           commands'[l] # None =>
               /\ failedSends'[l] = None
               /\ OnItsWay(commands'[l], t, l, sends[l].text, Parts(l)),
           failedSends'[l] # None =>
               Rest(failedSends'[l], sends[l].text, Parts(l)) /\ Due(t, l, failedSends'[l].from),
           \A q \in DOMAIN t : /\ t[q].draft \in Sent /\ sends[t[q].draft].chat = sends[l].chat
                               /\ InTurn(t, q, sends[t[q].draft].text, Parts(t[q].draft))
    PROVE  Account'
<1> DEFINE c == sends[l].chat
<1>1. Sent' = Sent /\ Sent \subseteq Locals /\ \A k \in Sent : Parts(k)' = Parts(k)
  BY PartsCount DEF Sent, Parts
<1>2. log'[c] = t /\ \A d \in Chats : d # c => log'[d] = log[d]
  BY PartsCount DEF TypesInv
<1>3. \A k \in Sent \ {l} : commands'[k] = commands[k] /\ failedSends'[k] = failedSends[k]
  BY <1>1 DEF TypesInv
<1>4. \A k \in Locals \ Sent : commands'[k] = commands[k] /\ failedSends'[k] = failedSends[k]
  BY DEF TypesInv
<1>5. ASSUME NEW k \in Sent
      PROVE  Chat(k)' = IF sends[k].chat = c THEN t ELSE Chat(k)
  BY <1>2, PartsCount DEF Chat
<1>6. \A k \in Sent : sends[k].chat = c => Chat(k) = Chat(l)
  BY DEF Chat
<1> HIDE DEF c
<1>7. \A k \in Sent \ {l} : \A a : /\ Due(Chat(k), k, a) => Due(Chat(k)', k, a)
                                   /\ Reached(Chat(k), k, a) => Reached(Chat(k)', k, a)
  BY <1>5, <1>6
<1>8. Chat(l)' = t
  BY <1>5 DEF c
<1>9. CommandsInv'
  <2> SUFFICES ASSUME NEW k \in Sent, commands'[k] # None
               PROVE  /\ failedSends'[k] = None
                      /\ OnItsWay(commands'[k], Chat(k)', k, sends[k].text, Parts(k))
    BY <1>1 DEF CommandsInv
  <2>1. CASE k = l
    BY <1>8, <2>1
  <2>2. CASE k # l
    <3>1. /\ commands'[k] = commands[k] /\ failedSends'[k] = None
          /\ OnItsWay(commands[k], Chat(k), k, sends[k].text, Parts(k))
      BY <1>3, <2>2 DEF Account, CommandsInv
    <3>2. /\ Due(Chat(k), k, commands[k].at) => Due(Chat(k)', k, commands[k].at)
          /\ Reached(Chat(k), k, commands[k].at) => Reached(Chat(k)', k, commands[k].at)
      BY <1>7, <2>2
    <3> QED
      BY <3>1, <3>2 DEF OnItsWay
  <2> QED
    BY <2>1, <2>2
<1>10. FailedInv'
  <2> SUFFICES ASSUME NEW k \in Sent, failedSends'[k] # None
               PROVE  /\ Rest(failedSends'[k], sends[k].text, Parts(k))
                      /\ Due(Chat(k)', k, failedSends'[k].from)
    BY <1>1 DEF FailedInv
  <2>1. CASE k = l
    BY <1>8, <2>1
  <2>2. CASE k # l
    <3>1. /\ failedSends'[k] = failedSends[k]
          /\ Rest(failedSends[k], sends[k].text, Parts(k))
          /\ Due(Chat(k), k, failedSends[k].from)
      BY <1>3, <2>2 DEF Account, FailedInv
    <3>2. Due(Chat(k), k, failedSends[k].from) => Due(Chat(k)', k, failedSends[k].from)
      BY <1>7, <2>2
    <3> QED
      BY <3>1, <3>2
  <2> QED
    BY <2>1, <2>2
<1>11. LogInv'
  <2> SUFFICES ASSUME NEW d \in Chats, NEW q \in DOMAIN log'[d]
               PROVE  /\ log'[d][q].draft \in Sent
                      /\ sends[log'[d][q].draft].chat = d
                      /\ InTurn(log'[d], q, sends[log'[d][q].draft].text,
                                Parts(log'[d][q].draft))
    BY <1>1 DEF LogInv
  <2>1. CASE d = c
    BY <1>2, <2>1 DEF c
  <2>2. CASE d # c
    BY <1>2, <2>2 DEF Account, LogInv
  <2> QED
    BY <2>1, <2>2
<1>12. UnsentInv'
  BY <1>1, <1>4 DEF Account, UnsentInv
<1> QED
  BY <1>9, <1>10, <1>11, <1>12 DEF Account

(* What is kept stays so. *)
LEMMA KeptStays ==
    ASSUME Kept, sends' = sends,
           \A l \in Sent : Arrived(Chat(l), l, 1) => Arrived(Chat(l)', l, 1),
           \A l \in Sent : OwnText(l) /\ commands'[l] = None /\ failedSends'[l] = None
               => (commands[l] = None /\ failedSends[l] = None) \/ Arrived(Chat(l)', l, 1)
    PROVE  Kept'
BY DEF Kept, OwnText, Sent, Parts

LEMMA AccountStays ==
    ASSUME Account, Kept, UNCHANGED <<sends, commands, failedSends, log>>
    PROVE  Account' /\ Kept'
<1>1. CommandsInv'
  BY DEF Account, CommandsInv, Sent, Parts, Chat
<1>2. FailedInv'
  BY DEF Account, FailedInv, Sent, Parts, Chat
<1>3. LogInv'
  BY DEF Account, LogInv, Sent, Parts
<1>4. UnsentInv' /\ Kept'
  BY DEF Account, UnsentInv, Sent, Kept, OwnText, Parts, Chat
<1> QED
  BY <1>1, <1>2, <1>3, <1>4 DEF Account
(* The command of one draft moves, and the server does not. *)
LEMMA CommandMoves ==
    ASSUME TypesInv, Account, Kept, NEW l \in Sent, sends' = sends, log' = log,
           NEW k, commands' = [commands EXCEPT ![l] = k],
           NEW f, failedSends' = [failedSends EXCEPT ![l] = f],
           k # None => f = None /\ OnItsWay(k, Chat(l), l, sends[l].text, Parts(l)),
           f # None => Rest(f, sends[l].text, Parts(l)) /\ Due(Chat(l), l, f.from),
           k = None /\ f = None => Arrived(Chat(l), l, 1)
    PROVE  Account' /\ Kept'
<1>1. l \in Locals /\ sends[l].chat \in Chats
  BY PartsCount
<1>2. commands'[l] = k /\ failedSends'[l] = f
  BY <1>1 DEF TypesInv
<1>3. log' = [log EXCEPT ![sends[l].chat] = Chat(l)]
  BY DEF TypesInv, Chat
<1>4. \A q \in DOMAIN Chat(l) :
          /\ Chat(l)[q].draft \in Sent /\ sends[Chat(l)[q].draft].chat = sends[l].chat
          /\ InTurn(Chat(l), q, sends[Chat(l)[q].draft].text, Parts(Chat(l)[q].draft))
  BY <1>1 DEF Account, LogInv, Chat
<1>5. Account'
  <2>1. commands' = [commands EXCEPT ![l] = commands'[l]]
    BY <1>2
  <2>2. failedSends' = [failedSends EXCEPT ![l] = failedSends'[l]]
    BY <1>2
  <2>3. \A m \in Sent \ {l} : \A a : /\ Due(Chat(l), m, a) => Due(Chat(l), m, a)
                                     /\ Reached(Chat(l), m, a) => Reached(Chat(l), m, a)
    OBVIOUS
  <2>4. commands'[l] # None =>
            /\ failedSends'[l] = None
            /\ OnItsWay(commands'[l], Chat(l), l, sends[l].text, Parts(l))
    BY <1>2
  <2>5. failedSends'[l] # None =>
            /\ Rest(failedSends'[l], sends[l].text, Parts(l))
            /\ Due(Chat(l), l, failedSends'[l].from)
    BY <1>2
  <2> QED
    BY <1>3, <1>4, <2>1, <2>2, <2>3, <2>4, <2>5, OneMoves
<1>6. \A m \in Sent : Chat(m)' = Chat(m)
  BY DEF Chat
<1>7. \A m \in Sent \ {l} : commands'[m] = commands[m] /\ failedSends'[m] = failedSends[m]
  BY PartsCount DEF TypesInv
<1>8. Kept'
  BY <1>2, <1>6, <1>7, KeptStays
<1> QED
  BY <1>5, <1>8

(* The caption goes with the first part of the draft, wherever the command
   started. *)
LEMMA CaptionIsOwn ==
    ASSUME TypesInv, Account, NEW l \in Sent, commands[l] # None
    PROVE  /\ OnItsWay(commands[l], Chat(l), l, sends[l].text, Parts(l))
           /\ failedSends[l] = None
           /\ commands[l].from \in 1..Parts(l) /\ commands[l].at \in 1..Parts(l)
           /\ Caption(l) = IF commands[l].at = 1 THEN sends[l].text ELSE NoText
<1>1. /\ OnItsWay(commands[l], Chat(l), l, sends[l].text, Parts(l))
      /\ failedSends[l] = None
  BY DEF Account, CommandsInv
<1>2. Parts(l) \in Nat
  BY PartsCount
<1>3. commands[l].from \in 1..Parts(l) /\ commands[l].at \in commands[l].from..Parts(l)
  BY <1>1 DEF OnItsWay, Rest
<1>4. commands[l].text = IF commands[l].from = 1 THEN sends[l].text ELSE NoText
  BY <1>1 DEF OnItsWay, Rest
<1>5. commands[l].at # commands[l].from => commands[l].at # 1
  BY <1>2, <1>3
<1> QED
  BY <1>1, <1>2, <1>3, <1>4, <1>5 DEF Caption

(* What is left after a failure starts with the part that failed. *)
LEMMA AbortKeeps ==
    ASSUME TypesInv, Account, NEW l \in Sent, commands[l] # None,
           NEW t, Due(t, l, commands[l].at),
           NEW k, k = [text |-> Caption(l), from |-> commands[l].at,
                       at |-> commands[l].at, phase |-> "failed"]
    PROVE  OnItsWay(k, t, l, sends[l].text, Parts(l))
<1>1. /\ commands[l].at \in 1..Parts(l) /\ Parts(l) \in Nat
      /\ Caption(l) = IF commands[l].at = 1 THEN sends[l].text ELSE NoText
  BY CaptionIsOwn, PartsCount
<1> QED
  BY <1>1 DEF OnItsWay, Rest

LEMMA UploadKeeps ==
    ASSUME TypesInv, Account, Kept, NEW l \in Sent, Upload(l) \/ Refused(l)
    PROVE  Account' /\ Kept'
<1>1. /\ commands[l] # None /\ commands[l].phase \in {"upload", "send"}
      /\ UNCHANGED <<sends, log, failedSends>>
  BY DEF Upload, Refused, Running, screenVars
<1>2. /\ failedSends[l] = None /\ Due(Chat(l), l, commands[l].at)
      /\ OnItsWay(commands[l], Chat(l), l, sends[l].text, Parts(l))
  BY <1>1, CaptionIsOwn DEF OnItsWay
<1>3. failedSends' = [failedSends EXCEPT ![l] = None]
  BY <1>1, <1>2 DEF TypesInv
<1>4. CASE Abort(l)
  <2> DEFINE k == [text |-> Caption(l), from |-> commands[l].at, at |-> commands[l].at,
                   phase |-> "failed"]
  <2>1. commands' = [commands EXCEPT ![l] = k]
    BY <1>4 DEF Abort
  <2>2. OnItsWay(k, Chat(l), l, sends[l].text, Parts(l))
    BY <1>1, <1>2, AbortKeeps
  <2>3. k \in Commands
    BY <1>1, CommandTypes DEF Commands, Captions
  <2>4. k # None
    BY <2>3, Bounds
  <2> HIDE DEF k
  <2> QED
    BY <1>1, <1>3, <2>1, <2>2, <2>4, CommandMoves
<1>5. CASE commands' = [commands EXCEPT ![l].phase = "send"]
  <2> DEFINE k == [commands[l] EXCEPT !.phase = "send"]
  <2>1. commands' = [commands EXCEPT ![l] = k]
    BY <1>5
  <2>2. commands[l] \in Commands
    BY <1>1, CommandTypes
  <2>3. /\ k \in Commands /\ k.text = commands[l].text /\ k.from = commands[l].from
        /\ k.at = commands[l].at /\ k.phase = "send"
    BY <2>2 DEF Commands
  <2>4. k # None
    BY <2>3, Bounds
  <2> HIDE DEF k
  <2>5. OnItsWay(k, Chat(l), l, sends[l].text, Parts(l))
    BY <1>2, <2>3 DEF OnItsWay, Rest
  <2> QED
    BY <1>1, <1>3, <2>1, <2>4, <2>5, CommandMoves
<1> QED
  BY <1>4, <1>5 DEF Upload, Refused

LEMMA AcceptedKeeps ==
    ASSUME TypesInv, Account, Kept, NEW l \in Sent, Accepted(l)
    PROVE  Account' /\ Kept'
<1>1. /\ commands[l] # None /\ commands[l].phase = "sent"
      /\ UNCHANGED <<sends, log, failedSends>>
  BY DEF Accepted, Running, screenVars
<1>2. /\ failedSends[l] = None /\ Reached(Chat(l), l, commands[l].at)
      /\ OnItsWay(commands[l], Chat(l), l, sends[l].text, Parts(l))
  BY <1>1, CaptionIsOwn DEF OnItsWay
<1>3. failedSends' = [failedSends EXCEPT ![l] = None]
  BY <1>1, <1>2 DEF TypesInv
<1>4. Arrived(Chat(l), l, 1)
  BY <1>2 DEF Reached
<1>5. CASE commands[l].at = Parts(l)
  <2>1. commands' = [commands EXCEPT ![l] = None]
    BY <1>5 DEF Accepted
  <2> QED
    BY <1>1, <1>3, <1>4, <2>1, CommandMoves
<1>6. CASE commands[l].at # Parts(l)
  <2> DEFINE a == commands[l].at
             k == [commands[l] EXCEPT !.at = @ + 1, !.phase = "upload"]
  <2>1. commands' = [commands EXCEPT ![l] = k]
    BY <1>6 DEF Accepted
  <2>2. commands[l] \in Commands /\ a \in 1..Parts(l) /\ Parts(l) \in Nat
        /\ commands[l].from \in 1..Parts(l) /\ a \in commands[l].from..Parts(l)
    BY <1>1, <1>2, CommandTypes, CaptionIsOwn, PartsCount DEF OnItsWay
  <2>3. /\ k \in Commands /\ k.text = commands[l].text /\ k.from = commands[l].from
        /\ k.at = a + 1 /\ k.phase = "upload"
    <3>1. a + 1 \in Nat
      BY <2>2
    <3> QED
      BY <2>2, <3>1 DEF Commands
  <2>4. k # None
    BY <2>3, Bounds
  <2>5. a + 1 \in k.from..Parts(l) /\ a + 1 - 1 = a
    BY <1>6, <2>2, <2>3
  <2>6. Due(Chat(l), l, a + 1)
    <3>1. Chat(l) \in Seq(Messages) /\ a \in Nat \ {0}
      BY <2>2, PartsCount
    <3> QED
      BY <1>2, <3>1, ReachedIsDue
  <2>7. OnItsWay(k, Chat(l), l, sends[l].text, Parts(l))
    <3> HIDE DEF k
    <3> QED
      BY <1>2, <2>3, <2>5, <2>6 DEF OnItsWay, Rest
  <2> HIDE DEF k, a
  <2> QED
    BY <1>1, <1>3, <2>1, <2>4, <2>7, CommandMoves
<1> QED
  BY <1>5, <1>6

LEMMA ResultKeeps ==
    ASSUME TypesInv, Account, Kept, NEW l \in Sent, SendResult(l)
    PROVE  Account' /\ Kept'
<1> DEFINE f == [text |-> commands[l].text, from |-> commands[l].from]
<1>1. /\ commands[l] # None /\ commands[l].phase = "failed"
      /\ UNCHANGED <<sends, log>>
      /\ commands' = [commands EXCEPT ![l] = None]
      /\ failedSends' = [failedSends EXCEPT ![l] = f]
  BY DEF SendResult, Running
<1>2. OnItsWay(commands[l], Chat(l), l, sends[l].text, Parts(l))
  BY <1>1, CaptionIsOwn
<1>3. f \in Remainders /\ f.text = commands[l].text /\ f.from = commands[l].from
  BY <1>1, CommandTypes DEF Remainders, Captions
<1>4. f # None
  BY <1>3, Bounds
<1> HIDE DEF f
<1>5. Rest(f, sends[l].text, Parts(l)) /\ Due(Chat(l), l, f.from)
  BY <1>1, <1>2, <1>3 DEF OnItsWay, Rest
<1> QED
  BY <1>1, <1>4, <1>5, CommandMoves

LEMMA RetryKeeps ==
    ASSUME TypesInv, Account, Kept, NEW l \in Sent, RetryFailedSend(l)
    PROVE  Account' /\ Kept'
<1> DEFINE f == failedSends[l]
           k == Command(l, f.text, f.from)
<1>1. /\ f # None /\ UNCHANGED <<sends, log>>
      /\ commands' = [commands EXCEPT ![l] = k]
      /\ failedSends' = [failedSends EXCEPT ![l] = None]
  BY DEF RetryFailedSend
<1>2. Rest(f, sends[l].text, Parts(l)) /\ Due(Chat(l), l, f.from)
  BY <1>1 DEF Account, FailedInv
<1>3. f \in Remainders
  BY <1>1, PartsCount DEF TypesInv
<1>4. /\ k \in Commands /\ k.text = f.text /\ k.from = f.from /\ k.at = f.from
      /\ k.phase \in {"send", "upload"}
  BY <1>3 DEF Command, Commands, Remainders
<1>5. k # None
  BY <1>4, Bounds
<1>6. f.from \in f.from..Parts(l)
  BY <1>2, PartsCount DEF Rest
<1> HIDE DEF f, k
<1>7. OnItsWay(k, Chat(l), l, sends[l].text, Parts(l))
  BY <1>2, <1>4, <1>6 DEF OnItsWay, Rest
<1> QED
  BY <1>1, <1>5, <1>7, CommandMoves
LEMMA DispatchKeeps ==
    ASSUME TypesInv, Account, Kept, NEW l \in Sent, Dispatch(l)
    PROVE  Account' /\ Kept'
<1> DEFINE s == Chat(l)
           m == [draft |-> l, part |-> commands[l].at, text |-> Caption(l), err |-> FALSE]
           t == Append(s, m)
           k == [commands[l] EXCEPT !.phase = "sent"]
<1>1. /\ commands[l] # None /\ commands[l].phase = "send"
      /\ UNCHANGED <<sends, failedSends>>
      /\ commands' = [commands EXCEPT ![l] = k]
      /\ log' = [log EXCEPT ![sends[l].chat] = t]
  BY DEF Dispatch, Running, screenVars, Chat
<1>2. /\ failedSends[l] = None /\ Due(s, l, commands[l].at)
      /\ OnItsWay(commands[l], s, l, sends[l].text, Parts(l))
  BY <1>1, CaptionIsOwn DEF OnItsWay
<1>3. /\ s \in Seq(Messages) /\ l \in Locals /\ l \in Nat /\ sends[l].chat \in Chats
      /\ Parts(l) \in Nat /\ commands[l] \in Commands
  BY <1>1, PartsCount, CommandTypes
<1>4. /\ k \in Commands /\ k.text = commands[l].text /\ k.from = commands[l].from
      /\ k.at = commands[l].at /\ k.phase = "sent"
  BY <1>3 DEF Commands
<1>5. k # None
  BY <1>4, Bounds
<1>6. /\ m.draft = l /\ m.part = commands[l].at /\ m.part \in 1..Parts(l) /\ m \in Messages
      /\ m.text = IF m.part = 1 THEN sends[l].text ELSE NoText
  <2>1. /\ commands[l].at \in 1..Parts(l)
        /\ Caption(l) = IF commands[l].at = 1 THEN sends[l].text ELSE NoText
    BY <1>1, CaptionIsOwn
  <2>2. Caption(l) \in Captions /\ commands[l].at \in Nat
    BY <1>1, CommandTypes
  <2> QED
    BY <1>3, <2>1, <2>2 DEF Messages
<1>7. \A q \in DOMAIN s :
          /\ s[q].draft \in Sent /\ sends[s[q].draft].chat = sends[l].chat
          /\ InTurn(s, q, sends[s[q].draft].text, Parts(s[q].draft))
  BY <1>3 DEF Account, LogInv, Chat
<1>h. t = Append(s, m)
  OBVIOUS
<1> HIDE DEF s, m, t, k
<1>8. Reached(t, l, commands[l].at) /\ InTurn(t, Len(s) + 1, sends[l].text, Parts(l))
  BY <1>2, <1>3, <1>6, <1>h, Arrival
<1>9. /\ \A j, n : Arrived(s, j, n) => Arrived(t, j, n)
      /\ \A j, a : j # l /\ Due(s, j, a) => Due(t, j, a)
      /\ \A j, a : j # l /\ Reached(s, j, a) => Reached(t, j, a)
      /\ \A q \in DOMAIN s : \A text, n : InTurn(s, q, text, n) => InTurn(t, q, text, n)
  BY <1>3, <1>6, <1>h, ArrivalElsewhere
<1>10. /\ Len(s) \in Nat /\ DOMAIN s = 1..Len(s) /\ DOMAIN t = 1..Len(s) + 1
       /\ \A p \in 1..Len(s) : t[p] = s[p]
       /\ t[Len(s) + 1] = m
  BY <1>3, <1>6, <1>h, Appended
<1>11. \A q \in DOMAIN t : /\ t[q].draft \in Sent /\ sends[t[q].draft].chat = sends[l].chat
                           /\ InTurn(t, q, sends[t[q].draft].text, Parts(t[q].draft))
  <2> SUFFICES ASSUME NEW q \in DOMAIN t
               PROVE  /\ t[q].draft \in Sent /\ sends[t[q].draft].chat = sends[l].chat
                      /\ InTurn(t, q, sends[t[q].draft].text, Parts(t[q].draft))
    OBVIOUS
  <2>1. q \in DOMAIN s \/ q = Len(s) + 1
    BY <1>10
  <2>2. CASE q \in DOMAIN s
    BY <1>7, <1>9, <1>10, <2>2
  <2>3. CASE q = Len(s) + 1
    BY <1>6, <1>8, <1>10, <2>3
  <2> QED
    BY <2>1, <2>2, <2>3
<1>12. OnItsWay(k, t, l, sends[l].text, Parts(l))
  BY <1>2, <1>4, <1>8 DEF OnItsWay, Rest
<1>13. commands'[l] = k /\ failedSends'[l] = None
  BY <1>1, <1>2, <1>3 DEF TypesInv
<1>14. Account'
  <2>1. commands' = [commands EXCEPT ![l] = commands'[l]]
    BY <1>1, <1>13
  <2>2. failedSends' = [failedSends EXCEPT ![l] = failedSends'[l]]
    BY <1>1 DEF TypesInv
  <2>3. \A j \in Sent \ {l} : \A a : /\ Due(Chat(l), j, a) => Due(t, j, a)
                                     /\ Reached(Chat(l), j, a) => Reached(t, j, a)
    BY <1>9 DEF s
  <2>4. commands'[l] # None =>
            /\ failedSends'[l] = None
            /\ OnItsWay(commands'[l], t, l, sends[l].text, Parts(l))
    BY <1>12, <1>13
  <2>5. failedSends'[l] # None =>
            Rest(failedSends'[l], sends[l].text, Parts(l)) /\ Due(t, l, failedSends'[l].from)
    BY <1>13
  <2>6. sends' = sends
    BY <1>1
  <2>7. log' = [log EXCEPT ![sends[l].chat] = t]
    BY <1>1
  <2> QED
    BY <1>11, <2>1, <2>2, <2>3, <2>4, <2>5, <2>6, <2>7, OneMoves
<1>15. Kept'
  <2>1. \A j \in Sent : Arrived(Chat(j), j, 1) => Arrived(Chat(j)', j, 1)
    <3> SUFFICES ASSUME NEW j \in Sent, Arrived(Chat(j), j, 1) PROVE Arrived(Chat(j)', j, 1)
      OBVIOUS
    <3>1. CASE sends[j].chat = sends[l].chat
      <4>1. Chat(j) = s /\ Chat(j)' = t
        BY <1>1, <1>3, <3>1 DEF Chat, TypesInv, s
      <4> QED
        BY <1>9, <4>1
    <3>2. CASE sends[j].chat # sends[l].chat
      BY <1>1, <3>2, PartsCount DEF Chat, TypesInv
    <3> QED
      BY <3>1, <3>2
  <2>2. \A j \in Sent : commands'[j] = None /\ failedSends'[j] = None =>
            commands[j] = None /\ failedSends[j] = None
    BY <1>1, <1>5, <1>13, PartsCount DEF TypesInv
  <2> QED
    BY <1>1, <2>1, <2>2, KeptStays
<1> QED
  BY <1>14, <1>15

LEMMA ReportKeepsAccount ==
    ASSUME TypesInv, Account, Kept, NEW l \in Sent, ReportedFailed(l)
    PROVE  Account' /\ Kept'
<1> DEFINE s == Chat(l)
           a == commands[l].at
           mine == {p \in DOMAIN s : s[p].draft = l}
           z == CHOOSE q \in mine : \A r \in mine : r <= q
           t == [s EXCEPT ![z].err = TRUE]
           k == [text |-> Caption(l), from |-> a, at |-> a, phase |-> "failed"]
<1>1. /\ commands[l] # None /\ commands[l].phase = "sent"
      /\ UNCHANGED <<sends, failedSends>>
      /\ commands' = [commands EXCEPT ![l] = k]
      /\ log' = [log EXCEPT ![sends[l].chat] = t]
  BY DEF ReportedFailed, Abort, Running, screenVars, Chat
<1>2. /\ failedSends[l] = None /\ Reached(s, l, a)
      /\ OnItsWay(commands[l], s, l, sends[l].text, Parts(l))
  BY <1>1, CaptionIsOwn DEF OnItsWay
<1>3. /\ s \in Seq(Messages) /\ l \in Locals /\ sends[l].chat \in Chats
      /\ Parts(l) \in Nat /\ a \in 1..Parts(l)
  BY <1>1, PartsCount, CaptionIsOwn
<1>4. k # None
  <2>1. k \in Commands
    BY <1>1, CommandTypes DEF Commands, Captions
  <2> QED
    BY <2>1, Bounds
<1>5. \A q \in DOMAIN s :
          /\ s[q].draft \in Sent /\ sends[s[q].draft].chat = sends[l].chat
          /\ InTurn(s, q, sends[s[q].draft].text, Parts(s[q].draft))
  BY <1>3 DEF Account, LogInv, Chat
<1>6. FlagsSet(s, t, l, a)
  <2>1. \A q \in DOMAIN s : \E text, n : InTurn(s, q, text, n)
    BY <1>5
  <2>2. a \in Nat \ {0}
    BY <1>3
  <2>3. t = [s EXCEPT ![z].err = TRUE]
    OBVIOUS
  <2> HIDE DEF s, a, t, z
  <2>4. PICK p \in DOMAIN s : s[p].draft = l /\ \A q \in DOMAIN s : s[q].draft = l => q <= p
    BY <1>2 DEF Reached
  <2>5. p \in mine /\ \A r \in mine : r <= p
    BY <2>4
  <2>6. z \in mine /\ \A r \in mine : r <= z
    <3> HIDE DEF mine
    <3> QED
      BY <2>5 DEF z
  <2>7. z \in DOMAIN s /\ s[z].draft = l /\ \A r \in DOMAIN s : s[r].draft = l => r <= z
    BY <2>6
  <2>8. PICK text, n : InTurn(s, z, text, n)
    BY <2>1, <2>7
  <2> HIDE DEF mine, k
  <2> QED
    BY <1>2, <1>3, <2>2, <2>3, <2>7, <2>8, Reported
<1>h. k = [text |-> Caption(l), from |-> commands[l].at, at |-> commands[l].at, phase |-> "failed"]
  OBVIOUS
<1> HIDE DEF s, a, t, z, mine, k
<1>7. /\ \A j, n : Arrived(s, j, n) => Arrived(t, j, n)
      /\ \A j, n : Due(s, j, n) => Due(t, j, n)
      /\ \A j, n : Reached(s, j, n) => Reached(t, j, n)
      /\ \A q \in DOMAIN s : \A text, n : InTurn(s, q, text, n) => InTurn(t, q, text, n)
  <2>1. \A q \in DOMAIN s : \A p \in 1..q - 1 : p \in DOMAIN s
    BY <1>3
  <2> QED
    BY <1>6, <2>1, ReportKeeps DEF FlagsSet
<1>8. Due(t, l, a)
  <2>1. Arrived(t, l, 1)
    BY <1>2, <1>7 DEF Reached
  <2>2. a # 1 => Arrived(t, l, a - 1)
    BY <1>6 DEF Arrived, FlagsSet
  <2>3. \A q \in DOMAIN t : t[q].draft = l => t[q].part <= a /\ (t[q].part = a => t[q].err)
    BY <1>2, <1>6 DEF Reached, FlagsSet
  <2> QED
    BY <2>1, <2>2, <2>3 DEF Due
<1>9. OnItsWay(k, t, l, sends[l].text, Parts(l))
  BY <1>1, <1>8, <1>h, AbortKeeps DEF a
<1>10. \A q \in DOMAIN t : /\ t[q].draft \in Sent /\ sends[t[q].draft].chat = sends[l].chat
                           /\ InTurn(t, q, sends[t[q].draft].text, Parts(t[q].draft))
  BY <1>5, <1>6, <1>7 DEF FlagsSet
<1>11. commands'[l] = k /\ failedSends'[l] = None
  BY <1>1, <1>2, <1>3 DEF TypesInv
<1>12. Account'
  <2>1. commands' = [commands EXCEPT ![l] = commands'[l]]
    BY <1>1, <1>11
  <2>2. failedSends' = [failedSends EXCEPT ![l] = failedSends'[l]]
    BY <1>1 DEF TypesInv
  <2>3. \A j \in Sent \ {l} : \A n : /\ Due(Chat(l), j, n) => Due(t, j, n)
                                     /\ Reached(Chat(l), j, n) => Reached(t, j, n)
    BY <1>7 DEF s
  <2>4. commands'[l] # None =>
            /\ failedSends'[l] = None
            /\ OnItsWay(commands'[l], t, l, sends[l].text, Parts(l))
    BY <1>9, <1>11
  <2>5. failedSends'[l] # None =>
            Rest(failedSends'[l], sends[l].text, Parts(l)) /\ Due(t, l, failedSends'[l].from)
    BY <1>11
  <2>6. sends' = sends
    BY <1>1
  <2>7. log' = [log EXCEPT ![sends[l].chat] = t]
    BY <1>1
  <2> QED
    BY <1>10, <2>1, <2>2, <2>3, <2>4, <2>5, <2>6, <2>7, OneMoves
<1>13. Kept'
  <2>1. \A j \in Sent : Arrived(Chat(j), j, 1) => Arrived(Chat(j)', j, 1)
    <3> SUFFICES ASSUME NEW j \in Sent, Arrived(Chat(j), j, 1) PROVE Arrived(Chat(j)', j, 1)
      OBVIOUS
    <3>1. CASE sends[j].chat = sends[l].chat
      <4>1. Chat(j) = s /\ Chat(j)' = t
        BY <1>1, <1>3, <3>1 DEF Chat, TypesInv, s
      <4> QED
        BY <1>7, <4>1
    <3>2. CASE sends[j].chat # sends[l].chat
      BY <1>1, <3>2, PartsCount DEF Chat, TypesInv
    <3> QED
      BY <3>1, <3>2
  <2>2. \A j \in Sent : commands'[j] = None /\ failedSends'[j] = None =>
            commands[j] = None /\ failedSends[j] = None
    BY <1>1, <1>4, <1>11, PartsCount DEF TypesInv
  <2> QED
    BY <1>1, <2>1, <2>2, KeptStays
<1> QED
  BY <1>12, <1>13
LEMMA SendKeeps ==
    ASSUME TypesInv, Account, Kept, NEW l \in Sent, Send(l)
    PROVE  Account' /\ Kept'
BY UploadKeeps, DispatchKeeps, AcceptedKeeps, ReportKeepsAccount, ResultKeeps, RetryKeeps DEF Send

(* A draft starts with its first part, and nothing of it is anywhere yet. *)
LEMMA SendInputKeeps ==
    ASSUME TypesInv, TypesInv', Account, Kept, SendInput
    PROVE  Account' /\ Kept'
<1>0. PICK n : n = Len(sends) + 1
  OBVIOUS
<1> DEFINE d == [chat |-> current, text |-> input, files |-> composeAtts]
           k == Command(n, input, 1)
<1>1. /\ sends' = Append(sends, d) /\ sends \in Seq(Drafts) /\ d \in Drafts
      /\ UNCHANGED <<failedSends, log>>
      /\ Len(sends) \in Nat /\ Len(sends) < MaxSends /\ MaxSends \in Nat
  BY Bounds DEF SendInput, TypesInv, Drafts
<1>2. /\ Len(sends') = n /\ sends'[n] = d /\ Sent' = 1..n /\ Sent = 1..Len(sends)
      /\ \A l \in Sent : l # n /\ sends'[l] = sends[l]
  BY <1>0, <1>1 DEF Sent
<1>3. Sent' = Sent \cup {n} /\ n \in Locals \ Sent
  BY <1>0, <1>1, <1>2 DEF Locals
<1>4. commands' = [commands EXCEPT ![n] = k]
  BY <1>2 DEF SendInput
<1>5. /\ k \in Commands /\ k.text = input /\ k.from = 1 /\ k.at = 1
      /\ k.phase \in {"send", "upload"}
  BY DEF Command, Commands, TypesInv, Captions
<1>6. k # None
  BY <1>5, Bounds
<1> HIDE DEF d, k
<1>7. commands'[n] = k /\ \A l \in Sent : commands'[l] = commands[l]
  BY <1>3, <1>4, PartsCount DEF TypesInv
<1>8. \A l \in Sent : /\ Parts(l)' = Parts(l) /\ Chat(l)' = Chat(l)
                      /\ sends'[l].text = sends[l].text
  BY <1>1, <1>2 DEF Parts, Chat
<1>9. failedSends'[n] = None
  BY <1>1, <1>3 DEF Account, UnsentInv
<1>10. /\ Parts(n)' \in Nat \ {0} /\ Chat(n)' = log[current] /\ current \in Chats
       /\ sends'[n].text = input
  <2>1. Parts(n)' \in Nat \ {0}
    <3>1. Parts(n)' = IF d.files = <<>> THEN 1 ELSE Len(d.files)
      BY <1>2 DEF Parts
    <3>2. d.files \in Seq(Files)
      BY <1>1 DEF Drafts
    <3>3. d.files # <<>> => Len(d.files) \in Nat \ {0}
      BY <3>2
    <3> QED
      BY <3>1, <3>3
  <2>2. current \in Chats /\ d.chat = current /\ d.text = input
    BY DEF SendInput, TypesInv, d
  <2> QED
    BY <1>1, <1>2, <2>1, <2>2 DEF Chat
<1>11. Due(log[current], n, 1)
  BY <1>3, <1>10 DEF Due, Account, LogInv
<1>12. OnItsWay(k, log[current], n, input, Parts(n)')
  BY <1>5, <1>10, <1>11 DEF OnItsWay, Rest
<1>13. CommandsInv'
  <2> SUFFICES ASSUME NEW l \in Sent', commands'[l] # None
               PROVE  /\ failedSends'[l] = None
                      /\ OnItsWay(commands'[l], Chat(l)', l, sends'[l].text, Parts(l)')
    BY DEF CommandsInv
  <2>1. CASE l = n
    <3>1. /\ commands'[n] = k /\ Chat(n)' = log[current] /\ sends'[n].text = input
          /\ failedSends'[n] = None
      BY <1>7, <1>9, <1>10
    <3> QED
      BY <1>12, <2>1, <3>1
  <2>2. CASE l \in Sent
    BY <1>1, <1>7, <1>8, <2>2 DEF Account, CommandsInv
  <2> QED
    BY <1>3, <2>1, <2>2
<1>14. FailedInv'
  <2> SUFFICES ASSUME NEW l \in Sent', failedSends'[l] # None
               PROVE  /\ Rest(failedSends'[l], sends'[l].text, Parts(l)')
                      /\ Due(Chat(l)', l, failedSends'[l].from)
    BY DEF FailedInv
  <2>1. l \in Sent
    BY <1>3, <1>9
  <2> QED
    BY <1>1, <1>8, <2>1 DEF Account, FailedInv
<1>15. LogInv'
  <2> SUFFICES ASSUME NEW c \in Chats, NEW q \in DOMAIN log[c]
               PROVE  /\ log[c][q].draft \in Sent'
                      /\ sends'[log[c][q].draft].chat = c
                      /\ InTurn(log[c], q, sends'[log[c][q].draft].text,
                                Parts(log[c][q].draft)')
    BY <1>1 DEF LogInv
  <2>0. PICK l : l = log[c][q].draft /\ l = log'[c][q].draft
    BY <1>1
  <2>1. l \in Sent /\ sends[l].chat = c /\ InTurn(log[c], q, sends[l].text, Parts(l))
    BY <2>0 DEF Account, LogInv
  <2>2. l \in Sent' /\ sends'[l].chat = c /\ InTurn(log[c], q, sends'[l].text, Parts(l)')
    BY <1>2, <1>3, <1>8, <2>1
  <2> QED
    BY <2>0, <2>2
<1>16. UnsentInv'
  <2> SUFFICES ASSUME NEW l \in Locals \ Sent' PROVE commands'[l] = None /\ failedSends'[l] = None
    BY DEF UnsentInv
  <2>1. l # n /\ l \in Locals \ Sent
    BY <1>3
  <2> QED
    BY <1>1, <1>4, <2>1 DEF Account, UnsentInv, TypesInv
<1>17. Kept'
  <2> SUFFICES ASSUME NEW l \in Sent', OwnText(l)', commands'[l] = None, failedSends'[l] = None
               PROVE  Arrived(Chat(l)', l, 1)
    BY DEF Kept
  <2>1. l \in Sent
    BY <1>3, <1>6, <1>7
  <2>2. OwnText(l)
    BY <1>3, <1>8, <2>1 DEF OwnText
  <2> QED
    BY <1>1, <1>7, <1>8, <2>1, <2>2 DEF Kept
<1> QED
  BY <1>13, <1>14, <1>15, <1>16, <1>17 DEF Account

LEMMA ComposeKeeps ==
    ASSUME TypesInv, TypesInv', Account, Kept, Compose
    PROVE  Account' /\ Kept'
<1>1. CASE SendInput
  BY <1>1, SendInputKeeps
<1>2. CASE ~SendInput
  <2>1. UNCHANGED <<sends, commands, failedSends, log>>
    BY <1>2 DEF Compose, Insert, Escape, Type, PasteFile, PasteClipboard, Backspace,
                ClipboardArrives, screenVars, sendVars
  <2> QED
    BY <2>1, AccountStays
<1> QED
  BY <1>1, <1>2

(* A message with the text of l that is in a chat of l's is its own, unless
   another draft can be taken for it. *)
LEMMA EchoIsOwn ==
    ASSUME TypesInv, Account, NEW l \in Sent, OwnText(l),
           NEW c \in Chats, NEW q \in DOMAIN log[c], log[c][q].text = sends[l].text
    PROVE  Arrived(Chat(l), l, 1)
<1> DEFINE o == log[c][q].draft
           m == log[c][q]
<1>1. o \in Sent /\ sends[o].chat = c /\ InTurn(log[c], q, sends[o].text, Parts(o))
  BY DEF Account, LogInv
<1>2. /\ m.part \in 1..Parts(o) /\ Arrived(log[c], o, 1)
      /\ m.text = IF m.part = 1 THEN sends[o].text ELSE NoText
  BY <1>1 DEF InTurn
<1>3. CASE o = l
  BY <1>1, <1>2, <1>3 DEF Chat
<1>4. CASE o # l
  <2>1. sends[o].text # sends[l].text /\ (sends[l].text = NoText => Parts(o) = 1)
    BY <1>1, <1>4 DEF OwnText
  <2>2. m.part # 1 /\ sends[l].text = NoText
    BY <1>2, <2>1
  <2>3. m.part \in 1..1
    BY <1>2, <2>1, <2>2
  <2> QED
    BY <2>2, <2>3
<1> QED
  BY <1>3, <1>4

LEMMA EchoKeeps ==
    ASSUME TypesInv, Account, Kept, Echo
    PROVE  Account' /\ Kept'
<1>1. UNCHANGED <<sends, commands, log>> /\ current \in Chats
  BY DEF Echo, MessagesRefreshed, LiveMessage, sendVars, TypesInv
<1>2. PICK ls : /\ Drop(ls) /\ ls \subseteq Sent
                /\ \A l \in ls : \E q \in DOMAIN log[current] :
                       log[current][q].text = sends[l].text
  <2>0. log[current] \in Seq(Messages)
    BY <1>1 DEF TypesInv
  <2>1. ASSUME NEW k \in 0..Len(log[current]), MessagesRefreshed(k)
        PROVE  \E ls : /\ Drop(ls) /\ ls \subseteq Sent
                       /\ \A l \in ls : \E q \in DOMAIN log[current] :
                              log[current][q].text = sends[l].text
    <3> DEFINE msgs == {log[current][p] : p \in 1..k}
               ls == {l \in placeholders : HasEcho(msgs, l)}
    <3>1. Drop(ls)
      BY <2>1 DEF MessagesRefreshed
    <3>2. 1..k \subseteq DOMAIN log[current]
      BY <2>0
    <3>3. \A l \in ls : \E q \in DOMAIN log[current] : log[current][q].text = sends[l].text
      BY <3>2 DEF HasEcho
    <3>4. ls \subseteq Sent
      BY DEF TypesInv
    <3> HIDE DEF ls
    <3> QED
      BY <3>1, <3>3, <3>4
  <2>2. ASSUME NEW p \in DOMAIN log[current], LiveMessage(log[current][p])
        PROVE  \E ls : /\ Drop(ls) /\ ls \subseteq Sent
                       /\ \A l \in ls : \E q \in DOMAIN log[current] :
                              log[current][q].text = sends[l].text
    <3> DEFINE ls == Claimed(log[current][p])
    <3>1. Drop(ls)
      BY <2>2 DEF LiveMessage
    <3>2. \A l \in ls : l \in Sent /\ log[current][p].text = sends[l].text
      BY DEF Claimed, TypesInv
    <3> HIDE DEF ls
    <3> QED
      BY <3>1, <3>2
  <2> QED
    BY <2>1, <2>2 DEF Echo
<1>3. \A l \in Sent : failedSends'[l] = IF l \in ls THEN None ELSE failedSends[l]
  BY <1>2, DropTypes, PartsCount
<1>4. \A l \in Sent : Parts(l)' = Parts(l) /\ Chat(l)' = Chat(l)
  BY <1>1 DEF Parts, Chat
<1>5. Sent' = Sent
  BY <1>1 DEF Sent
<1>6. CommandsInv'
  BY <1>1, <1>3, <1>4, <1>5 DEF Account, CommandsInv
<1>7. FailedInv'
  BY <1>1, <1>3, <1>4, <1>5 DEF Account, FailedInv
<1>8. LogInv'
  BY <1>1, <1>4, <1>5 DEF Account, LogInv
<1>9. UnsentInv'
  BY <1>1, <1>2, <1>5, DropTypes DEF Account, UnsentInv
<1>10. Kept'
  <2>1. \A l \in Sent : OwnText(l) /\ commands'[l] = None /\ failedSends'[l] = None
               => (commands[l] = None /\ failedSends[l] = None) \/ Arrived(Chat(l)', l, 1)
    <3> SUFFICES ASSUME NEW l \in Sent, OwnText(l), l \in ls PROVE Arrived(Chat(l)', l, 1)
      BY <1>1, <1>3
    <3>1. PICK q \in DOMAIN log[current] : log[current][q].text = sends[l].text
      BY <1>2
    <3> QED
      BY <1>1, <1>4, <3>1, EchoIsOwn
  <2> QED
    BY <1>1, <1>4, <2>1, KeptStays
<1> QED
  BY <1>6, <1>7, <1>8, <1>9, <1>10 DEF Account

-----------------------------------------------------------------------------
(* The theorems. *)

Inv == TypesInv /\ Account /\ Kept

LEMMA InvInit == Init => Inv
<1> SUFFICES ASSUME Init PROVE Inv
  OBVIOUS
<1>1. Sent = {}
  BY DEF Init, Sent
<1> QED
  BY <1>1, TypesInit DEF Init, Inv, Account, CommandsInv, FailedInv, LogInv, UnsentInv, Kept

LEMMA InvStep == Inv /\ [Next]_vars => Inv'
<1> SUFFICES ASSUME Inv, [Next]_vars PROVE Inv'
  OBVIOUS
<1>1. TypesInv'
  BY TypesStep DEF Inv
<1>2. CASE Compose
  BY <1>1, <1>2, ComposeKeeps DEF Inv
<1>3. CASE \E l \in Sent : Send(l)
  BY <1>1, <1>3, SendKeeps DEF Inv
<1>4. CASE Elsewhere
  <2>1. UNCHANGED <<sends, commands, failedSends, log>>
    BY <1>4 DEF Elsewhere, Back, Open, MessagesLoaded, ChatDeleted, sendVars
  <2> QED
    BY <1>1, <2>1, AccountStays DEF Inv
<1>5. CASE Echo
  BY <1>1, <1>5, EchoKeeps DEF Inv
<1>6. CASE UNCHANGED vars
  BY <1>1, <1>6, AccountStays DEF Inv, vars, screenVars, sendVars
<1> QED
  BY <1>2, <1>3, <1>4, <1>5, <1>6 DEF Next, Elsewhere, Echo

(* Whatever fails and however often it is retried, the parts of a draft reach
   the chat in order and without a gap, the caption with the first, and a
   part twice only after a reported failure (media.go:255-256). *)
THEOREM PartsInOrder == Spec => []ArrivesInOrder
<1>1. Inv => ArrivesInOrder
  BY DEF Inv, Account, LogInv, InTurn, ArrivesInOrder
<1> QED
  BY <1>1, InvInit, InvStep, PTL DEF Spec

(* A draft whose text no other message has is on its way, or what is left of
   it is kept for a retry, until its first part is in the chat
   (update.go:111-124, poll.go:72-119, wsevents.go:170-182). *)
THEOREM DraftsKept == Spec => []KeptUntilSent
<1>1. Inv => KeptUntilSent
  BY KeptIsKept DEF Inv
<1> QED
  BY <1>1, InvInit, InvStep, PTL DEF Spec
=============================================================================
