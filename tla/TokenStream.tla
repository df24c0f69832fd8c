----------------------------- MODULE TokenStream -----------------------------
(***************************************************************************)
(* How a reply of the language model reaches the screen while it streams   *)
(* (llm/client.go Stream, redact.go HoldBack and Rehydrate).  The model    *)
(* speaks of people by session tokens, CONTACT_12; the reader sees names.  *)
(* A token may be cut anywhere by the chunks of the stream, so each chunk  *)
(* is joined to what was held back of the last ones, and a tail that may   *)
(* still become a token is held back again.                                *)
(*                                                                         *)
(* Here the text itself is the subject, so it is a sequence of characters, *)
(* folded to upper case as both functions fold it.  Reasoning and tool     *)
(* calls of the reply, which never pass through HoldBack, are left out.    *)
(* The vault may learn more people in the middle of a reply.               *)
(***************************************************************************)
EXTENDS Vault

CONSTANTS
    Replies,    \* what the model may say
    MaxChunk,   \* bound: characters of one delta
    MaxLearns   \* bound: updates of the vault

Word == <<"C", "O", "N", "T", "A", "C", "T">>
Separators == {" ", "_", "-"}
Digits == {"0", "1", "2", "3", "4", "5", "6", "7", "8", "9"}
HoldLimit == 14

ASSUME RepliesAssumption == Replies \subseteq Seq(STRING)
(* Mint draws below 100000. *)
ASSUME NumbersAssumption == Numbers \subseteq {n \in Seq(Digits) : Len(n) \in 1..5}
ASSUME ChunkAssumption == MaxChunk \in Nat \ {0} /\ MaxLearns \in Nat

VARIABLES
    reply,      \* the whole reply: Stream's out.Content at its end
    received,   \* how much of it has arrived
    hold,       \* Stream's hold
    emitted,    \* the text given to Rehydrate so far
    shown,      \* what OnDelta got, place by place
    learnt,     \* updates of the vault
    awkward,    \* a chunk ended right behind the last letter but one of Word
    status

stream == <<reply, received, hold, emitted, shown, awkward, status>>
streamVars == <<stream, vault, known, learnt>>

From(s, i) == SubSeq(s, i, Len(s))
UpTo(s, i) == SubSeq(s, 1, i)

-----------------------------------------------------------------------------
(* redact.go. *)

(* Fault: only the letters of the word are taken for a prefix. *)
LettersArePrefix(s) == Len(s) <= Len(Word) /\ \A i \in 1..Len(s) : s[i] = Word[i]

(* Fault: a token is thought complete at its first digit. *)
OneDigitIsPrefix(s) ==
    /\ \A i \in 1..Len(s) : i <= Len(Word) => s[i] = Word[i]
    /\ Len(s) > Len(Word) =>
           s[Len(Word) + 1] \in Separators /\ Len(s) = Len(Word) + 1

(* Could s grow into a token? *)
TokenPrefix(s) ==
    /\ \A i \in 1..Len(s) : i <= Len(Word) => s[i] = Word[i]
    /\ Len(s) > Len(Word) =>
           /\ s[Len(Word) + 1] \in Separators
           /\ \A i \in (Len(Word) + 2)..Len(s) : s[i] \in Digits

(* The lengths of the tails of the text that could. *)
Tails(text) ==
    {n \in 1..HoldLimit :
        n <= Len(text) /\ TokenPrefix(From(text, Len(text) - n + 1))}

(* The scan goes from the end of the text towards its start and stops at
   the first tail that fits, which is the shortest. *)
HeldLength(text) ==
    IF Tails(text) = {} THEN 0
    ELSE CHOOSE n \in Tails(text) : \A k \in Tails(text) : n <= k

HoldBack(text) ==
    LET cut == Len(text) - HeldLength(text)
    IN  [emit |-> UpTo(text, cut), hold |-> From(text, cut + 1)]

WordChar(c) == c \in {"C", "O", "N", "T", "A", "X", "_"} \cup Digits

(* The word at i, a separator, and behind it digits up to j, all there are. *)
Stands(text, i, j) ==
    LET first == i + Len(Word) + 1 IN
      /\ first <= j
      /\ \A k \in 1..Len(Word) : text[i + k - 1] = Word[k]
      /\ text[first - 1] \in Separators
      /\ \A k \in first..j : text[k] \in Digits
      /\ j < Len(text) => text[j + 1] \notin Digits

(* The regular expression \bCONTACT[ _-](\d+)\b from i to j. *)
TokenAt(text, i, j) ==
    /\ Stands(text, i, j)
    /\ i > 1 => ~WordChar(text[i - 1])
    /\ j < Len(text) => ~WordChar(text[j + 1])

Number(text, i, j) == SubSeq(text, i + Len(Word) + 1, j)

(* Names for the tokens the vault issued, anything else as it is: what is
   shown for each place of the text. *)
Rehydrated(names, text) ==
    LET tokens == {t \in (DOMAIN text) \X (DOMAIN text) :
                      /\ TokenAt(text, t[1], t[2])
                      /\ Number(text, t[1], t[2]) \in DOMAIN names}
    IN  [k \in 1..Len(text) |->
            IF \E t \in tokens : k \in t[1]..t[2]
            THEN LET t == CHOOSE t \in tokens : k \in t[1]..t[2]
                 IN  IF k = t[1] THEN names[Number(text, t[1], t[2])] ELSE <<>>
            ELSE <<text[k]>>]

Rehydrate(text) == Rehydrated(vault.byToken, text)

-----------------------------------------------------------------------------
(* llm/client.go. *)

StreamTypeOK ==
    /\ reply \in Replies
    /\ received \in 0..Len(reply)
    /\ hold \in Seq(STRING) /\ Len(hold) <= HoldLimit
    /\ emitted \in Seq(STRING)
    /\ awkward \in BOOLEAN
    /\ status \in {"streaming", "done", "failed"}

StreamInit ==
    /\ NewVault
    /\ reply \in Replies
    /\ received = 0
    /\ hold = <<>> /\ emitted = <<>> /\ shown = <<>>
    /\ awkward = FALSE
    /\ status = "streaming"
    /\ learnt = 0

EndsAwkwardly(text) ==
    Len(text) >= 6 /\ From(text, Len(text) - 5) = UpTo(Word, 6)

(* Fault: the new chunk alone is looked at, what was held is replaced. *)
EmitForgetsHold(s) ==
    LET split == HoldBack(s) IN
      /\ hold' = split.hold
      /\ emitted' = emitted \o split.emit
      /\ shown' = shown \o Rehydrate(split.emit)

(* emitDelta. *)
EmitDelta(s) ==
    LET split == HoldBack(hold \o s) IN
      /\ hold' = split.hold
      /\ emitted' = emitted \o split.emit
      /\ shown' = shown \o Rehydrate(split.emit)

Delta(n) ==
    /\ status = "streaming"
    /\ received + n <= Len(reply)
    /\ received' = received + n
    /\ EmitDelta(SubSeq(reply, received + 1, received + n))
    /\ awkward' = (awkward \/ EndsAwkwardly(UpTo(reply, received + n)))
    /\ UNCHANGED <<reply, status, vault, known, learnt>>

(* [DONE], or the end of the body: what is held comes out as it is. *)
Finish ==
    /\ status = "streaming"
    /\ received = Len(reply)
    /\ status' = "done"
    /\ hold' = <<>>
    /\ emitted' = emitted \o hold
    /\ shown' = shown \o Rehydrate(hold)
    /\ UNCHANGED <<reply, received, awkward, vault, known, learnt>>

(* An error chunk, a broken body or a cancelled context: Stream returns the
   error and what is held is never shown. *)
Fail ==
    /\ status = "streaming"
    /\ status' = "failed"
    /\ UNCHANGED <<reply, received, hold, emitted, shown, awkward, vault, known, learnt>>

(* Numbers of tokens that the reply mentions. *)
Mentioned ==
    {n \in Numbers : \E i, j \in DOMAIN reply : SubSeq(reply, i, j) = n}

(* The contacts have come, with people the vault may not know: the numbers
   drawn are among 100000, and none that the reply has made up. *)
Learn(people) ==
    /\ learnt < MaxLearns /\ learnt' = learnt + 1
    /\ \E fresh \in Draws(vault, people) :
          /\ \A i \in DOMAIN people : fresh[i] \notin Mentioned
          /\ Update(people, fresh)
    /\ UNCHANGED stream

StreamNext ==
    \/ \E n \in 1..MaxChunk : Delta(n)
    \/ Finish \/ Fail
    \/ \E people \in Indexes : Learn(people)

StreamSpec == StreamInit /\ [][StreamNext]_streamVars

-----------------------------------------------------------------------------
(* Properties. *)

(* However the reply is cut, the split neither drops nor repeats nor
   reorders a character: what was emitted and what is held make up what has
   arrived (redact.go:215-222, llm/client.go:278, 341-343). *)
NothingLost ==
    emitted \o (IF status = "done" THEN <<>> ELSE hold) = UpTo(reply, received)

(* From i to j the reply has a token that was issued. *)
Meant(i, j) ==
    Stands(reply, i, j) /\ Number(reply, i, j) \in DOMAIN vault.byToken

(* Nobody is named who is not meant: whatever is shown otherwise than it was
   said is a token of the finished reply, with all of its digits, shown as
   the name it stands for.  So CONTACT_12 does not show the name of CONTACT_1
   because its number was still growing, and an update in the middle of the
   reply renames nobody (redact.go:193-206, 224-246). *)
NoWrongName ==
    \A k \in DOMAIN shown : shown[k] # <<reply[k]>> =>
        \E i, j \in DOMAIN reply :
            /\ Meant(i, j) /\ i <= k /\ k <= j
            /\ shown[k] = IF k = i THEN vault.byToken[Number(reply, i, j)] ELSE <<>>

(* The stream shows what the finished reply will say, unless a chunk ended
   behind CONTAC, or a token is written in one word with something else, which
   a cut may set apart (llm/client.go:266-282). *)
ShowsFinalText ==
    /\ status = "done" /\ ~awkward
    /\ \A i, j \in DOMAIN reply : Meant(i, j) => TokenAt(reply, i, j)
    => shown = Rehydrate(reply)
=============================================================================
