----------------------------- MODULE PersonCards -----------------------------
(***************************************************************************)
(* The person cards of internal/person: one markdown file per person,      *)
(* filled by the sweep that main starts, by the assistant's tool           *)
(* update_person_card, and edited by hand at any moment.  The writers read *)
(* a card, ask a model for what the messages say, merge, and rewrite the   *)
(* whole file; two sidecars record when a person was swept and which       *)
(* values were extracted.                                                  *)
(*                                                                         *)
(* A value is Hand, typed by the user, or the person whose messages it was *)
(* extracted from.  A file is rewritten by truncating and writing it; in   *)
(* between, and for good when the program dies there, it reads as empty.   *)
(***************************************************************************)
EXTENDS Naturals, FiniteSets, Sequences

CONSTANTS
    People,     \* the people of the chats, by the name the identities give
    Slugs,      \* file name stems
    SlugOf,     \* Slug: the stem of each name
    Fields,     \* birthday, city, country
    Tools,      \* goroutines that may run update_person_card
    Sweeper,    \* the goroutine of the sweep
    Hand, None, \* a value typed by the user, no value
    Absent,     \* there is no such file
    Broken,     \* a file whose frontmatter does not parse
    Scraps,     \* a body left over from another text of the file
    Max,        \* main's limit on the people of one sweep
    MaxEdits,   \* bound: edits by hand
    MaxUses,    \* bound: calls of the tool
    MaxMishaps  \* bound: times the program ends or a write is refused

Writers == Tools \cup {Sweeper}
Values == People \cup {Hand}

ASSUME CardsAssumption ==
    /\ Sweeper \notin Tools
    /\ IsFiniteSet(People) /\ SlugOf \in [People -> Slugs]
    /\ Hand \notin People /\ None \notin Values
    /\ Fields \cap People = {}
    /\ {Max, MaxEdits, MaxUses, MaxMishaps} \subseteq Nat

Cards == [name : People, val : [Fields -> Values \cup {None}],
          likes : SUBSET Values, body : {None, Hand, Scraps}]

ASSUME FileAssumption == Absent \notin Cards /\ Broken \notin Cards
                         /\ Absent # Broken /\ Scraps \notin {None, Hand}

VARIABLES
    disk,    \* the card files: their last complete text, and whether it is torn
    prov,    \* .extracted.json, the quote behind each value, likewise
    marks,   \* .sweep.json, the people swept within the cooldown, likewise
    pc,      \* where each writer is
    who,     \* the person it works on
    card,    \* the card as it loaded it
    found,   \* what the model found
    copy,    \* its copy of .extracted.json
    queue,   \* the people the sweep has yet to look at
    done,    \* people it took messages of
    memory,  \* its copy of .sweep.json
    asked,   \* history: extractions of each person by sweeps
    lost,    \* history: sweeps that could not read or could not write .sweep.json
    edits, uses, mishaps

files == <<disk, prov, marks>>
work == <<pc, who, card, found, copy>>
sweep == <<queue, done, memory>>
history == <<asked, lost>>
budget == <<edits, uses, mishaps>>
vars == <<files, work, sweep, history, budget>>

EmptyCard(p) == [name |-> p, val |-> [f \in Fields |-> None], likes |-> {},
                 body |-> None]

Keys == Fields \cup People
NoQuotes == [s \in Slugs |-> [k \in Keys |-> None]]

Whole(x) == [full |-> x, torn |-> FALSE]

(***************************************************************************)
(* What one extraction claims about p: some of its fields, and whether it  *)
(* names something p likes.                                                *)
(***************************************************************************)
Founds(p) == [val : [Fields -> {p, None}], likes : {{}, {p}}]
NothingFound == [val |-> [f \in Fields |-> None], likes |-> {}]

CardFull(c) == /\ \A f \in Fields : c.val[f] # None
               /\ c.likes # {}

\* Fault: a value that was there gives way to the extracted one
MergeFoundWins(c, f) ==
    [c EXCEPT !.val = [x \in Fields |-> IF f.val[x] = None THEN c.val[x] ELSE f.val[x]],
              !.likes = @ \cup f.likes]

\* Merge: only empty fields are filled, and likes are joined
Merge(c, f) ==
    [c EXCEPT !.val = [x \in Fields |-> IF c.val[x] = None THEN f.val[x] ELSE c.val[x]],
              !.likes = @ \cup f.likes]

\* the keys Merge reports as changed
Changed(c, f) == {x \in Fields : c.val[x] = None /\ f.val[x] # None}
                 \cup (f.likes \ c.likes)

\* Load fails on a card that does not parse
Readable(p) == disk[SlugOf[p]].torn \/ disk[SlugOf[p]].full # Broken

\* a missing card is an empty card; an empty file parses as one
Load(p) == LET file == disk[SlugOf[p]]
           IN  IF file.torn \/ file.full = Absent THEN EmptyCard(p) ELSE file.full

\* Save writes the file that the card's own name stands for
FileOf(c) == SlugOf[c.name]

(***************************************************************************)
(* os.WriteFile.  Writing over a file that another writer has completed    *)
(* since may leave the end of the longer text behind: a body nobody wrote, *)
(* or a sidecar that does not parse.                                       *)
(***************************************************************************)
Rewritten(file, c) ==
    {Whole(c)} \cup (IF file.torn THEN {} ELSE {Whole([c EXCEPT !.body = Scraps])})
RewrittenSidecar(file, x) ==
    {Whole(x)} \cup (IF file.torn THEN {} ELSE {[full |-> x, torn |-> TRUE]})

Init ==
    /\ disk = [s \in Slugs |-> Whole(Absent)]
    /\ prov = Whole(NoQuotes)
    /\ marks = Whole({})
    /\ pc = [w \in Writers |-> IF w = Sweeper THEN "off" ELSE "idle"]
    /\ who \in {[w \in Writers |-> p] : p \in People}
    /\ card = [w \in Writers |-> EmptyCard(who[w])]
    /\ found = [w \in Writers |-> NothingFound]
    /\ copy = [w \in Writers |-> NoQuotes]
    /\ queue = <<>> /\ done = 0 /\ memory = {}
    /\ asked = [p \in People |-> 0] /\ lost = 0
    /\ edits = 0 /\ uses = 0 /\ mishaps = 0

Goto(w, l) == pc' = [pc EXCEPT ![w] = l]

\* a writer is through with a person; what it held goes out of scope
Dropped(W) ==
    /\ card' = [w \in Writers |-> IF w \in W THEN EmptyCard(who[w]) ELSE card[w]]
    /\ found' = [w \in Writers |-> IF w \in W THEN NothingFound ELSE found[w]]
    /\ copy' = [w \in Writers |-> IF w \in W THEN NoQuotes ELSE copy[w]]
    /\ UNCHANGED who

Finish(w) ==
    /\ Goto(w, IF w = Sweeper THEN "next" ELSE "idle")
    /\ Dropped({w})

-----------------------------------------------------------------------------
(***************************************************************************)
(* The sweep.  It takes the people of the chats by how recently they were  *)
(* active, which is any order, and nobody without a model or a chat list.  *)
(***************************************************************************)
Orders == {<<>>} \cup {q \in [1..Cardinality(People) -> People] :
                          \A i, j \in DOMAIN q : q[i] = q[j] => i = j}

StartSweep(q) ==
    /\ pc[Sweeper] = "off"
    /\ queue' = q
    /\ done' = 0
    /\ memory' = IF marks.torn THEN {} ELSE marks.full
    /\ lost' = IF marks.torn /\ q # <<>> THEN lost + 1 ELSE lost
    /\ Goto(Sweeper, "next")
    /\ UNCHANGED <<files, who, card, found, copy, asked, budget>>

\* Fault: the mark is not looked at
SkipFullOnly(p) == ~Readable(p) \/ CardFull(Load(p))

\* the loop's condition, and a card that is full, unreadable or swept lately
Skip(p) == \/ ~Readable(p)
           \/ CardFull(Load(p))
           \/ SlugOf[p] \in memory

\* Fault: the loop goes on with the person of an earlier round
SweepNextKeepsPerson ==
    /\ pc[Sweeper] = "next"
    /\ IF queue = <<>> \/ done >= Max
       THEN /\ Goto(Sweeper, "done")
            /\ queue' = <<>>
            /\ UNCHANGED card
       ELSE LET p == Head(queue) IN
            /\ queue' = Tail(queue)
            /\ IF Skip(p)
               THEN UNCHANGED <<pc, card>>
               ELSE /\ card' = [card EXCEPT ![Sweeper] = Load(p)]
                    /\ Goto(Sweeper, "fetch")
    /\ UNCHANGED <<files, who, found, copy, done, memory, history, budget>>

SweepNext ==
    /\ pc[Sweeper] = "next"
    /\ IF queue = <<>> \/ done >= Max
       THEN /\ Goto(Sweeper, "done")
            /\ queue' = <<>>
            /\ UNCHANGED <<who, card>>
       ELSE LET p == Head(queue) IN
            /\ queue' = Tail(queue)
            /\ IF Skip(p)
               THEN UNCHANGED <<pc, who, card>>
               ELSE /\ who' = [who EXCEPT ![Sweeper] = p]
                    /\ card' = [card EXCEPT ![Sweeper] = Load(p)]
                    /\ Goto(Sweeper, "fetch")
    /\ UNCHANGED <<files, found, copy, done, memory, history, budget>>

\* with a message to read the model is asked, without one the sweep goes on
AskOrGoOn ==
    \/ Goto(Sweeper, "extract") /\ UNCHANGED <<who, card, found, copy>>
    \/ Finish(Sweeper)

\* the messages have come, or none has: the person counts as swept
SweepMark ==
    /\ pc[Sweeper] = "fetch"
    /\ memory' = memory \cup {SlugOf[who[Sweeper]]}
    /\ marks' = [marks EXCEPT !.torn = TRUE]
    /\ Goto(Sweeper, "mark")
    /\ UNCHANGED <<disk, prov, who, card, found, copy, queue, done, history, budget>>

SweepMarkFails ==
    /\ pc[Sweeper] = "fetch"
    /\ mishaps < MaxMishaps
    /\ mishaps' = mishaps + 1
    /\ memory' = memory \cup {SlugOf[who[Sweeper]]}
    /\ done' = done + 1
    /\ lost' = lost + 1
    /\ AskOrGoOn
    /\ UNCHANGED <<files, queue, asked, edits, uses>>

SweepMarked ==
    /\ pc[Sweeper] = "mark"
    /\ marks' = Whole(memory)
    /\ done' = done + 1
    /\ AskOrGoOn
    /\ UNCHANGED <<disk, prov, queue, memory, history, budget>>

\* the model's answer is merged into the card read before it was asked
SweepExtract ==
    /\ pc[Sweeper] = "extract"
    /\ LET p == who[Sweeper] IN
       /\ asked' = [asked EXCEPT ![p] = @ + 1]
       /\ \E f \in Founds(p) :
             IF Changed(card[Sweeper], f) = {}
             THEN Finish(Sweeper)
             ELSE /\ found' = [found EXCEPT ![Sweeper] = f]
                  /\ Goto(Sweeper, "save")
                  /\ UNCHANGED <<who, card, copy>>
    /\ UNCHANGED <<files, sweep, lost, budget>>

SweepExtractFails ==
    /\ pc[Sweeper] = "extract"
    /\ asked' = [asked EXCEPT ![who[Sweeper]] = @ + 1]
    /\ Finish(Sweeper)
    /\ UNCHANGED <<files, sweep, lost, budget>>

-----------------------------------------------------------------------------
(***************************************************************************)
(* update_person_card asks the model first and loads the card afterwards.  *)
(* A call that resolves nobody, finds no chat or gets no answer ends with  *)
(* nothing changed.                                                        *)
(***************************************************************************)
ToolExtract(w, p) ==
    /\ pc[w] = "idle" /\ w \in Tools
    /\ uses < MaxUses
    /\ uses' = uses + 1
    /\ who' = [who EXCEPT ![w] = p]
    /\ \E f \in Founds(p) : found' = [found EXCEPT ![w] = f]
    /\ Goto(w, "load")
    /\ UNCHANGED <<files, card, copy, sweep, history, edits, mishaps>>

ToolLoad(w) ==
    /\ pc[w] = "load"
    /\ IF Readable(who[w]) /\ Changed(Load(who[w]), found[w]) # {}
       THEN /\ card' = [card EXCEPT ![w] = Load(who[w])]
            /\ Goto(w, "save")
            /\ UNCHANGED <<who, found, copy>>
       ELSE Finish(w)
    /\ UNCHANGED <<files, sweep, history, budget>>

-----------------------------------------------------------------------------
(***************************************************************************)
(* Save and RecordProvenance, as the sweep and the tool run them.          *)
(***************************************************************************)
SaveTruncates(w) ==
    /\ pc[w] = "save"
    /\ disk' = [disk EXCEPT ![FileOf(card[w])].torn = TRUE]
    /\ Goto(w, "write")
    /\ UNCHANGED <<prov, marks, who, card, found, copy, sweep, history, budget>>

SaveFails(w) ==
    /\ pc[w] = "save"
    /\ mishaps < MaxMishaps
    /\ mishaps' = mishaps + 1
    /\ Finish(w)
    /\ UNCHANGED <<files, sweep, history, edits, uses>>

SaveWrites(w) ==
    /\ pc[w] = "write"
    /\ LET c == Merge(card[w], found[w]) IN
       \E file \in Rewritten(disk[FileOf(c)], c) : disk' = [disk EXCEPT ![FileOf(c)] = file]
    /\ Goto(w, "record")
    /\ UNCHANGED <<prov, marks, who, card, found, copy, sweep, history, budget>>

\* a sidecar that does not parse counts as empty
RecordReads(w) ==
    /\ pc[w] = "record"
    /\ copy' = [copy EXCEPT ![w] = IF prov.torn THEN NoQuotes ELSE prov.full]
    /\ Goto(w, "replace")
    /\ UNCHANGED <<files, who, card, found, sweep, history, budget>>

RecordTruncates(w) ==
    /\ pc[w] = "replace"
    /\ prov' = [prov EXCEPT !.torn = TRUE]
    /\ Goto(w, "quote")
    /\ UNCHANGED <<disk, marks, who, card, found, copy, sweep, history, budget>>

RecordFails(w) ==
    /\ pc[w] = "replace"
    /\ mishaps < MaxMishaps
    /\ mishaps' = mishaps + 1
    /\ Finish(w)
    /\ UNCHANGED <<files, sweep, history, edits, uses>>

\* the quotes go under the name that was asked for, not the card's
Quoted(w) ==
    LET new == Changed(card[w], found[w]) IN
    [copy[w] EXCEPT ![SlugOf[who[w]]] = [k \in Keys |-> IF k \in new THEN who[w] ELSE @[k]]]

RecordWrites(w) ==
    /\ pc[w] = "quote"
    /\ \E file \in RewrittenSidecar(prov, Quoted(w)) : prov' = file
    /\ Finish(w)
    /\ UNCHANGED <<disk, marks, sweep, history, budget>>

-----------------------------------------------------------------------------
(***************************************************************************)
(* The user edits a card in an editor, whose save is one step: types a     *)
(* value, adds a like, writes a note, or breaks the frontmatter, but leaves *)
(* the name alone.  External.                                              *)
(***************************************************************************)
Edited(c) ==
    {[c EXCEPT !.val[f] = Hand] : f \in Fields}
    \cup {[c EXCEPT !.likes = @ \cup {Hand}], [c EXCEPT !.body = Hand], Broken}

HandEdit(p) ==
    /\ edits < MaxEdits
    /\ edits' = edits + 1
    /\ \E c \in IF Readable(p) THEN Edited(Load(p)) ELSE {EmptyCard(p)} :
          disk' = [disk EXCEPT ![SlugOf[p]] = Whole(c)]
    /\ UNCHANGED <<prov, marks, work, sweep, history, uses, mishaps>>

\* the program ends, by q or by a signal, wherever its goroutines are
Kill ==
    /\ mishaps < MaxMishaps
    /\ mishaps' = mishaps + 1
    /\ pc' = [w \in Writers |-> IF w = Sweeper THEN "off" ELSE "idle"]
    /\ Dropped(Writers)
    /\ queue' = <<>> /\ done' = 0 /\ memory' = {}
    /\ UNCHANGED <<files, history, edits, uses>>

SweepStep ==
    \/ \E q \in Orders : StartSweep(q)
    \/ SweepNext
    \/ SweepMark \/ SweepMarkFails \/ SweepMarked
    \/ SweepExtract \/ SweepExtractFails

ToolStep(w) ==
    \/ \E p \in People : ToolExtract(w, p)
    \/ ToolLoad(w)

SaveStep(w) ==
    \/ SaveTruncates(w) \/ SaveFails(w) \/ SaveWrites(w)
    \/ RecordReads(w) \/ RecordTruncates(w) \/ RecordFails(w) \/ RecordWrites(w)

Next ==
    \/ SweepStep
    \/ \E w \in Tools : ToolStep(w)
    \/ \E w \in Writers : SaveStep(w)
    \/ \E p \in People : HandEdit(p)
    \/ Kill

Spec == Init /\ [][Next]_vars

-----------------------------------------------------------------------------
Files(X) == [full : X, torn : BOOLEAN]
Labels == {"off", "next", "fetch", "mark", "extract", "done", "idle", "load", "save",
           "write", "record", "replace", "quote"}

(***************************************************************************)
(* Type invariant.                                                         *)
(***************************************************************************)
TypeOK ==
    /\ disk \in [Slugs -> Files(Cards \cup {Absent, Broken})]
    /\ prov \in Files([Slugs -> [Keys -> People \cup {None}]])
    /\ marks \in Files(SUBSET Slugs)
    /\ pc \in [Writers -> Labels]
    /\ who \in [Writers -> People]
    /\ card \in [Writers -> Cards]
    /\ found \in [Writers -> [val : [Fields -> People \cup {None}], likes : SUBSET People]]
    /\ copy \in [Writers -> [Slugs -> [Keys -> People \cup {None}]]]
    /\ queue \in Seq(People)
    /\ memory \subseteq Slugs
    /\ done \in Nat /\ asked \in [People -> Nat] /\ lost \in Nat
    /\ {edits, uses, mishaps} \subseteq Nat

\* the people a card's values come from
About(c) == {c.val[f] : f \in Fields} \cup c.likes

(***************************************************************************)
(* Every extracted value of a card file, and every quote recorded for it,  *)
(* is about somebody whose name leads to that file, whichever writers      *)
(* overlap, fail or die: nobody's city ends up in the card of another      *)
(* person (sweep.go:81-101, chattools.go:206-246).                         *)
(***************************************************************************)
FactsOfOnePerson ==
    \A s \in Slugs : \A p \in People :
        \/ disk[s].full \in Cards /\ p \in About(disk[s].full)
        \/ \E k \in Keys : prov.full[s][k] = p
        => SlugOf[p] = s

(***************************************************************************)
(* Between two sweeps within the cooldown a person's messages go to the    *)
(* model once, however often the program is restarted; once more for each  *)
(* time .sweep.json was cut off by the end of the program or could not be  *)
(* written (sweep.go:67-85).                                               *)
(***************************************************************************)
SweptOncePerCooldown == \A p \in People : asked[p] <= 1 + lost

\* what the user typed into a card: fields, likes, a note
Typed(c) == {f \in Fields : c.val[f] = Hand} \cup (c.likes \cap {Hand})
            \cup (IF c.body = Hand THEN {"note"} ELSE {})

(***************************************************************************)
(* The user's own edits aside, what the user typed into a card disappears  *)
(* only when a writer saves a card that it had loaded without it, or saves *)
(* over the completed text of another writer (card.go:76-87,               *)
(* extract.go:88-120).                                                     *)
(***************************************************************************)
OnlyStaleWritersOverwrite ==
    [][\A s \in Slugs :
          LET old == disk[s].full
              new == disk'[s].full
          IN  old \in Cards /\ new \in Cards /\ edits' = edits =>
              \A x \in Typed(old) \ Typed(new) :
                 \E w \in Writers :
                    /\ pc[w] = "write" /\ FileOf(card[w]) = s
                    /\ x \notin Typed(card[w]) \/ ~disk[s].torn]_vars
=============================================================================
