------------------------- MODULE PersonCardsProofs -------------------------
(***************************************************************************)
(* Theorems about PersonCards, for any people, files, fields, goroutines   *)
(* and bounds.                                                             *)
(***************************************************************************)
EXTENDS PersonCards, FiniteSetTheorems, TLAPS

FoundCards == [val : [Fields -> People \cup {None}], likes : SUBSET People]
Quotes == [Slugs -> [Keys -> People \cup {None}]]

(* The facts of a card are about people whose names lead to the file. *)
Leads(c, s) == /\ SlugOf[c.name] = s
               /\ \A p \in People : p \in About(c) => SlugOf[p] = s

(* What was found is about the person that was asked for. *)
OnlyAbout(f, p) == /\ \A x \in Fields : f.val[x] \in {p, None}
                   /\ f.likes \subseteq {p}

(* The quotes of a file are about people whose names lead to it. *)
Filed(q) == \A s \in Slugs : \A k \in Keys : q[s][k] \in People => SlugOf[q[s][k]] = s

(* Where a writer holds the card of its person, and where what was found. *)
HasCard == {"fetch", "mark", "extract", "save", "write", "record", "replace", "quote"}
HasFound == {"load", "save", "write", "record", "replace", "quote"}

DiskLeads == \A s \in Slugs : disk[s].full \in Cards => Leads(disk[s].full, s)
CardsLead == \A w \in Writers : pc[w] \in HasCard => Leads(card[w], SlugOf[who[w]])
FoundsLead == \A w \in Writers : pc[w] \in HasFound => OnlyAbout(found[w], who[w])
QuotesLead == Filed(prov.full) /\ \A w \in Writers : Filed(copy[w])

(* The inductive invariant of FactsOfOnePerson. *)
FactsInv == DiskLeads /\ CardsLead /\ FoundsLead /\ QuotesLead

-----------------------------------------------------------------------------
(* The operators. *)

LEMMA EmptyCardLeads ==
    ASSUME NEW p \in People
    PROVE  EmptyCard(p) \in Cards /\ Leads(EmptyCard(p), SlugOf[p])
BY CardsAssumption DEF EmptyCard, Cards, Leads, About, Values

LEMMA NothingLeads ==
    /\ NothingFound \in FoundCards /\ NoQuotes \in Quotes
    /\ Filed(NoQuotes)
<1>1. None \notin People
  BY CardsAssumption DEF Values
<1> QED
  BY <1>1 DEF NothingFound, NoQuotes, FoundCards, Quotes, Filed

LEMMA FoundsLeadTo ==
    ASSUME NEW p \in People, NEW f \in Founds(p)
    PROVE  f \in FoundCards /\ OnlyAbout(f, p)
BY DEF Founds, FoundCards, OnlyAbout

(* Merge keeps the name and the note, and adds only what was found. *)
LEMMA MergeLeads ==
    ASSUME NEW c \in Cards, NEW f \in FoundCards, NEW p \in People, OnlyAbout(f, p),
           Leads(c, SlugOf[p])
    PROVE  /\ Merge(c, f) \in Cards
           /\ Merge(c, f).name = c.name /\ Merge(c, f).body = c.body
           /\ Leads(Merge(c, f), SlugOf[p])
<1>1. /\ Merge(c, f).name = c.name /\ Merge(c, f).body = c.body
      /\ \A x \in Fields : Merge(c, f).val[x] = IF c.val[x] = None THEN f.val[x] ELSE c.val[x]
      /\ Merge(c, f).likes = c.likes \cup f.likes
  BY DEF Merge, Cards
<1>2. Merge(c, f) \in Cards
  BY DEF Merge, Cards, FoundCards, Values
<1>3. \A q \in People : q \in About(Merge(c, f)) => q \in About(c) \/ q = p
  <2>1. None \notin People
    BY CardsAssumption DEF Values
  <2> QED
    BY <1>1, <2>1 DEF About, OnlyAbout
<1> QED
  BY <1>1, <1>2, <1>3 DEF Leads

(* Nothing that was typed is lost by it. *)
LEMMA MergeKeeps ==
    ASSUME NEW c \in Cards, NEW f \in FoundCards
    PROVE  Typed(c) \subseteq Typed(Merge(c, f))
<1>1. /\ Merge(c, f).body = c.body
      /\ \A x \in Fields : c.val[x] = Hand => Merge(c, f).val[x] = Hand
      /\ c.likes \subseteq Merge(c, f).likes
  BY CardsAssumption DEF Merge, Cards, Values
<1> QED
  BY <1>1 DEF Typed

LEMMA LoadLeads ==
    ASSUME TypeOK, DiskLeads, NEW p \in People, Readable(p)
    PROVE  Load(p) \in Cards /\ Leads(Load(p), SlugOf[p])
<1>1. SlugOf[p] \in Slugs
  BY CardsAssumption
<1>2. disk[SlugOf[p]].full \in Cards \cup {Absent, Broken}
  BY <1>1 DEF TypeOK, Files
<1> QED
  BY <1>1, <1>2, EmptyCardLeads DEF Load, Readable, DiskLeads

LEMMA EditedLeads ==
    ASSUME NEW c \in Cards, NEW s, Leads(c, s), NEW e \in Edited(c)
    PROVE  e \in Cards \cup {Broken} /\ (e \in Cards => Leads(e, s))
<1>1. CASE e = Broken
  BY <1>1, FileAssumption
<1>2. CASE e = [c EXCEPT !.likes = @ \cup {Hand}]
  <2>1. e \in Cards /\ e.name = c.name /\ e.val = c.val /\ e.likes = c.likes \cup {Hand}
    BY <1>2 DEF Cards, Values
  <2> QED
    BY <2>1, CardsAssumption DEF Leads, About
<1>3. CASE e = [c EXCEPT !.body = Hand]
  <2>1. e \in Cards /\ e.name = c.name /\ e.val = c.val /\ e.likes = c.likes
    BY <1>3 DEF Cards
  <2> QED
    BY <2>1 DEF Leads, About
<1>4. CASE \E f \in Fields : e = [c EXCEPT !.val[f] = Hand]
  <2>1. PICK f \in Fields : e = [c EXCEPT !.val[f] = Hand]
    BY <1>4
  <2>2. /\ e \in Cards /\ e.name = c.name /\ e.likes = c.likes
        /\ \A x \in Fields : e.val[x] = Hand \/ e.val[x] = c.val[x]
    BY <2>1 DEF Cards, Values
  <2> QED
    BY <2>2, CardsAssumption DEF Leads, About
<1>5. \/ e = Broken \/ e = [c EXCEPT !.likes = @ \cup {Hand}]
      \/ e = [c EXCEPT !.body = Hand] \/ \E f \in Fields : e = [c EXCEPT !.val[f] = Hand]
  BY Zenon DEF Edited
<1> QED
  BY <1>1, <1>2, <1>3, <1>4, <1>5

LEMMA OrdersAreSequences == Orders \subseteq Seq(People)
<1>1. Cardinality(People) \in Nat
  BY CardsAssumption, FS_CardinalityType
<1>2. \A n \in Nat : [1..n -> People] \subseteq Seq(People)
  OBVIOUS
<1>3. <<>> \in Seq(People)
  OBVIOUS
<1> QED
  BY <1>1, <1>2, <1>3 DEF Orders

(* What is written over a card file is the card, or the card with scraps. *)
LEMMA RewrittenCard ==
    ASSUME NEW file, NEW c \in Cards, NEW new \in Rewritten(file, c)
    PROVE  /\ new \in Files(Cards \cup {Absent, Broken})
           /\ new.full \in Cards /\ new.full.name = c.name
           /\ new.full.val = c.val /\ new.full.likes = c.likes
           /\ new.full.body = c.body \/ ~file.torn
<1>1. [c EXCEPT !.body = Scraps] \in Cards
  BY DEF Cards
<1>2. CASE new = Whole(c)
  BY <1>2 DEF Whole, Files
<1>3. CASE new = Whole([c EXCEPT !.body = Scraps]) /\ ~file.torn
  BY <1>1, <1>3 DEF Whole, Files, Cards
<1> QED
  BY <1>2, <1>3 DEF Rewritten

LEMMA RewrittenQuotes ==
    ASSUME NEW file, NEW q \in Quotes, NEW new \in RewrittenSidecar(file, q)
    PROVE  new \in Files(Quotes) /\ new.full = q
<1>1. CASE new = Whole(q)
  BY <1>1 DEF Whole, Files
<1>2. CASE new = [full |-> q, torn |-> TRUE]
  BY <1>2 DEF Files
<1> QED
  BY <1>1, <1>2 DEF RewrittenSidecar

-----------------------------------------------------------------------------
(* The invariant in three parts: what the writers hold, what the files of  *)
(* facts hold, and the bookkeeping.                                        *)

Kept == /\ who \in [Writers -> People] /\ card \in [Writers -> Cards]
        /\ found \in [Writers -> FoundCards] /\ copy \in [Writers -> Quotes]

InHand == /\ Kept
          /\ CardsLead /\ FoundsLead /\ \A w \in Writers : Filed(copy[w])

OnDisk == /\ disk \in [Slugs -> Files(Cards \cup {Absent, Broken})]
          /\ prov \in Files(Quotes)
          /\ DiskLeads /\ Filed(prov.full)

Clerk == /\ marks \in Files(SUBSET Slugs)
         /\ pc \in [Writers -> Labels]
         /\ queue \in Seq(People)
         /\ memory \subseteq Slugs
         /\ done \in Nat /\ asked \in [People -> Nat] /\ lost \in Nat
         /\ {edits, uses, mishaps} \subseteq Nat

Inv == InHand /\ OnDisk /\ Clerk

LEMMA Parts == Inv <=> TypeOK /\ FactsInv
BY DEF TypeOK, FactsInv, QuotesLead, Kept, InHand, OnDisk, Clerk, Inv, FoundCards, Quotes

LEMMA DiskKept ==
    ASSUME OnDisk, UNCHANGED <<disk, prov>>
    PROVE  OnDisk'
BY DEF OnDisk, DiskLeads

(* One writer moves: only what it holds afterwards has to be looked at. *)
LEMMA Moves ==
    ASSUME InHand, pc \in [Writers -> Labels], NEW w \in Writers, NEW l \in Labels, Goto(w, l),
           Kept',
           \A v \in Writers : v # w => /\ who'[v] = who[v] /\ card'[v] = card[v]
                                      /\ found'[v] = found[v] /\ copy'[v] = copy[v],
           l \in HasCard => Leads(card'[w], SlugOf[who'[w]]),
           l \in HasFound => OnlyAbout(found'[w], who'[w]),
           Filed(copy'[w])
    PROVE  InHand' /\ pc' \in [Writers -> Labels]
<1>1. /\ pc' \in [Writers -> Labels] /\ pc'[w] = l
      /\ \A v \in Writers : v # w => pc'[v] = pc[v]
  BY DEF Goto
<1>2. CardsLead'
  BY <1>1 DEF InHand, CardsLead, Leads, About
<1>3. FoundsLead'
  BY <1>1 DEF InHand, FoundsLead, OnlyAbout
<1>4. \A v \in Writers : Filed(copy'[v])
  BY <1>1 DEF InHand, Filed
<1> QED
  BY <1>1, <1>2, <1>3, <1>4 DEF InHand

(* It moves with what it holds. *)
LEMMA MovesOn ==
    ASSUME InHand, pc \in [Writers -> Labels], NEW w \in Writers, NEW l \in Labels, Goto(w, l),
           l \in HasCard => pc[w] \in HasCard, l \in HasFound => pc[w] \in HasFound,
           UNCHANGED <<who, card, found, copy>>
    PROVE  InHand' /\ pc' \in [Writers -> Labels]
<1>1. Kept'
  BY DEF InHand, Kept
<1>2. Leads(card[w], SlugOf[who[w]]) => Leads(card'[w], SlugOf[who'[w]])
  OBVIOUS
<1>3. OnlyAbout(found[w], who[w]) => OnlyAbout(found'[w], who'[w])
  OBVIOUS
<1>4. Filed(copy'[w])
  BY DEF InHand
<1>5. l \in HasCard => Leads(card[w], SlugOf[who[w]])
  BY DEF InHand, CardsLead
<1>6. l \in HasFound => OnlyAbout(found[w], who[w])
  BY DEF InHand, FoundsLead
<1> QED
  BY <1>1, <1>2, <1>3, <1>4, <1>5, <1>6, Moves

(* Nothing moves. *)
LEMMA Rest ==
    ASSUME InHand, UNCHANGED <<pc, who, card, found, copy>>
    PROVE  InHand'
BY DEF InHand, Kept, CardsLead, FoundsLead, Leads, About, OnlyAbout, Filed

LEMMA DroppedKept ==
    ASSUME InHand, NEW W, Dropped(W)
    PROVE  /\ Kept' /\ who' = who
           /\ \A w \in Writers : Filed(copy'[w])
           /\ \A w \in Writers \ W : card'[w] = card[w] /\ found'[w] = found[w] /\ copy'[w] = copy[w]
<1>1. who' = who /\ who \in [Writers -> People]
  BY DEF Dropped, InHand, Kept
<1>2. card' \in [Writers -> Cards]
  BY <1>1, EmptyCardLeads DEF Dropped, InHand, Kept
<1>3. found' \in [Writers -> FoundCards]
  BY NothingLeads DEF Dropped, InHand, Kept
<1>4. copy' \in [Writers -> Quotes] /\ \A w \in Writers : Filed(copy'[w])
  BY NothingLeads DEF Dropped, InHand, Kept
<1> QED
  BY <1>1, <1>2, <1>3, <1>4 DEF Kept, Dropped

LEMMA FinishLeads ==
    ASSUME InHand, pc \in [Writers -> Labels], NEW w \in Writers, Finish(w)
    PROVE  InHand' /\ pc' \in [Writers -> Labels]
<1> DEFINE l == IF w = Sweeper THEN "next" ELSE "idle"
<1>1. l \in Labels /\ l \notin HasCard /\ l \notin HasFound
  BY DEF Labels, HasCard, HasFound
<1>2. Goto(w, l) /\ Dropped({w})
  BY DEF Finish
<1> HIDE DEF l
<1> QED
  BY <1>1, <1>2, DroppedKept, Moves

-----------------------------------------------------------------------------
(* One lemma for each group of steps. *)

LEMMA SweepStepFacts ==
    ASSUME Inv, SweepStep
    PROVE  Inv'
<1> USE DEF Inv
<1>t. TypeOK /\ DiskLeads
  BY Parts DEF FactsInv
<1>s. Sweeper \in Writers /\ pc \in [Writers -> Labels]
  BY DEF Writers, Clerk
<1>h. Kept
  BY DEF InHand
<1>1. ASSUME NEW q \in Orders, StartSweep(q) PROVE Inv'
  <2>1. OnDisk'
    BY <1>1, DiskKept DEF StartSweep, files
  <2>2. InHand' /\ pc' \in [Writers -> Labels]
    BY <1>1, <1>s, MovesOn DEF StartSweep, Labels, HasCard, HasFound
  <2>3. Clerk'
    BY <1>1, <2>2, OrdersAreSequences DEF StartSweep, Clerk, files, budget, Files
  <2> QED
    BY <2>1, <2>2, <2>3
<1>2. CASE SweepNext
  <2>1. OnDisk'
    BY <1>2, DiskKept DEF SweepNext, files
  <2>2. CASE queue = <<>> \/ done >= Max
    <3>1. InHand' /\ pc' \in [Writers -> Labels]
      BY <1>2, <1>s, <2>2, MovesOn DEF SweepNext, Labels, HasCard, HasFound
    <3>2. queue' \in Seq(People)
      <4>1. queue' = <<>>
        BY <1>2, <2>2 DEF SweepNext
      <4> QED
        BY <4>1
    <3>3. UNCHANGED <<marks, memory, done, asked, lost, edits, uses, mishaps>>
      BY <1>2 DEF SweepNext, files, history, budget
    <3>4. Clerk'
      BY <3>1, <3>2, <3>3 DEF Clerk
    <3> QED
      BY <2>1, <3>1, <3>4
  <2>3. CASE ~(queue = <<>> \/ done >= Max)
    <3> DEFINE p == Head(queue)
    <3>0. queue # <<>> /\ queue \in Seq(People) /\ queue' = Tail(queue)
      BY <1>2, <2>3 DEF SweepNext, Clerk
    <3>1. p \in People /\ queue' \in Seq(People)
      BY <3>0
    <3>2. InHand' /\ pc' \in [Writers -> Labels]
      <4>1. CASE Skip(p)
        <5>1. UNCHANGED <<pc, who, card, found, copy>>
          BY <1>2, <2>3, <4>1 DEF SweepNext
        <5> QED
          BY <1>s, <5>1, Rest
      <4>2. CASE ~Skip(p)
        <5>1. Load(p) \in Cards /\ Leads(Load(p), SlugOf[p])
          BY <1>t, <3>1, <4>2, LoadLeads DEF Skip
        <5>2. /\ who' = [who EXCEPT ![Sweeper] = p] /\ card' = [card EXCEPT ![Sweeper] = Load(p)]
              /\ UNCHANGED <<found, copy>> /\ Goto(Sweeper, "fetch")
          BY <1>2, <2>3, <4>2 DEF SweepNext
        <5>3. Kept'
          BY <1>h, <3>1, <5>1, <5>2 DEF Kept
        <5>4. "fetch" \in Labels /\ "fetch" \notin HasFound
          BY DEF Labels, HasFound
        <5>5. Filed(copy'[Sweeper])
          BY <1>s, <5>2 DEF InHand
        <5> QED
          BY <1>h, <1>s, <3>1, <5>1, <5>2, <5>3, <5>4, <5>5, Moves DEF Kept
      <4> QED
        BY <4>1, <4>2
    <3>3. Clerk'
      BY <1>2, <3>1, <3>2 DEF SweepNext, Clerk, files, history, budget
    <3> QED
      BY <2>1, <3>2, <3>3
  <2> QED
    BY <2>2, <2>3
<1>3. CASE SweepMark \/ SweepMarkFails \/ SweepMarked \/ SweepExtract \/ SweepExtractFails
  <2> DEFINE p == who[Sweeper]
  <2>1. OnDisk'
    BY <1>3, DiskKept
       DEF SweepMark, SweepMarkFails, SweepMarked, SweepExtract, SweepExtractFails, files
  <2>2. p \in People /\ SlugOf[p] \in Slugs
    BY <1>h, <1>s, CardsAssumption DEF Kept
  <2>3. ASSUME AskOrGoOn, pc[Sweeper] \in HasCard PROVE InHand' /\ pc' \in [Writers -> Labels]
    <3>1. CASE Goto(Sweeper, "extract") /\ UNCHANGED <<who, card, found, copy>>
      BY <1>s, <2>3, <3>1, MovesOn DEF Labels, HasFound
    <3> QED
      BY <1>s, <2>3, <3>1, FinishLeads DEF AskOrGoOn
  <2>4. CASE SweepMark
    <3>1. InHand' /\ pc' \in [Writers -> Labels]
      BY <1>s, <2>4, MovesOn DEF SweepMark, Labels, HasFound, HasCard
    <3>2. Clerk'
      BY <2>2, <2>4, <3>1 DEF SweepMark, Clerk, Files, history, budget
    <3> QED
      BY <2>1, <3>1, <3>2
  <2>5. CASE SweepMarkFails
    <3>1. InHand' /\ pc' \in [Writers -> Labels]
      BY <2>3, <2>5 DEF SweepMarkFails, HasCard
    <3>2. Clerk'
      BY <2>2, <2>5, <3>1 DEF SweepMarkFails, Clerk, Files, files, history, budget
    <3> QED
      BY <2>1, <3>1, <3>2
  <2>6. CASE SweepMarked
    <3>1. InHand' /\ pc' \in [Writers -> Labels]
      BY <2>3, <2>6 DEF SweepMarked, HasCard
    <3>2. Clerk'
      BY <2>6, <3>1 DEF SweepMarked, Clerk, Files, Whole, history, budget
    <3> QED
      BY <2>1, <3>1, <3>2
  <2>7. ASSUME SweepExtract \/ SweepExtractFails, pc' \in [Writers -> Labels] PROVE Clerk'
    BY <2>2, <2>7, SMTT(40) DEF SweepExtract, SweepExtractFails, Clerk, files, sweep, budget
  <2>8. CASE SweepExtract
    <3>1. PICK f \in Founds(p) :
             IF Changed(card[Sweeper], f) = {}
             THEN Finish(Sweeper)
             ELSE /\ found' = [found EXCEPT ![Sweeper] = f]
                  /\ Goto(Sweeper, "save")
                  /\ UNCHANGED <<who, card, copy>>
      BY <2>8 DEF SweepExtract
    <3>2. CASE Finish(Sweeper)
      BY <1>s, <2>1, <2>7, <2>8, <3>2, FinishLeads
    <3>3. CASE found' = [found EXCEPT ![Sweeper] = f] /\ Goto(Sweeper, "save")
               /\ UNCHANGED <<who, card, copy>>
      <4>1. f \in FoundCards /\ OnlyAbout(f, p)
        BY <2>2, FoundsLeadTo
      <4>2. Kept' /\ found'[Sweeper] = f
        BY <1>h, <1>s, <3>3, <4>1 DEF Kept
      <4>3. Leads(card[Sweeper], SlugOf[who[Sweeper]]) /\ Filed(copy[Sweeper])
        BY <1>s, <2>8 DEF SweepExtract, InHand, CardsLead, HasCard
      <4>4. \A v \in Writers : v # Sweeper => found'[v] = found[v]
        BY <1>h, <3>3 DEF Kept
      <4>5. "save" \in Labels
        BY DEF Labels
      <4>6. InHand' /\ pc' \in [Writers -> Labels]
        BY <1>s, <3>3, <4>1, <4>2, <4>3, <4>4, <4>5, Moves
      <4> QED
        BY <2>1, <2>7, <2>8, <4>6
    <3> QED
      BY <3>1, <3>2, <3>3
  <2>9. CASE SweepExtractFails
    BY <1>s, <2>1, <2>7, <2>9, FinishLeads DEF SweepExtractFails
  <2> QED
    BY <1>3, <2>4, <2>5, <2>6, <2>8, <2>9
<1> QED
  BY <1>1, <1>2, <1>3 DEF SweepStep

LEMMA ToolStepFacts ==
    ASSUME Inv, NEW w \in Tools, ToolStep(w)
    PROVE  Inv'
<1> USE DEF Inv
<1>t. TypeOK /\ DiskLeads
  BY Parts DEF FactsInv
<1>s. w \in Writers /\ pc \in [Writers -> Labels]
  BY DEF Writers, Clerk
<1>h. Kept /\ Filed(copy[w])
  BY <1>s DEF InHand
<1>l. "load" \in Labels /\ "load" \notin HasCard /\ "save" \in Labels
  BY DEF Labels, HasCard
<1>1. ASSUME NEW p \in People, ToolExtract(w, p) PROVE Inv'
  <2>1. PICK f \in Founds(p) : found' = [found EXCEPT ![w] = f]
    BY <1>1 DEF ToolExtract
  <2>2. f \in FoundCards /\ OnlyAbout(f, p)
    BY FoundsLeadTo
  <2>3. who' = [who EXCEPT ![w] = p] /\ UNCHANGED <<card, copy>> /\ Goto(w, "load")
    BY <1>1 DEF ToolExtract
  <2>4. Kept' /\ who'[w] = p /\ found'[w] = f
    BY <1>h, <1>s, <2>1, <2>2, <2>3 DEF Kept
  <2>5. \A v \in Writers : v # w => who'[v] = who[v] /\ found'[v] = found[v]
    BY <1>h, <2>1, <2>3 DEF Kept
  <2>6. InHand' /\ pc' \in [Writers -> Labels]
    BY <1>h, <1>l, <1>s, <2>2, <2>3, <2>4, <2>5, Moves
  <2>7. OnDisk'
    BY <1>1, DiskKept DEF ToolExtract, files
  <2>8. Clerk'
    BY <1>1, <2>6 DEF ToolExtract, Clerk, files, sweep, history
  <2> QED
    BY <2>6, <2>7, <2>8
<1>2. CASE ToolLoad(w)
  <2> DEFINE p == who[w]
  <2>1. OnDisk'
    BY <1>2, DiskKept DEF ToolLoad, files
  <2>2. InHand' /\ pc' \in [Writers -> Labels]
    <3>1. CASE Readable(p) /\ Changed(Load(p), found[w]) # {}
      <4>1. p \in People
        BY <1>h, <1>s DEF Kept
      <4>2. Load(p) \in Cards /\ Leads(Load(p), SlugOf[p])
        BY <1>t, <3>1, <4>1, LoadLeads
      <4>3. /\ card' = [card EXCEPT ![w] = Load(p)] /\ Goto(w, "save")
            /\ UNCHANGED <<who, found, copy>>
        BY <1>2, <3>1 DEF ToolLoad
      <4>4. Kept' /\ card'[w] = Load(p) /\ \A v \in Writers : v # w => card'[v] = card[v]
        BY <1>h, <1>s, <4>2, <4>3 DEF Kept
      <4>5. OnlyAbout(found[w], p)
        BY <1>2, <1>s DEF ToolLoad, InHand, FoundsLead, HasFound
      <4> QED
        BY <1>h, <1>l, <1>s, <4>2, <4>3, <4>4, <4>5, Moves
    <3>2. CASE ~(Readable(p) /\ Changed(Load(p), found[w]) # {})
      BY <1>2, <1>s, <3>2, FinishLeads DEF ToolLoad
    <3> QED
      BY <3>1, <3>2
  <2>3. Clerk'
    BY <1>2, <2>2 DEF ToolLoad, Clerk, files, sweep, history, budget
  <2> QED
    BY <2>1, <2>2, <2>3
<1> QED
  BY <1>1, <1>2 DEF ToolStep

LEMMA SaveStepFacts ==
    ASSUME Inv, NEW w \in Writers, SaveStep(w)
    PROVE  Inv'
<1> USE DEF Inv
<1> DEFINE p == who[w]
           c == card[w]
           m == Merge(c, found[w])
<1>s. pc \in [Writers -> Labels] /\ OnDisk
  BY DEF Clerk
<1>h. Kept /\ Filed(copy[w]) /\ p \in People /\ SlugOf[p] \in Slugs /\ c \in Cards
  BY CardsAssumption DEF InHand, Kept
<1>c. /\ marks' = marks /\ UNCHANGED <<queue, done, memory, asked, lost, edits, uses>>
      /\ mishaps' \in {mishaps, mishaps + 1}
  BY DEF SaveStep, SaveTruncates, SaveFails, SaveWrites, RecordReads, RecordTruncates, RecordFails,
         RecordWrites, files, sweep, history, budget
<1>d. ASSUME pc' \in [Writers -> Labels] PROVE Clerk'
  BY <1>c, <1>d DEF Clerk
<1>1. CASE SaveTruncates(w)
  <2>1. InHand' /\ pc' \in [Writers -> Labels]
    BY <1>1, <1>s, MovesOn DEF SaveTruncates, Labels, HasCard, HasFound
  <2>2. /\ disk' \in [Slugs -> Files(Cards \cup {Absent, Broken})]
        /\ \A s \in Slugs : disk'[s].full = disk[s].full
    BY <1>1 DEF SaveTruncates, OnDisk, Files
  <2>3. OnDisk'
    BY <1>1, <2>2 DEF SaveTruncates, OnDisk, DiskLeads
  <2> QED
    BY <1>d, <2>1, <2>3
<1>2. CASE SaveWrites(w)
  <2>1. InHand' /\ pc' \in [Writers -> Labels]
    BY <1>2, <1>s, MovesOn DEF SaveWrites, Labels, HasCard, HasFound
  <2>2. found[w] \in FoundCards /\ OnlyAbout(found[w], p) /\ Leads(c, SlugOf[p])
    BY <1>2, <1>h DEF SaveWrites, InHand, Kept, CardsLead, FoundsLead, HasCard, HasFound
  <2>3. m \in Cards /\ m.name = c.name /\ Leads(m, SlugOf[p])
    BY <1>h, <2>2, MergeLeads
  <2>4. FileOf(m) = SlugOf[p]
    BY <2>3 DEF Leads, FileOf
  <2>5. PICK file \in Rewritten(disk[SlugOf[p]], m) : disk' = [disk EXCEPT ![SlugOf[p]] = file]
    BY <1>2, <2>4 DEF SaveWrites
  <2>6. /\ file \in Files(Cards \cup {Absent, Broken})
        /\ file.full.name = m.name /\ file.full.val = m.val /\ file.full.likes = m.likes
    BY <2>3, <2>5, RewrittenCard
  <2>7. Leads(file.full, SlugOf[p])
    BY <2>3, <2>6 DEF Leads, About
  <2>8. OnDisk'
    <3>1. disk' \in [Slugs -> Files(Cards \cup {Absent, Broken})]
      BY <1>h, <2>5, <2>6 DEF OnDisk
    <3>2. DiskLeads'
      BY <1>h, <2>5, <2>7 DEF OnDisk, DiskLeads
    <3> QED
      BY <1>2, <3>1, <3>2 DEF SaveWrites, OnDisk
  <2> QED
    BY <1>d, <2>1, <2>8
<1>3. CASE SaveFails(w) \/ RecordFails(w)
  <2>1. OnDisk'
    BY <1>3, DiskKept DEF SaveFails, RecordFails, files
  <2>2. InHand' /\ pc' \in [Writers -> Labels]
    BY <1>3, <1>s, FinishLeads DEF SaveFails, RecordFails
  <2> QED
    BY <1>d, <2>1, <2>2
<1>4. CASE RecordReads(w)
  <2> DEFINE q == IF prov.torn THEN NoQuotes ELSE prov.full
  <2>1. OnDisk'
    BY <1>4, DiskKept DEF RecordReads, files
  <2>2. q \in Quotes /\ Filed(q)
    BY NothingLeads DEF OnDisk, Files
  <2>3. copy' = [copy EXCEPT ![w] = q] /\ UNCHANGED <<who, card, found>> /\ Goto(w, "replace")
    BY <1>4 DEF RecordReads
  <2> HIDE DEF q
  <2>4. Kept' /\ copy'[w] = q /\ \A v \in Writers : v # w => copy'[v] = copy[v]
    BY <1>h, <2>2, <2>3 DEF Kept
  <2>5. Leads(c, SlugOf[p]) /\ OnlyAbout(found[w], p) /\ "replace" \in Labels
    BY <1>4 DEF RecordReads, InHand, CardsLead, FoundsLead, HasCard, HasFound, Labels
  <2>6. InHand' /\ pc' \in [Writers -> Labels]
    BY <1>h, <1>s, <2>2, <2>3, <2>4, <2>5, Moves
  <2> QED
    BY <1>d, <2>1, <2>6
<1>5. CASE RecordTruncates(w)
  <2>1. InHand' /\ pc' \in [Writers -> Labels]
    BY <1>5, <1>s, MovesOn DEF RecordTruncates, Labels, HasCard, HasFound
  <2>2. prov' \in Files(Quotes) /\ prov'.full = prov.full
    BY <1>5 DEF RecordTruncates, OnDisk, Files
  <2>3. OnDisk'
    BY <1>5, <2>2 DEF RecordTruncates, OnDisk, DiskLeads
  <2> QED
    BY <1>d, <2>1, <2>3
<1>6. CASE RecordWrites(w)
  <2>1. InHand' /\ pc' \in [Writers -> Labels]
    BY <1>6, <1>s, FinishLeads DEF RecordWrites
  <2>2. copy[w] \in Quotes
    BY <1>h DEF Kept
  <2>3. Quoted(w) \in Quotes
    BY <1>h, <2>2 DEF Quoted, Quotes
  <2>4. Filed(Quoted(w))
    <3> SUFFICES ASSUME NEW s \in Slugs, NEW k \in Keys, Quoted(w)[s][k] \in People
                 PROVE  SlugOf[Quoted(w)[s][k]] = s
      BY DEF Filed
    <3>1. \/ Quoted(w)[s][k] = copy[w][s][k]
          \/ s = SlugOf[p] /\ Quoted(w)[s][k] = p
      BY <1>h, <2>2 DEF Quoted, Quotes
    <3> QED
      BY <1>h, <3>1 DEF Filed
  <2>5. PICK file \in RewrittenSidecar(prov, Quoted(w)) : prov' = file
    BY <1>6 DEF RecordWrites
  <2>6. prov' \in Files(Quotes) /\ prov'.full = Quoted(w)
    BY <2>3, <2>5, RewrittenQuotes
  <2>7. disk' = disk
    BY <1>6 DEF RecordWrites
  <2>8. OnDisk'
    BY <2>4, <2>6, <2>7 DEF OnDisk, DiskLeads
  <2> QED
    BY <1>d, <2>1, <2>8
<1> QED
  BY <1>1, <1>2, <1>3, <1>4, <1>5, <1>6 DEF SaveStep

LEMMA HandEditFacts ==
    ASSUME Inv, NEW p \in People, HandEdit(p)
    PROVE  Inv'
<1> USE DEF Inv
<1>t. TypeOK /\ DiskLeads /\ OnDisk /\ SlugOf[p] \in Slugs
  BY Parts, CardsAssumption DEF FactsInv
<1>1. PICK c \in IF Readable(p) THEN Edited(Load(p)) ELSE {EmptyCard(p)} :
          disk' = [disk EXCEPT ![SlugOf[p]] = Whole(c)]
  BY DEF HandEdit
<1>2. c \in Cards \cup {Broken} /\ (c \in Cards => Leads(c, SlugOf[p]))
  <2>1. CASE Readable(p)
    BY <1>1, <1>t, <2>1, LoadLeads, EditedLeads
  <2>2. CASE ~Readable(p)
    BY <1>1, <2>2, EmptyCardLeads
  <2> QED
    BY <2>1, <2>2
<1>3. InHand'
  BY Rest DEF HandEdit, work
<1>4. Clerk'
  BY DEF HandEdit, Clerk, work, sweep, history
<1>5. disk' \in [Slugs -> Files(Cards \cup {Absent, Broken})] /\ disk'[SlugOf[p]].full = c
  BY <1>1, <1>2, <1>t DEF OnDisk, Files, Whole
<1>6. DiskLeads'
  BY <1>1, <1>2, <1>5, <1>t DEF OnDisk, DiskLeads
<1>7. OnDisk'
  BY <1>5, <1>6 DEF HandEdit, OnDisk
<1> QED
  BY <1>3, <1>4, <1>7

LEMMA KillFacts ==
    ASSUME Inv, Kill
    PROVE  Inv'
<1> USE DEF Inv
<1>1. OnDisk'
  BY DiskKept DEF Kill, files
<1>2. pc' \in [Writers -> Labels] /\ \A w \in Writers : pc'[w] \in {"off", "idle"}
  BY DEF Kill, Labels
<1>3. Kept' /\ \A w \in Writers : Filed(copy'[w])
  BY DroppedKept DEF Kill
<1>4. CardsLead' /\ FoundsLead'
  BY <1>2 DEF CardsLead, FoundsLead, HasCard, HasFound
<1>5. Clerk'
  <2>1. queue' \in Seq(People)
    <3>1. queue' = <<>>
      BY DEF Kill
    <3> QED
      BY <3>1
  <2> QED
    BY <1>2, <2>1 DEF Kill, Clerk, files, history
<1> QED
  BY <1>1, <1>2, <1>3, <1>4, <1>5 DEF InHand

-----------------------------------------------------------------------------
LEMMA InitFacts == Init => Inv
<1> SUFFICES ASSUME Init PROVE Inv
  OBVIOUS
<1>1. Absent \notin Cards /\ NoQuotes \in Quotes /\ Filed(NoQuotes)
  BY FileAssumption, NothingLeads
<1>2. OnDisk
  BY <1>1 DEF Init, OnDisk, Whole, Files, DiskLeads
<1>3. pc \in [Writers -> Labels] /\ \A w \in Writers : pc[w] \in {"off", "idle"}
  BY DEF Init, Labels
<1>4. Kept
  <2>1. who \in [Writers -> People]
    BY DEF Init
  <2> QED
    BY <1>1, <2>1, EmptyCardLeads, NothingLeads DEF Init, Kept
<1>5. InHand
  BY <1>1, <1>3, <1>4 DEF Init, InHand, CardsLead, FoundsLead, HasCard, HasFound
<1>6. Clerk
  <2>1. queue \in Seq(People)
    <3>1. queue = <<>>
      BY DEF Init
    <3> QED
      BY <3>1
  <2> QED
    BY <1>3, <2>1 DEF Init, Clerk, Whole, Files
<1> QED
  BY <1>2, <1>5, <1>6 DEF Inv

LEMMA StepFacts == Inv /\ [Next]_vars => Inv'
<1> SUFFICES ASSUME Inv, [Next]_vars PROVE Inv'
  OBVIOUS
<1>1. CASE SweepStep
  BY <1>1, SweepStepFacts
<1>2. ASSUME NEW w \in Tools, ToolStep(w) PROVE Inv'
  BY <1>2, ToolStepFacts
<1>3. ASSUME NEW w \in Writers, SaveStep(w) PROVE Inv'
  BY <1>3, SaveStepFacts
<1>4. ASSUME NEW p \in People, HandEdit(p) PROVE Inv'
  BY <1>4, HandEditFacts
<1>5. CASE Kill
  BY <1>5, KillFacts
<1>6. CASE UNCHANGED vars
  <2>1. InHand' /\ OnDisk'
    BY <1>6, Rest, DiskKept DEF Inv, vars, files, work
  <2>2. Clerk'
    BY <1>6 DEF Inv, Clerk, vars, files, work, sweep, history, budget
  <2> QED
    BY <2>1, <2>2 DEF Inv
<1> QED
  BY <1>1, <1>2, <1>3, <1>4, <1>5, <1>6 DEF Next

LEMMA Invariance == Spec => []Inv
BY InitFacts, StepFacts, PTL DEF Spec

(* Every variable keeps its type. *)
THEOREM TypeCorrect == Spec => []TypeOK
<1>1. Inv => TypeOK
  BY Parts
<1> QED
  BY <1>1, Invariance, PTL

(* Facts about one person never reach a file that the person's name does   *)
(* not lead to: what a goroutine holds is about the person it works on.    *)
THEOREM OnePersonsFacts == Spec => []FactsOfOnePerson
<1>1. Inv => FactsOfOnePerson
  BY DEF Inv, OnDisk, FactsOfOnePerson, DiskLeads, Leads, Filed
<1> QED
  BY <1>1, Invariance, PTL

-----------------------------------------------------------------------------
(* A typed value that a step takes from a card file goes away in the write *)
(* of a writer that loaded the card without it, or over a completed text:  *)
(* merging keeps everything that was loaded.                               *)
LEMMA WriteKeeps ==
    ASSUME Inv, NEW w \in Writers, SaveWrites(w), NEW s \in Slugs, NEW x,
           x \in Typed(disk[s].full), x \notin Typed(disk'[s].full)
    PROVE  /\ FileOf(card[w]) = s
           /\ x \notin Typed(card[w]) \/ ~disk[s].torn
<1> DEFINE c == card[w]
           m == Merge(c, found[w])
<1>1. /\ c \in Cards /\ found[w] \in FoundCards /\ who[w] \in People
      /\ OnlyAbout(found[w], who[w]) /\ Leads(c, SlugOf[who[w]])
  BY DEF Inv, InHand, Kept, SaveWrites, CardsLead, FoundsLead, HasCard, HasFound
<1>2. m \in Cards /\ m.name = c.name
  BY <1>1, MergeLeads
<1>3. FileOf(m) = FileOf(c)
  BY <1>2 DEF FileOf
<1>4. PICK file \in Rewritten(disk[FileOf(c)], m) : disk' = [disk EXCEPT ![FileOf(c)] = file]
  BY <1>3 DEF SaveWrites
<1>5. s = FileOf(c)
  BY <1>4
<1>6. ASSUME x \in Typed(c), disk[s].torn PROVE FALSE
  <2>1. disk'[s].full = file.full
    BY <1>4, <1>5 DEF Inv, OnDisk
  <2>2. file.full.val = m.val /\ file.full.likes = m.likes /\ file.full.body = m.body
    BY <1>2, <1>4, <1>5, <1>6, RewrittenCard
  <2>3. x \in Typed(m)
    BY <1>1, <1>6, MergeKeeps
  <2> QED
    BY <2>1, <2>2, <2>3 DEF Typed
<1> QED
  BY <1>5, <1>6

LEMMA FullKept ==
    ASSUME Inv, [Next]_vars, edits' = edits, \A w \in Writers : ~SaveWrites(w), NEW s \in Slugs
    PROVE  disk'[s].full = disk[s].full
<1> USE DEF Inv, OnDisk
<1>1. CASE SweepStep
  BY <1>1 DEF SweepStep, StartSweep, SweepNext, SweepMark, SweepMarkFails, SweepMarked,
              SweepExtract, SweepExtractFails, files
<1>2. ASSUME NEW w \in Tools, ToolStep(w) PROVE disk' = disk
  BY <1>2 DEF ToolStep, ToolExtract, ToolLoad, files
<1>3. ASSUME NEW w \in Writers, SaveStep(w) PROVE disk'[s].full = disk[s].full
  <2>1. CASE SaveTruncates(w)
    BY <2>1 DEF SaveTruncates, Files
  <2> QED
    BY <1>3, <2>1 DEF SaveStep, SaveFails, RecordReads, RecordTruncates, RecordFails,
                      RecordWrites, files
<1>4. ~\E p \in People : HandEdit(p)
  BY DEF HandEdit, Clerk
<1>5. CASE Kill
  BY <1>5 DEF Kill, files
<1>6. CASE UNCHANGED vars
  BY <1>6 DEF vars, files
<1> QED
  BY <1>1, <1>2, <1>3, <1>4, <1>5, <1>6 DEF Next

THEOREM StaleWriters == Spec => OnlyStaleWritersOverwrite
<1> DEFINE Stale ==
        \A s \in Slugs :
          LET old == disk[s].full
              new == disk'[s].full
          IN  old \in Cards /\ new \in Cards /\ edits' = edits =>
              \A x \in Typed(old) \ Typed(new) :
                 \E w \in Writers :
                    /\ pc[w] = "write" /\ FileOf(card[w]) = s
                    /\ x \notin Typed(card[w]) \/ ~disk[s].torn
<1>1. Inv /\ [Next]_vars => [Stale]_vars
  <2> SUFFICES ASSUME Inv, [Next]_vars, edits' = edits, NEW s \in Slugs,
                      NEW x \in Typed(disk[s].full) \ Typed(disk'[s].full)
               PROVE  \E w \in Writers :
                        /\ pc[w] = "write" /\ FileOf(card[w]) = s
                        /\ x \notin Typed(card[w]) \/ ~disk[s].torn
    OBVIOUS
  <2>1. PICK w \in Writers : SaveWrites(w)
    BY FullKept
  <2>2. FileOf(card[w]) = s /\ (x \notin Typed(card[w]) \/ ~disk[s].torn)
    BY <2>1, WriteKeeps
  <2> QED
    BY <2>1, <2>2 DEF SaveWrites
<1>2. Spec => [][Stale]_vars
  BY <1>1, Invariance, PTL DEF Spec
<1> QED
  BY <1>2 DEF OnlyStaleWritersOverwrite

-----------------------------------------------------------------------------
(* Once per cooldown.  Under way is the person the sweep has marked and is *)
(* about to ask about.  What has been asked, or is about to be, is covered *)
(* by the sweep's memory, by the marks on disk, or by a loss.              *)

UnderWay(p) == pc[Sweeper] \in {"mark", "extract"} /\ who[Sweeper] = p
Due(p) == asked[p] + IF UnderWay(p) THEN 1 ELSE 0
Sweeping == /\ pc[Sweeper] \notin {"off", "done"}
            /\ pc[Sweeper] = "next" => queue # <<>>

Remembered == Sweeping => \A p \in People : Due(p) <= lost + IF SlugOf[p] \in memory THEN 1 ELSE 0
Marked == \A p \in People :
            Due(p) <= lost + IF marks.torn \/ SlugOf[p] \in marks.full THEN 1 ELSE 0
TornWhileMarking == pc[Sweeper] = "mark" => marks.torn /\ SlugOf[who[Sweeper]] \in memory
OneAtATime == pc[Sweeper] = "fetch" => SlugOf[who[Sweeper]] \notin memory

CooldownInv == Remembered /\ Marked /\ TornWhileMarking /\ OneAtATime

LEMMA Counts ==
    ASSUME Inv
    PROVE  lost \in Nat /\ \A p \in People : asked[p] \in Nat /\ SlugOf[p] \in Slugs
BY CardsAssumption DEF Inv, Clerk

(* The other goroutines and the user leave all of it alone. *)
LEMMA CooldownKept ==
    ASSUME CooldownInv, UNCHANGED <<queue, memory, marks, asked, lost>>,
           pc'[Sweeper] = pc[Sweeper], who'[Sweeper] = who[Sweeper]
    PROVE  CooldownInv'
BY DEF CooldownInv, Remembered, Marked, TornWhileMarking, OneAtATime, Due, UnderWay, Sweeping

(* So does the sweep itself where it neither marks nor asks. *)
LEMMA CooldownSweeps ==
    ASSUME Inv, CooldownInv, UNCHANGED <<memory, marks, asked, lost>>, Sweeping' => Sweeping,
           pc'[Sweeper] \notin {"mark", "extract"},
           pc'[Sweeper] = "fetch" => SlugOf[who'[Sweeper]] \notin memory
    PROVE  CooldownInv'
<1>1. \A p \in People : Due(p)' <= Due(p) /\ Due(p)' \in Nat /\ Due(p) \in Nat
  BY Counts DEF Due, UnderWay
<1>2. Sweeping => \A p \in People : Due(p)' <= lost + IF SlugOf[p] \in memory THEN 1 ELSE 0
  <2> SUFFICES ASSUME Sweeping, NEW p \in People
               PROVE  Due(p)' <= lost + IF SlugOf[p] \in memory THEN 1 ELSE 0
    OBVIOUS
  <2>1. Due(p) <= lost + IF SlugOf[p] \in memory THEN 1 ELSE 0
    BY DEF CooldownInv, Remembered
  <2> QED
    BY <1>1, <2>1, Counts
<1>3. \A p \in People :
         Due(p)' <= lost + IF marks.torn \/ SlugOf[p] \in marks.full THEN 1 ELSE 0
  <2> SUFFICES ASSUME NEW p \in People
               PROVE  Due(p)' <= lost + IF marks.torn \/ SlugOf[p] \in marks.full THEN 1 ELSE 0
    OBVIOUS
  <2>1. Due(p) <= lost + IF marks.torn \/ SlugOf[p] \in marks.full THEN 1 ELSE 0
    BY DEF CooldownInv, Marked
  <2> QED
    BY <1>1, <2>1, Counts
<1> QED
  BY <1>2, <1>3 DEF CooldownInv, Remembered, Marked, TornWhileMarking, OneAtATime

LEMMA SweepCooldown ==
    ASSUME Inv, CooldownInv, SweepStep
    PROVE  CooldownInv'
<1> DEFINE p == who[Sweeper]
<1>s. Sweeper \in Writers /\ pc \in [Writers -> Labels] /\ who \in [Writers -> People] /\ p \in People
  BY DEF Writers, Inv, Clerk, InHand, Kept
<1>n. lost \in Nat /\ \A q \in People : asked[q] \in Nat /\ SlugOf[q] \in Slugs
  BY Counts
<1>1. ASSUME NEW q \in Orders, StartSweep(q) PROVE CooldownInv'
  <2>1. pc'[Sweeper] = "next" /\ UNCHANGED <<marks, asked>>
    BY <1>1, <1>s DEF StartSweep, Goto, files
  <2>2. \A r \in People : Due(r)' = asked[r] /\ Due(r) = asked[r]
    BY <1>1, <1>n, <2>1 DEF Due, UnderWay, StartSweep
  <2>3. \A r \in People :
           asked[r] <= lost + IF marks.torn \/ SlugOf[r] \in marks.full THEN 1 ELSE 0
    BY <2>2 DEF CooldownInv, Marked
  <2>4. Marked'
    <3> SUFFICES ASSUME NEW r \in People
                 PROVE  asked[r] <= lost' + IF marks.torn \/ SlugOf[r] \in marks.full THEN 1 ELSE 0
      BY <2>1, <2>2 DEF Marked
    <3>1. lost' \in {lost, lost + 1}
      BY <1>1 DEF StartSweep
    <3> QED
      BY <1>n, <2>3, <3>1
  <2>5. ASSUME Sweeping', NEW r \in People
        PROVE  Due(r)' <= lost' + IF SlugOf[r] \in memory' THEN 1 ELSE 0
    <3>1. q # <<>>
      BY <1>1, <2>1, <2>5 DEF StartSweep, Sweeping
    <3>2. /\ lost' = IF marks.torn THEN lost + 1 ELSE lost
          /\ memory' = IF marks.torn THEN {} ELSE marks.full
      BY <1>1, <3>1 DEF StartSweep
    <3> QED
      BY <1>n, <2>2, <2>3, <3>2
  <2> QED
    BY <2>1, <2>4, <2>5 DEF CooldownInv, Remembered, TornWhileMarking, OneAtATime
<1>2. CASE SweepNext
  <2>1. UNCHANGED <<memory, marks, asked, lost>>
    BY <1>2 DEF SweepNext, files, history
  <2>2. /\ pc'[Sweeper] \in {"next", "done", "fetch"}
        /\ pc'[Sweeper] = "fetch" => SlugOf[who'[Sweeper]] \notin memory
        /\ pc'[Sweeper] = "done" \/ queue # <<>>
    BY <1>2, <1>s DEF SweepNext, Goto, Skip
  <2>3. Sweeping' => Sweeping
    BY <1>2, <2>2 DEF Sweeping, SweepNext
  <2> QED
    BY <2>1, <2>2, <2>3, CooldownSweeps
<1>3. CASE SweepMark
  <2>1. /\ pc[Sweeper] = "fetch" /\ pc'[Sweeper] = "mark"
        /\ memory' = memory \cup {SlugOf[p]} /\ marks'.torn
        /\ UNCHANGED <<who, asked, lost>>
    BY <1>3, <1>s DEF SweepMark, Goto, history, Inv, Clerk, Files
  <2>2. /\ Due(p)' = asked[p] + 1
        /\ \A q \in People : Due(q) = asked[q] /\ (q # p => Due(q)' = asked[q])
    BY <1>n, <2>1 DEF Due, UnderWay
  <2>3. \A q \in People : asked[q] <= lost + IF SlugOf[q] \in memory THEN 1 ELSE 0
    BY <2>1, <2>2 DEF CooldownInv, Remembered, Sweeping
  <2>4. asked[p] <= lost
    BY <1>n, <1>s, <2>1, <2>3 DEF CooldownInv, OneAtATime
  <2>5. Remembered'
    <3> SUFFICES ASSUME NEW q \in People
                 PROVE  Due(q)' <= lost + IF SlugOf[q] \in memory' THEN 1 ELSE 0
      BY <2>1 DEF Remembered
    <3>1. CASE q = p
      BY <1>n, <2>1, <2>2, <2>4, <3>1
    <3>2. CASE q # p
      BY <1>n, <2>1, <2>2, <2>3, <3>2
    <3> QED
      BY <3>1, <3>2
  <2>6. Marked'
    <3> SUFFICES ASSUME NEW q \in People PROVE Due(q)' <= lost + 1
      BY <2>1 DEF Marked
    <3>1. CASE q = p
      BY <1>n, <2>1, <2>2, <2>4, <3>1
    <3>2. CASE q # p
      <4>1. Due(q)' = asked[q] /\ asked[q] <= lost + IF SlugOf[q] \in memory THEN 1 ELSE 0
        BY <2>2, <2>3, <3>2
      <4> QED
        BY <1>n, <4>1
    <3> QED
      BY <3>1, <3>2
  <2> QED
    BY <2>1, <2>5, <2>6 DEF CooldownInv, TornWhileMarking, OneAtATime
<1>4. CASE SweepMarkFails
  <2>1. /\ pc[Sweeper] = "fetch" /\ pc'[Sweeper] \in {"extract", "next"}
        /\ memory' = memory \cup {SlugOf[p]} /\ marks' = marks /\ lost' = lost + 1
        /\ UNCHANGED <<who, asked>>
    BY <1>4, <1>s DEF SweepMarkFails, AskOrGoOn, Finish, Dropped, Goto, files
  <2>2. \A q \in People : Due(q) = asked[q] /\ Due(q)' \in {asked[q], asked[q] + 1}
                          /\ (q # p => Due(q)' = asked[q])
    BY <1>n, <2>1 DEF Due, UnderWay
  <2>3. \A q \in People : /\ asked[q] <= lost + IF SlugOf[q] \in memory THEN 1 ELSE 0
                          /\ asked[q] <= lost + IF marks.torn \/ SlugOf[q] \in marks.full THEN 1 ELSE 0
    BY <2>1, <2>2 DEF CooldownInv, Remembered, Marked, Sweeping
  <2>4. asked[p] <= lost
    BY <1>n, <1>s, <2>1, <2>3 DEF CooldownInv, OneAtATime
  <2>5. \A q \in People : Due(q)' <= lost' + IF SlugOf[q] \in memory' THEN 1 ELSE 0
    BY <1>n, <2>1, <2>2, <2>3, <2>4
  <2>6. \A q \in People : Due(q)' <= lost' + IF marks.torn \/ SlugOf[q] \in marks.full THEN 1 ELSE 0
    BY <1>n, <2>1, <2>2, <2>3, <2>4
  <2> QED
    BY <2>1, <2>5, <2>6 DEF CooldownInv, Remembered, Marked, TornWhileMarking, OneAtATime
<1>5. CASE SweepMarked
  <2>1. /\ pc[Sweeper] = "mark" /\ pc'[Sweeper] \in {"extract", "next"}
        /\ ~marks'.torn /\ marks'.full = memory
        /\ UNCHANGED <<who, memory, asked, lost>>
    BY <1>5, <1>s DEF SweepMarked, AskOrGoOn, Finish, Dropped, Goto, Whole, history
  <2>2. \A q \in People : Due(q) \in Nat /\ Due(q)' \in Nat /\ Due(q)' <= Due(q)
    BY <1>n, <2>1 DEF Due, UnderWay
  <2>3. \A q \in People : Due(q) <= lost + IF SlugOf[q] \in memory THEN 1 ELSE 0
    BY <2>1 DEF CooldownInv, Remembered, Sweeping
  <2>4. \A q \in People : Due(q)' <= lost + IF SlugOf[q] \in memory THEN 1 ELSE 0
    BY <1>n, <2>2, <2>3
  <2> QED
    BY <2>1, <2>4 DEF CooldownInv, Remembered, Marked, TornWhileMarking, OneAtATime
<1>6. CASE SweepExtract \/ SweepExtractFails
  <2>1. /\ pc[Sweeper] = "extract" /\ pc'[Sweeper] \in {"save", "next"}
        /\ asked' = [asked EXCEPT ![p] = @ + 1]
        /\ UNCHANGED <<marks, who, memory, lost>>
    BY <1>6, <1>s DEF SweepExtract, SweepExtractFails, Finish, Dropped, Goto, sweep, files
  <2>2. \A q \in People : Due(q) = asked'[q] /\ Due(q)' = asked'[q]
    BY <1>n, <1>s, <2>1 DEF Due, UnderWay, Inv, Clerk
  <2>3. Sweeping
    BY <2>1 DEF Sweeping
  <2> QED
    BY <2>1, <2>2, <2>3 DEF CooldownInv, Remembered, Marked, TornWhileMarking, OneAtATime
<1> QED
  BY <1>1, <1>2, <1>3, <1>4, <1>5, <1>6 DEF SweepStep

LEMMA SaveCooldown ==
    ASSUME Inv, CooldownInv, NEW w \in Writers, SaveStep(w)
    PROVE  CooldownInv'
<1>1. UNCHANGED <<queue, memory, marks, asked, lost>> /\ pc \in [Writers -> Labels]
  BY DEF SaveStep, SaveTruncates, SaveFails, SaveWrites, RecordReads, RecordTruncates, RecordFails,
         RecordWrites, files, sweep, history, Inv, Clerk
<1>2. /\ pc[w] \in {"save", "write", "record", "replace", "quote"}
      /\ pc'[w] \in {"write", "record", "replace", "quote", "next", "idle"}
      /\ \A v \in Writers : v # w => pc'[v] = pc[v]
      /\ who' = who
  BY <1>1 DEF SaveStep, SaveTruncates, SaveFails, SaveWrites, RecordReads, RecordTruncates,
         RecordFails, RecordWrites, Finish, Dropped, Goto
<1>3. Sweeper \in Writers
  BY DEF Writers
<1>4. CASE w = Sweeper
  BY <1>1, <1>2, <1>4, CooldownSweeps DEF Sweeping
<1>5. CASE w # Sweeper
  BY <1>1, <1>2, <1>3, <1>5, CooldownKept
<1> QED
  BY <1>4, <1>5

THEOREM OncePerCooldown == Spec => []SweptOncePerCooldown
<1>1. Init => CooldownInv
  <2> SUFFICES ASSUME Init PROVE CooldownInv
    OBVIOUS
  <2>1. /\ pc[Sweeper] = "off" /\ lost = 0 /\ \A p \in People : asked[p] = 0
    BY DEF Init, Writers
  <2> QED
    BY <2>1 DEF CooldownInv, Remembered, Marked, TornWhileMarking, OneAtATime, Due, UnderWay, Sweeping
<1>2. Inv /\ CooldownInv /\ [Next]_vars => CooldownInv'
  <2> SUFFICES ASSUME Inv, CooldownInv, [Next]_vars PROVE CooldownInv'
    OBVIOUS
  <2>s. Sweeper \in Writers /\ Sweeper \notin Tools /\ pc \in [Writers -> Labels]
    BY CardsAssumption DEF Writers, Inv, Clerk
  <2>1. ASSUME NEW w \in Tools, ToolStep(w) PROVE CooldownInv'
    <3>1. /\ UNCHANGED <<queue, memory, marks, asked, lost>>
          /\ pc'[Sweeper] = pc[Sweeper] /\ who'[Sweeper] = who[Sweeper]
      BY <2>1, <2>s DEF ToolStep, ToolExtract, ToolLoad, Finish, Dropped, Goto,
                        files, sweep, history, Inv, InHand, Kept
    <3> QED
      BY <3>1, CooldownKept
  <2>2. ASSUME NEW p \in People, HandEdit(p) PROVE CooldownInv'
    BY <2>2, CooldownKept DEF HandEdit, work, sweep, history
  <2>3. CASE Kill
    <3>1. pc'[Sweeper] = "off" /\ UNCHANGED <<marks, asked, lost>>
      BY <2>3, <2>s DEF Kill, files, history
    <3>2. \A p \in People : Due(p)' <= Due(p) /\ Due(p) \in Nat /\ Due(p)' \in Nat
      BY <3>1, Counts DEF Due, UnderWay
    <3>3. \A p \in People :
             Due(p)' <= lost + IF marks.torn \/ SlugOf[p] \in marks.full THEN 1 ELSE 0
      <4> SUFFICES ASSUME NEW p \in People
                   PROVE  Due(p)' <= lost + IF marks.torn \/ SlugOf[p] \in marks.full THEN 1 ELSE 0
        OBVIOUS
      <4>1. Due(p) <= lost + IF marks.torn \/ SlugOf[p] \in marks.full THEN 1 ELSE 0
        BY DEF CooldownInv, Marked
      <4> QED
        BY <3>2, <4>1, Counts
    <3> QED
      BY <3>1, <3>3 DEF CooldownInv, Remembered, Marked, TornWhileMarking, OneAtATime, Sweeping
  <2>4. CASE UNCHANGED vars
    BY <2>4, CooldownKept DEF vars, files, work, sweep, history
  <2> QED
    BY <2>1, <2>2, <2>3, <2>4, SweepCooldown, SaveCooldown DEF Next
<1>3. Inv /\ CooldownInv => SweptOncePerCooldown
  <2> SUFFICES ASSUME Inv, CooldownInv, NEW p \in People PROVE asked[p] <= 1 + lost
    BY DEF SweptOncePerCooldown
  <2>1. Due(p) <= lost + IF marks.torn \/ SlugOf[p] \in marks.full THEN 1 ELSE 0
    BY DEF CooldownInv, Marked
  <2>2. asked[p] <= Due(p) /\ Due(p) \in Nat
    BY Counts DEF Due
  <2> QED
    BY <2>1, <2>2, Counts
<1> QED
  BY <1>1, <1>2, <1>3, Invariance, PTL DEF Spec

=============================================================================
