------------------------------- MODULE Vault -------------------------------
(***************************************************************************)
(* The session's vault (internal/redact): which token stands for which     *)
(* names, handles, numbers and addresses.  It is built from the identity   *)
(* index before the model is first used, and learns more people whenever   *)
(* the contacts are fetched, while replies stream.  What goes out is       *)
(* redacted by replacing every registered value, the longest first; what   *)
(* comes back is rehydrated in TokenStream.                                *)
(*                                                                         *)
(* A text is a sequence of words, spaces and other characters, folded to   *)
(* one case, so that a value occurs in it at word boundaries when it is    *)
(* one of its stretches.                                                   *)
(***************************************************************************)
EXTENDS Naturals, FiniteSets, Sequences, SequencesExt

CONSTANTS
    LengthOf,   \* the words and characters, with their lengths in bytes
    Numbers,    \* the random numbers of tokens, by their digits
    Indexes     \* what the index may hold: its people in some order

\* as it stands in a text
TokenText(n) == <<"CONTACT_">> \o n

\* what makes a name a possessive
Suffix == <<"'", "s">>

Words == DOMAIN LengthOf
Texts == Seq(Words)
People == [names : Seq(Texts) \ {<<>>}, handles : Seq(Texts)]

(***************************************************************************)
(* A word has a length.  Inside a token there is no word boundary, so none *)
(* of its elements is a word.                                              *)
(***************************************************************************)
ASSUME WordsAssumption ==
    /\ LengthOf \in [Words -> Nat \ {0}]
    /\ {"'", "s"} \subseteq Words /\ LengthOf["'"] = 1 /\ LengthOf["s"] = 1
    /\ Numbers \subseteq Seq(STRING)
    /\ \A n \in Numbers : \A i \in DOMAIN TokenText(n) : TokenText(n)[i] \notin Words
ASSUME IndexAssumption == Indexes \subseteq Seq(People)

VARIABLES
    vault,      \* byValue, byToken, replacer
    known       \* history: the people registered

Size(text) ==
    LET sum[i \in 0..Len(text)] == IF i = 0 THEN 0 ELSE sum[i - 1] + LengthOf[text[i]]
    IN  sum[Len(text)]

Long(value) == Size(value) >= 3

-----------------------------------------------------------------------------
(* Registration. *)

\* strings.Fields of a name: the words and where they start
WordStarts(name) == {i \in DOMAIN name : name[i] # " " /\ (i = 1 \/ name[i - 1] = " ")}
WordAt(name, i) ==
    SubSeq(name, i, CHOOSE j \in i..Len(name) : /\ j = Len(name) \/ name[j + 1] = " "
                                               /\ \A k \in i..j : name[k] # " ")
Fields(name) == {WordAt(name, i) : i \in WordStarts(name)}

\* a short value is left alone, and a value keeps the token it has
Register(v, value, suffix, n) ==
    IF ~Long(value) \/ value \in DOMAIN v.byValue THEN v
    ELSE [byToken |-> v.byToken,
          byValue |-> [x \in DOMAIN v.byValue \cup {value} |->
                          IF x = value THEN n ELSE v.byValue[x]],
          replacer |-> Append(v.replacer, [value |-> value, token |-> TokenText(n) \o suffix])]

\* a value and its possessive, which keeps its suffix on the token
RegisterForms(v, value, n) ==
    Register(Register(v, value, <<>>, n), value \o Suffix, Suffix, n)

\* a name and its longer words
RegisterName(v, name, n) ==
    LET upTo[i \in 0..Len(name)] ==
            IF i = 0 THEN RegisterForms(v, name, n)
            ELSE IF i \in WordStarts(name) /\ Long(WordAt(name, i))
                 THEN RegisterForms(upTo[i - 1], WordAt(name, i), n)
                 ELSE upTo[i - 1]
    IN  upTo[Len(name)]

Mint(v, n, display) ==
    [v EXCEPT !.byToken = [x \in DOMAIN v.byToken \cup {n} |->
                              IF x = n THEN display ELSE v.byToken[x]]]

Values(p) == p.names \o p.handles

\* Fault: only the handles are looked up
RegisteredHandle(v, p) ==
    {i \in DOMAIN Values(p) : i > Len(p.names) /\ Values(p)[i] \in DOMAIN v.byValue}

\* positions of the values of p that have a token already
Registered(v, p) == {i \in DOMAIN Values(p) : Values(p)[i] \in DOMAIN v.byValue}

\* tokenFor: the token of the first of the values that has one, or a new one
NumberFor(v, p, fresh) ==
    LET has == Registered(v, p)
    IN  IF has = {} THEN fresh
        ELSE v.byValue[Values(p)[CHOOSE i \in has : \A j \in has : i <= j]]
Issued(v, p, fresh) == IF Registered(v, p) = {} THEN Mint(v, fresh, p.names[1]) ELSE v

RegisterPerson(v, p, fresh) ==
    LET n == NumberFor(v, p, fresh)
        upTo[k \in 0..Len(Values(p))] ==
            IF k = 0 THEN Issued(v, p, fresh)
            ELSE IF k <= Len(p.names) THEN RegisterName(upTo[k - 1], Values(p)[k], n)
                 ELSE Register(upTo[k - 1], Values(p)[k], <<>>, n)
    IN  upTo[Len(Values(p))]

\* r goes behind the first k of rs
PutAt(rs, r, k) == SubSeq(rs, 1, k) \o <<r>> \o SubSeq(rs, k + 1, Len(rs))

\* Fault: the comparison is turned round
ShortestFirst(rs) ==
    LET insert(s, r) ==
            PutAt(s, r, Cardinality({i \in DOMAIN s : Size(s[i].value) <= Size(r.value)}))
        sorted[i \in 0..Len(rs)] == IF i = 0 THEN <<>> ELSE insert(sorted[i - 1], rs[i])
    IN  sorted[Len(rs)]

\* where r goes in a list that has the longest first: behind those as long as it
Place(rs, r) ==
    CHOOSE k \in 0..Len(rs) : /\ \A i \in 1..k : Size(rs[i].value) >= Size(r.value)
                             /\ \A i \in k + 1..Len(rs) : Size(rs[i].value) < Size(r.value)

\* the longest first, and of equal length the one registered first
SortReplacer(rs) ==
    LET insert(s, r) == PutAt(s, r, Place(s, r))
        sorted[i \in 0..Len(rs)] == IF i = 0 THEN <<>> ELSE insert(sorted[i - 1], rs[i])
    IN  sorted[Len(rs)]

\* everyone in turn, with the numbers that Mint draws if it has to
Entered(v, people, fresh) ==
    LET upTo[i \in 0..Len(people)] ==
            IF i = 0 THEN v ELSE RegisterPerson(upTo[i - 1], people[i], fresh[i])
    IN  upTo[Len(people)]

\* NewVault and Update
Learned(v, people, fresh) ==
    LET all == Entered(v, people, fresh)
    IN  [all EXCEPT !.replacer = SortReplacer(all.replacer)]

Draws(v, people) ==
    {f \in [DOMAIN people -> Numbers \ DOMAIN v.byToken] : IsInjective(f)}

NoVault == [byValue |-> <<>>, byToken |-> <<>>, replacer |-> <<>>]

NewVault ==
    \E people \in Indexes : \E fresh \in Draws(NoVault, people) :
        /\ vault = Learned(NoVault, people, fresh)
        /\ known = ToSet(people)

Update(people, fresh) ==
    /\ vault' = Learned(vault, people, fresh)
    /\ known' = known \cup ToSet(people)

-----------------------------------------------------------------------------
(* Redaction. *)

\* every occurrence of the value, from the left
Replaced(text, value, token) ==
    LET end(i) == i + Len(value) - 1
        rest[i \in 1..Len(text) + 1] ==
            IF i > Len(text) THEN <<>>
            ELSE IF end(i) <= Len(text) /\ SubSeq(text, i, end(i)) = value
                 THEN token \o rest[end(i) + 1]
                 ELSE <<text[i]>> \o rest[i + 1]
    IN  rest[1]

\* the values in their order
Redact(text) ==
    LET upTo[i \in 0..Len(vault.replacer)] ==
            IF i = 0 THEN text
            ELSE Replaced(upTo[i - 1], vault.replacer[i].value, vault.replacer[i].token)
    IN  upTo[Len(vault.replacer)]

-----------------------------------------------------------------------------
\* what a person is called, in full or by a word of the name
Called(p) == ToSet(p.names) \cup UNION {Fields(n) : n \in ToSet(p.names)}

\* after a word that is nobody's, v becomes a token, and what follows stays
BecomesToken(v, after) ==
    Long(v) => \E n \in DOMAIN vault.byToken :
        Redact(<<"hi", " ">> \o v \o after) = <<"hi", " ">> \o TokenText(n) \o after

(***************************************************************************)
(* "known contact names, handles, phones, and emails are replaced by       *)
(* opaque session tokens before any model call" (README.md:113): whatever  *)
(* people the vault has learnt and whatever they share, each of their      *)
(* names, words of names and handles becomes one token as a whole, and the *)
(* text around it stays (redact.go:81-157).                                *)
(***************************************************************************)
NamesBecomeTokens ==
    \A p \in known :
        /\ \A v \in Called(p) : BecomesToken(v, <<>>) /\ BecomesToken(v, Suffix)
        /\ \A v \in ToSet(p.handles) : BecomesToken(v, <<>>)

(***************************************************************************)
(* A reply is stored with names and goes out again with the next round:    *)
(* the name shown for a token is redacted to that token, so that the model *)
(* finds the people of its own answers again, however many people were     *)
(* learnt in between (redact.go:99-132, llm/client.go:344, 352-360).       *)
(***************************************************************************)
NamesComeBack ==
    \A n \in DOMAIN vault.byToken :
        Long(vault.byToken[n]) => Redact(vault.byToken[n]) = TokenText(n)
=============================================================================
