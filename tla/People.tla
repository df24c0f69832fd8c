------------------------------- MODULE People -------------------------------
(***************************************************************************)
(* The identity index (internal/identity).  BuildWithPolicy observes       *)
(* people as chat participants, chat titles and contacts, in the order the *)
(* server returns them, and folds each observation into the people it has: *)
(* the keys it shares with earlier ones decide which of them are the same  *)
(* human.  Search and Candidates look people up for the assistant's tools. *)
(*                                                                         *)
(* Names, handles, numbers and addresses are values, equal when the code's *)
(* normal forms are.  A person is named by the observation that created    *)
(* it; the parent links of absorbed people are the function home, from     *)
(* each observation to the surviving person.                               *)
(***************************************************************************)
EXTENDS Integers, FiniteSets, Sequences, SequencesExt

CONSTANTS
    Accounts, Users,    \* accounts, and the IDs of users on them
    Chats, AccountOf,   \* chats, and the account of each
    ActiveOf,           \* when each chat was last active
    Names,              \* full names and titles
    FullNames,          \* those of two words or more
    Common,             \* those whose first and last words are frequent
    Handles,            \* those that read as a number or an address
    NumberOf,           \* the phone number a title is, or None
    Usernames, Phones, Emails,
    Queries,            \* what the assistant may ask for
    WordsOf,            \* the words of each query and text
    Begins,             \* pairs of words, the first of which begins the second
    InOrder,            \* pairs of a query and a text that fuzzysearch matches
    Distance,           \* the edit distance of each such pair
    None,
    MaxSeen             \* bound: observations of one build

ASSUME PeopleAssumption ==
    /\ AccountOf \in [Chats -> Accounts] /\ ActiveOf \in [Chats -> Nat]
    /\ Common \subseteq FullNames /\ FullNames \subseteq Names /\ Handles \subseteq Names
    /\ NumberOf \in [Names -> Phones \cup {None}]
    /\ \A n \in Names \ Handles : NumberOf[n] = None
    /\ None \notin Accounts \cup Users \cup Chats \cup Names \cup Usernames \cup Phones \cup Emails
    /\ MaxSeen \in Nat

Texts == Names \cup Usernames \cup Phones \cup Emails

ASSUME LookupAssumption ==
    /\ Queries \subseteq DOMAIN WordsOf /\ Texts \subseteq DOMAIN WordsOf
    /\ InOrder \subseteq Queries \X Texts
    /\ Distance \in [Queries \X Texts -> Nat]

Maybe(S) == S \cup {None}

(***************************************************************************)
(* What a build may observe.  A participant without a name and a username  *)
(* is passed over, and so are bots and the user; the title of a single     *)
(* chat is a person, and its phone number when it reads as one; the server *)
(* gives every participant and contact a user ID.                          *)
(***************************************************************************)
Participants ==
    {[acct |-> AccountOf[c], user |-> u, name |-> n, username |-> h,
      phone |-> None, email |-> None, chat |-> c] :
        c \in Chats, u \in Users, n \in Maybe(Names), h \in Maybe(Usernames)}
    \ {[acct |-> AccountOf[c], user |-> u, name |-> None, username |-> None,
        phone |-> None, email |-> None, chat |-> c] : c \in Chats, u \in Users}
Titles ==
    {[acct |-> AccountOf[c], user |-> None, name |-> n, username |-> None,
      phone |-> NumberOf[n], email |-> None, chat |-> c] : c \in Chats, n \in Names}
Contacts ==
    [acct : Accounts, user : Users, name : Maybe(Names), username : Maybe(Usernames),
     phone : Maybe(Phones), email : Maybe(Emails), chat : {None}]
Observations == Participants \cup Titles \cup Contacts

Keys == ({"account"} \X Accounts \X Users) \cup ({"acctName"} \X Accounts \X Names)
        \cup ({"phone"} \X Phones) \cup ({"email"} \X Emails) \cup ({"name"} \X Names)

ASSUME NoneAssumption == None \notin Observations \cup Keys

Active(e) == IF e.chat = None THEN 0 ELSE ActiveOf[e.chat]

VARIABLES
    seen,    \* the observations so far
    home,    \* the surviving person of each
    person,  \* the people of the index
    by,      \* byAccount, byAcctName, byPhone, byEmail, byName in one
    verdict, \* the user's word on each name: "approved", "denied" or "none"
    pending  \* names to ask the user about

vars == <<seen, home, person, by, verdict, pending>>

(***************************************************************************)
(* The keys of an observation, in the order add looks them up.             *)
(***************************************************************************)
accountKey(e) == IF e.user = None THEN None ELSE <<"account", e.acct, e.user>>
\* Fault: the account is missing from the key
acctNameKeyNoAccount(e) == IF e.name = None THEN None ELSE <<"acctName", None, e.name>>

acctNameKey(e) == IF e.name = None THEN None ELSE <<"acctName", e.acct, e.name>>
phoneKey(e) == IF e.phone = None THEN None ELSE <<"phone", e.phone>>
emailKey(e) == IF e.email = None THEN None ELSE <<"email", e.email>>
\* Fault: names are told apart by account
nameKeyOfAccount(e) == IF e.name = None THEN None ELSE <<"name", e.acct, e.name>>

nameKey(e) == IF e.name = None THEN None ELSE <<"name", e.name>>
KeyList(e) == <<accountKey(e), acctNameKey(e), phoneKey(e), emailKey(e)>>

\* The entries of add's map literal, whose keys carry no tag: where the user
\* ID reads like the name, the later entry replaces the one of byAccount.
Misread(e) == e.user # None /\ e.user = e.name

Recorded(e) ==
    {k \in ToSet(KeyList(e)) : k # None} \ (IF Misread(e) THEN {accountKey(e)} ELSE {})

\* the surviving person a key leads to
Known(k) == IF k \in DOMAIN by THEN home[by[k]] ELSE None

Init ==
    /\ seen = {} /\ home = <<>> /\ person = <<>> /\ by = <<>> /\ pending = {}
    /\ verdict \in [FullNames -> {"approved", "denied", "none"}]

\* allowNameMerge: one word is too little, and a common name needs the user
AllowNameMerge(n) ==
    /\ n \in FullNames
    /\ verdict[n] # "denied"
    /\ verdict[n] = "approved" \/ n \notin Common

AskAbout(n) == n \in Common /\ verdict[n] = "none"

(***************************************************************************)
(* Folding one person's fields into another's.                             *)
(***************************************************************************)
Nobody == [name |-> None, alts |-> {}, usernames |-> {}, phones |-> {}, emails |-> {},
           accounts |-> {}, chats |-> {}, active |-> 0]

\* the fields of one observation
Entry(e) ==
    LET some(v) == {v} \ {None}
    IN  [name |-> e.name, alts |-> {}, usernames |-> some(e.username), phones |-> some(e.phone),
         emails |-> some(e.email), accounts |-> {<<e.acct, e.user>>}, chats |-> some(e.chat),
         active |-> Active(e)]

\* the display name: the first, but a real name beats a handle
Shown(p, q) ==
    LET real == ({q.name} \cup q.alts) \ (Handles \cup {None})
    IN  IF p.name \in Handles \cup {None} /\ real # {}
        THEN IF q.name \in real THEN q.name ELSE CHOOSE n \in real : TRUE
        ELSE IF p.name = None THEN q.name ELSE p.name

\* Fault: the other names are forgotten
OtherNamesForgotten(p, q) == p.alts \cup ({p.name, q.name} \ {Shown(p, q), None})

OtherNames(p, q) == p.alts \cup (({p.name, q.name} \cup q.alts) \ {Shown(p, q), None})

\* an entry without a user gives way to one of the same account with a user
AddAccounts(A, B) ==
    LET named == {x \in B : x[2] # None}
        upgraded == (A \ {<<x[1], None>> : x \in named}) \cup named
    IN  upgraded \cup {x \in B : x[2] = None /\ \A y \in upgraded : y[1] # x[1]}

Latest(a, b) == IF a > b THEN a ELSE b

Absorb(p, q) ==
    [name |-> Shown(p, q), alts |-> OtherNames(p, q),
     usernames |-> p.usernames \cup q.usernames, phones |-> p.phones \cup q.phones,
     emails |-> p.emails \cup q.emails, accounts |-> AddAccounts(p.accounts, q.accounts),
     chats |-> p.chats \cup q.chats, active |-> Latest(p.active, q.active)]

(***************************************************************************)
(* add considers the people that the keys lead to, in order; a namesake    *)
(* that no other key leads to counts if allowNameMerge lets it.            *)
(***************************************************************************)
Stranger(e) == /\ Known(nameKey(e)) # None
               /\ \A i \in 1..4 : Known(KeyList(e)[i]) # Known(nameKey(e))

Considered(e) ==
    [i \in 1..5 |-> IF i < 5 THEN Known(KeyList(e)[i])
                    ELSE IF Stranger(e) /\ AllowNameMerge(e.name) THEN Known(nameKey(e))
                    ELSE None]

\* the first of them, or a new person
First(e, people) ==
    LET found == {i \in 1..5 : people[i] # None}
    IN  IF found = {} THEN e ELSE people[CHOOSE i \in found : \A j \in found : i <= j]

\* and the others, which it takes in
Others(dst, people) == {people[i] : i \in 1..5} \ {dst, None}

TakeIn(p, x, dst) == IF x \in {dst, None} THEN p ELSE Absorb(p, person[x])

\* the first considered is dst itself, or nobody
Merged(dst, people) ==
    LET own == IF dst \in DOMAIN person THEN person[dst] ELSE Nobody
        take(p, i) == TakeIn(p, people[i], dst)
    IN  take(take(take(take(own, 2), 3), 4), 5)

\* the keys that come to lead to it; byName keeps the first of a name
NewKeys(e) == Recorded(e) \cup
              (IF e.name # None /\ nameKey(e) \notin DOMAIN by THEN {nameKey(e)} ELSE {})

Add(e) ==
    LET people == Considered(e)
        dst == First(e, people)
        extra == Others(dst, people)
        keys == NewKeys(e)
    IN  /\ e \notin seen /\ Cardinality(seen) < MaxSeen
        /\ seen' = seen \cup {e}
        /\ home' = [x \in seen \cup {e} |->
                       IF x = e \/ home[x] \in extra THEN dst ELSE home[x]]
        /\ person' = [x \in (DOMAIN person \cup {dst}) \ extra |->
                         IF x = dst THEN Absorb(Merged(dst, people), Entry(e)) ELSE person[x]]
        /\ by' = [k \in DOMAIN by \cup keys |-> IF k \in keys THEN dst ELSE by[k]]
        /\ pending' = IF Stranger(e) /\ AskAbout(e.name) THEN pending \cup {e.name} ELSE pending
        /\ UNCHANGED verdict

Next == \E e \in Observations : Add(e)

Spec == Init /\ [][Next]_vars

-----------------------------------------------------------------------------
(***************************************************************************)
(* Looking people up.                                                      *)
(***************************************************************************)
Bears(p) == ({p.name} \ {None}) \cup p.alts
NamesOf(r) == Bears(person[r])
matchFields(r) == NamesOf(r) \cup person[r].usernames \cup person[r].phones \cup person[r].emails

\* every word of q begins some word of f, in any order
tokenPrefixes(q, f) ==
    /\ WordsOf[q] # <<>>
    /\ \A v \in ToSet(WordsOf[q]) : \E w \in ToSet(WordsOf[f]) : <<v, w>> \in Begins

\* a whole prefix is a prefix by words
matchField(q, f) ==
    IF f = q THEN <<0, 0>>
    ELSE IF tokenPrefixes(q, f) THEN <<1, Distance[<<q, f>>]>>
    ELSE IF <<q, f>> \in InOrder THEN <<2, Distance[<<q, f>>]>>
    ELSE <<3, 0>>

Closer(a, b) == a[1] < b[1] \/ (a[1] = b[1] /\ a[2] < b[2])

\* how well a person matches: by the field that matches best
Rank(q, r) ==
    LET ranks == {matchField(q, f) : f \in matchFields(r)} \cup {<<3, 0>>}
    IN  CHOOSE a \in ranks : \A b \in ranks : ~Closer(b, a)

Hits(q) == {r \in DOMAIN person : Rank(q, r)[1] < 3}

\* Fault: recency comes first
AheadByActivity(q, r, t) == \/ person[r].active > person[t].active
                            \/ /\ person[r].active = person[t].active
                               /\ Closer(Rank(q, r), Rank(q, t))

\* Search's order; people that tie may come in either order
Ahead(q, r, t) == \/ Closer(Rank(q, r), Rank(q, t))
                  \/ /\ Rank(q, r) = Rank(q, t)
                     /\ person[r].active > person[t].active

\* who may come first
Search(q) == {r \in Hits(q) : \A t \in Hits(q) : ~Ahead(q, t, r)}

\* the people one of whose names is a run of words of the query
Candidates(q) ==
    {r \in DOMAIN person : \E n \in NamesOf(r) :
        \E i \in DOMAIN WordsOf[q] :
            LET last == i + Len(WordsOf[n]) - 1
            IN  last <= Len(WordsOf[q]) /\ SubSeq(WordsOf[q], i, last) = WordsOf[n]}

(***************************************************************************)
(* resolvePerson: the best match, or the one person named in the query; no *)
(* one when there is none, and when there are several the model must ask.  *)
(***************************************************************************)
resolvePerson(q) ==
    IF Hits(q) # {} THEN Search(q)
    ELSE IF Cardinality(Candidates(q)) = 1 THEN Candidates(q) ELSE {}

-----------------------------------------------------------------------------
Persons == [name : Maybe(Names), alts : SUBSET Names, usernames : SUBSET Usernames,
            phones : SUBSET Phones, emails : SUBSET Emails,
            accounts : SUBSET (Accounts \X Maybe(Users)), chats : SUBSET Chats, active : Nat]

(***************************************************************************)
(* Type invariant.  The index is the people that survive, each of whom     *)
(* survives as itself.                                                     *)
(***************************************************************************)
TypeOK ==
    /\ seen \subseteq Observations
    /\ home \in [seen -> seen]
    /\ DOMAIN person = {home[e] : e \in seen}
    /\ \A r \in DOMAIN person : person[r] \in Persons /\ home[r] = r
    /\ DOMAIN by \subseteq Keys /\ \A k \in DOMAIN by : by[k] \in seen
    /\ verdict \in [FullNames -> {"approved", "denied", "none"}]
    /\ pending \subseteq Common

(***************************************************************************)
(* What makes two observations the same human by themselves.               *)
(***************************************************************************)
SameUser(e, f) == e.acct = f.acct /\ e.user = f.user /\ e.user # None
SameNumber(e, f) == e.phone = f.phone /\ e.phone # None
SameAddress(e, f) == e.email = f.email /\ e.email # None
SameName(e, f) == /\ e.name = f.name /\ e.name # None
                  /\ e.acct = f.acct \/ AllowNameMerge(e.name)
Linked(e, f) == SameUser(e, f) \/ SameNumber(e, f) \/ SameAddress(e, f) \/ SameName(e, f)

(***************************************************************************)
(* The links that the code never misses.  "Strong keys merge               *)
(* unconditionally: same account and user ID, ..." (identity.go:69-70) is  *)
(* not kept if the ID reads like the name in one of the two observations   *)
(* and not in the other (identity.go:189-198).                             *)
(***************************************************************************)
Joined(e, f) == \/ SameNumber(e, f) \/ SameAddress(e, f) \/ SameName(e, f)
                \/ SameUser(e, f) /\ (Misread(e) <=> Misread(f))

(***************************************************************************)
(* The people are the connected components of the observations, in         *)
(* whatever order they come and whatever the user IDs read like: linked    *)
(* observations are one person, however late the link is seen, but for a   *)
(* link that the code may miss; and a person takes in nobody that no chain *)
(* of links leads to (identity.go:135-202).                                *)
(***************************************************************************)
PeopleAreComponents ==
    /\ \A e, f \in seen : Joined(e, f) => home[e] = home[f]
    /\ \A S \in SUBSET seen :
          (\A e \in S, f \in seen \ S : ~Linked(e, f))
          => \A e \in S, f \in seen \ S : home[e] # home[f]

Class(r) == {e \in seen : home[e] = r}

Gathers(p, C) ==
    LET names == {e.name : e \in C} \ {None}
    IN  /\ Bears(p) = names /\ p.name \notin p.alts
        /\ names # {} => p.name # None
        /\ names \ Handles # {} => p.name \notin Handles
        /\ p.usernames = {e.username : e \in C} \ {None}
        /\ p.phones = {e.phone : e \in C} \ {None}
        /\ p.emails = {e.email : e \in C} \ {None}
        /\ p.chats = {e.chat : e \in C} \ {None}
        /\ \A e \in C : Active(e) <= p.active
        /\ p.active # 0 => \E e \in C : Active(e) = p.active
        /\ p.accounts = {<<e.acct, e.user>> : e \in C}
                        \ {<<e.acct, None>> : e \in {f \in C : f.user # None}}

(***************************************************************************)
(* Merging loses nothing and adds nothing: a person carries the names,     *)
(* handles, numbers, addresses, accounts and chats of its observations and *)
(* was active when the latest of them was, is shown by a real name if it   *)
(* has one, and has no account twice (identity.go:204-275).                *)
(***************************************************************************)
MergeKeepsEverything == \A r \in DOMAIN person : Gathers(person[r], Class(r))

(***************************************************************************)
(* When two people of the index bear a common name that nobody has decided *)
(* on, the user is asked about it (mergefile.go:25-50).                    *)
(***************************************************************************)
NamesakesAreAsked ==
    \A r, t \in DOMAIN person : \A n \in NamesOf(r) \cap NamesOf(t) :
        r # t /\ AskAbout(n) => n \in pending

(***************************************************************************)
(* What is asked for by exactly a name, handle, number or address that the *)
(* index knows is somebody who bears it, and of several the one active     *)
(* last, whoever else the words fit (identity.go:379-419,                  *)
(* chattools.go:130-160).                                                  *)
(***************************************************************************)
ExactMatchWins ==
    \A q \in Queries :
        LET exact == {r \in DOMAIN person : q \in matchFields(r)}
        IN  exact # {} =>
            resolvePerson(q) = {r \in exact : \A t \in exact : person[t].active <= person[r].active}
=============================================================================
