---------------------------- MODULE PeopleProofs ----------------------------
(***************************************************************************)
(* Theorems about People: for any accounts, users, names, numbers and      *)
(* addresses, any verdicts, any order of any number of observations.       *)
(* The people of the index are the connected components of the             *)
(* observations, merging loses nothing, undecided namesakes are asked      *)
(* about and an exact match wins.                                          *)
(***************************************************************************)
EXTENDS People, WellFoundedInduction, TLAPS

HasKey(e, k) == /\ k # None
                /\ \/ k = accountKey(e) \/ k = acctNameKey(e)
                   \/ k = phoneKey(e) \/ k = emailKey(e)

(* The index of the keys: each leads to a person that has it, every        *)
(* observation is led to by the keys it has recorded, and by its name if   *)
(* that merges.                                                            *)
Homes == /\ home \in [seen -> seen]
         /\ \A e \in seen : home[home[e]] = home[e]
         /\ None \notin seen
Owned == \A k \in DOMAIN by :
            /\ by[k] \in seen
            /\ \E e \in seen : (HasKey(e, k) \/ (e.name # None /\ k = nameKey(e)))
                               /\ home[e] = home[by[k]]
Leads == \A e \in seen : \A k \in Recorded(e) : k \in DOMAIN by /\ home[by[k]] = home[e]
LeadsByName == \A e \in seen : e.name # None =>
                  /\ nameKey(e) \in DOMAIN by
                  /\ AllowNameMerge(e.name) => home[by[nameKey(e)]] = home[e]

Closed(S, T) == \A e \in S, f \in T \ S : ~Linked(e, f)
Apart == \A S \in SUBSET seen :
            Closed(S, seen) => \A e \in S, f \in seen \ S : home[e] # home[f]

ComponentsInv == Homes /\ Owned /\ Leads /\ LeadsByName /\ Apart

-----------------------------------------------------------------------------
(* Keys. *)

LEMMA Fields ==
    ASSUME NEW e \in Observations
    PROVE  /\ e.acct \in Accounts /\ e.user \in Maybe(Users) /\ e.name \in Maybe(Names)
           /\ e.phone \in Maybe(Phones) /\ e.email \in Maybe(Emails)
<1>1. CASE e \in Participants
  BY <1>1, PeopleAssumption DEF Participants, Maybe
<1>2. CASE e \in Titles
  BY <1>2, PeopleAssumption DEF Titles, Maybe
<1>3. CASE e \in Contacts
  BY <1>3 DEF Contacts, Maybe
<1> QED
  BY <1>1, <1>2, <1>3 DEF Observations

LEMMA KeysAreKeys ==
    ASSUME NEW e \in Observations
    PROVE  /\ e.user # None => accountKey(e) = <<"account", e.acct, e.user>> /\ accountKey(e) # None
           /\ e.name # None => acctNameKey(e) = <<"acctName", e.acct, e.name>> /\ acctNameKey(e) # None
           /\ e.phone # None => phoneKey(e) = <<"phone", e.phone>> /\ phoneKey(e) # None
           /\ e.email # None => emailKey(e) = <<"email", e.email>> /\ emailKey(e) # None
           /\ e.name # None => nameKey(e) = <<"name", e.name>> /\ nameKey(e) # None
<1>1. \A k \in Keys : k # None
  BY NoneAssumption
<1>2. e.user # None => <<"account", e.acct, e.user>> \in Keys
  BY Fields DEF Keys, Maybe
<1>3. e.name # None => <<"acctName", e.acct, e.name>> \in Keys /\ <<"name", e.name>> \in Keys
  BY Fields DEF Keys, Maybe
<1>4. e.phone # None => <<"phone", e.phone>> \in Keys
  BY Fields DEF Keys, Maybe
<1>5. e.email # None => <<"email", e.email>> \in Keys
  BY Fields DEF Keys, Maybe
<1> QED
  BY <1>1, <1>2, <1>3, <1>4, <1>5 DEF accountKey, acctNameKey, phoneKey, emailKey, nameKey

LEMMA KeyCases ==
    ASSUME NEW e, NEW k, HasKey(e, k)
    PROVE  \/ e.user # None /\ k = <<"account", e.acct, e.user>>
           \/ e.name # None /\ k = <<"acctName", e.acct, e.name>>
           \/ e.phone # None /\ k = <<"phone", e.phone>>
           \/ e.email # None /\ k = <<"email", e.email>>
BY DEF HasKey, accountKey, acctNameKey, phoneKey, emailKey

(* A key that two observations share links them. *)
LEMMA SharedKey ==
    ASSUME NEW e, NEW f, NEW k, HasKey(e, k), HasKey(f, k)
    PROVE  Linked(e, f)
<1>1. \/ e.user # None /\ k = <<"account", e.acct, e.user>>
      \/ e.name # None /\ k = <<"acctName", e.acct, e.name>>
      \/ e.phone # None /\ k = <<"phone", e.phone>>
      \/ e.email # None /\ k = <<"email", e.email>>
  BY KeyCases
<1>2. \/ f.user # None /\ k = <<"account", f.acct, f.user>>
      \/ f.name # None /\ k = <<"acctName", f.acct, f.name>>
      \/ f.phone # None /\ k = <<"phone", f.phone>>
      \/ f.email # None /\ k = <<"email", f.email>>
  BY KeyCases
<1> QED
  BY <1>1, <1>2 DEF Linked, SameUser, SameName, SameNumber, SameAddress

(* An observation records all its keys, but for a misread user ID.         *)
LEMMA RecordedKeys ==
    ASSUME NEW e \in Observations
    PROVE  /\ e.user # None /\ ~Misread(e) => accountKey(e) \in Recorded(e)
           /\ e.name # None => acctNameKey(e) \in Recorded(e)
           /\ e.phone # None => phoneKey(e) \in Recorded(e)
           /\ e.email # None => emailKey(e) \in Recorded(e)
<1>1. ToSet(KeyList(e)) = {accountKey(e), acctNameKey(e), phoneKey(e), emailKey(e)}
  BY DEF ToSet, KeyList
<1>2. Misread(e) => accountKey(e) = <<"account", e.acct, e.user>>
  BY DEF Misread, accountKey
<1>3. /\ e.name # None => <<"account", e.acct, e.user>> # <<"acctName", e.acct, e.name>>
      /\ <<"account", e.acct, e.user>> # <<"phone", e.phone>>
      /\ <<"account", e.acct, e.user>> # <<"email", e.email>>
  OBVIOUS
<1> QED
  BY <1>1, <1>2, <1>3, KeysAreKeys DEF Recorded

LEMMA RecordedAreKeys ==
    ASSUME NEW e
    PROVE  \A k \in Recorded(e) : HasKey(e, k)
<1>1. ToSet(KeyList(e)) = {accountKey(e), acctNameKey(e), phoneKey(e), emailKey(e)}
  BY DEF ToSet, KeyList
<1> QED
  BY <1>1 DEF Recorded, HasKey

(* Observations that are joined have recorded one key, or share a name     *)
(* that merges.                                                            *)
LEMMA JoinIsRecorded ==
    ASSUME NEW e \in Observations, NEW f \in Observations, Joined(e, f)
    PROVE  \/ \E k : k \in Recorded(e) /\ k \in Recorded(f)
           \/ e.name = f.name /\ e.name # None /\ AllowNameMerge(e.name)
<1>1. CASE SameUser(e, f) /\ ~Misread(e) /\ ~Misread(f)
  <2>1. /\ accountKey(e) = accountKey(f)
        /\ accountKey(e) \in Recorded(e) /\ accountKey(f) \in Recorded(f)
    BY <1>1, RecordedKeys DEF SameUser, accountKey
  <2> QED
    BY <2>1
<1>2. CASE SameNumber(e, f)
  <2>1. phoneKey(e) = phoneKey(f) /\ phoneKey(e) \in Recorded(e) /\ phoneKey(f) \in Recorded(f)
    BY <1>2, RecordedKeys DEF SameNumber, phoneKey
  <2> QED
    BY <2>1
<1>3. CASE SameAddress(e, f)
  <2>1. emailKey(e) = emailKey(f) /\ emailKey(e) \in Recorded(e) /\ emailKey(f) \in Recorded(f)
    BY <1>3, RecordedKeys DEF SameAddress, emailKey
  <2> QED
    BY <2>1
<1>4. CASE SameName(e, f) /\ e.acct = f.acct
  <2>1. /\ acctNameKey(e) = acctNameKey(f)
        /\ acctNameKey(e) \in Recorded(e) /\ acctNameKey(f) \in Recorded(f)
    BY <1>4, RecordedKeys DEF SameName, acctNameKey
  <2> QED
    BY <2>1
<1>5. CASE SameUser(e, f) /\ Misread(e) /\ Misread(f)
  BY <1>4, <1>5 DEF SameUser, SameName, Misread
<1> QED
  BY <1>1, <1>2, <1>3, <1>4, <1>5 DEF Joined, SameName

LEMMA LinkIsSymmetric ==
    ASSUME NEW e, NEW f, Linked(e, f)
    PROVE  Linked(f, e)
BY DEF Linked, SameUser, SameName, SameNumber, SameAddress

-----------------------------------------------------------------------------
(* The people an observation is considered to be. *)

(* Those of the index that its keys lead to, and those its name does.      *)
Reached(e) == {Considered(e)[i] : i \in 1..5} \ {None}

LEMMA ConsideredIs ==
    ASSUME NEW e
    PROVE  /\ Considered(e)[1] = Known(accountKey(e)) /\ Considered(e)[2] = Known(acctNameKey(e))
           /\ Considered(e)[3] = Known(phoneKey(e)) /\ Considered(e)[4] = Known(emailKey(e))
           /\ Considered(e)[5] = IF Stranger(e) /\ AllowNameMerge(e.name) THEN Known(nameKey(e))
                                 ELSE None
           /\ Stranger(e) <=> /\ Known(nameKey(e)) # None
                              /\ Considered(e)[1] # Known(nameKey(e))
                              /\ Considered(e)[2] # Known(nameKey(e))
                              /\ Considered(e)[3] # Known(nameKey(e))
                              /\ Considered(e)[4] # Known(nameKey(e))
<1>1. /\ KeyList(e)[1] = accountKey(e) /\ KeyList(e)[2] = acctNameKey(e)
      /\ KeyList(e)[3] = phoneKey(e) /\ KeyList(e)[4] = emailKey(e)
  BY DEF KeyList
<1>2. \A i \in 1..4 : Considered(e)[i] = Known(KeyList(e)[i])
  BY DEF Considered
<1>3. Considered(e)[5] = IF Stranger(e) /\ AllowNameMerge(e.name) THEN Known(nameKey(e)) ELSE None
  BY DEF Considered
<1>4. 1..4 = {1, 2, 3, 4}
  OBVIOUS
<1> QED
  BY <1>1, <1>2, <1>3, <1>4 DEF Stranger

LEMMA KeysOfByAreKeys ==
    ASSUME Owned, NEW e, NEW k \in DOMAIN by
    PROVE  /\ by[k] \in seen
           /\ HasKey(e, k) => \E w \in seen : HasKey(w, k) /\ home[w] = home[by[k]]
           /\ e.name # None /\ k = nameKey(e) =>
                 \E w \in seen : w.name = e.name /\ home[w] = home[by[k]]
<1>1. PICK w \in seen : /\ HasKey(w, k) \/ (w.name # None /\ k = nameKey(w))
                        /\ home[w] = home[by[k]]
  BY DEF Owned
<1>2. HasKey(e, k) => HasKey(w, k)
  BY <1>1, KeyCases DEF nameKey
<1>3. e.name # None /\ k = nameKey(e) => w.name = e.name
  <2>1. e.name # None /\ k = nameKey(e) => ~HasKey(w, k)
    BY KeyCases DEF nameKey
  <2> QED
    BY <1>1, <2>1 DEF nameKey
<1> QED
  BY <1>1, <1>2, <1>3 DEF Owned

LEMMA ReachedFacts ==
    ASSUME Homes, Owned, seen \subseteq Observations, NEW e \in Observations
    PROVE  /\ \A k : HasKey(e, k) /\ k \in DOMAIN by => home[by[k]] \in Reached(e)
           /\ e.name # None /\ nameKey(e) \in DOMAIN by /\ AllowNameMerge(e.name)
                 => home[by[nameKey(e)]] \in Reached(e)
           /\ \A r \in Reached(e) : r \in seen /\ \E w \in seen : Linked(e, w) /\ home[w] = r
<1> DEFINE c == Considered(e)
<1>0. 1..5 = {1, 2, 3, 4, 5}
  OBVIOUS
<1>1. Reached(e) = {c[1], c[2], c[3], c[4], c[5]} \ {None}
  BY <1>0 DEF Reached
<1>2. \A k \in DOMAIN by : Known(k) = home[by[k]] /\ home[by[k]] \in seen /\ Known(k) # None
  BY DEF Known, Homes, Owned
<1>3. ASSUME NEW k, HasKey(e, k), k \in DOMAIN by PROVE home[by[k]] \in Reached(e)
  <2>1. c[1] = Known(k) \/ c[2] = Known(k) \/ c[3] = Known(k) \/ c[4] = Known(k)
    BY <1>3, ConsideredIs DEF HasKey
  <2> QED
    BY <1>1, <1>2, <1>3, <2>1
<1>4. ASSUME e.name # None, nameKey(e) \in DOMAIN by, AllowNameMerge(e.name)
      PROVE  home[by[nameKey(e)]] \in Reached(e)
  <2>1. Known(nameKey(e)) \in {c[1], c[2], c[3], c[4], c[5]}
    BY <1>2, <1>4, ConsideredIs
  <2> QED
    BY <1>1, <1>2, <1>4, <2>1
<1>5. ASSUME NEW r \in Reached(e) PROVE r \in seen /\ \E w \in seen : Linked(e, w) /\ home[w] = r
  <2>1. ASSUME NEW k, r = Known(k), k \in {accountKey(e), acctNameKey(e), phoneKey(e), emailKey(e)}
        PROVE  r \in seen /\ \E w \in seen : Linked(e, w) /\ home[w] = r
    <3>1. k \in DOMAIN by
      BY <1>1, <2>1 DEF Known
    <3>2. k # None
      <4>1. PICK w \in seen : HasKey(w, k) \/ (w.name # None /\ k = nameKey(w))
        BY <3>1 DEF Owned
      <4> QED
        BY <4>1, KeysAreKeys DEF HasKey
    <3>3. HasKey(e, k)
      BY <2>1, <3>2 DEF HasKey
    <3>4. PICK w \in seen : HasKey(w, k) /\ home[w] = home[by[k]]
      BY <3>1, <3>3, KeysOfByAreKeys
    <3> QED
      BY <1>2, <2>1, <3>1, <3>3, <3>4, SharedKey
  <2>2. ASSUME r = c[5], c[5] # None PROVE r \in seen /\ \E w \in seen : Linked(e, w) /\ home[w] = r
    <3>1. r = Known(nameKey(e)) /\ AllowNameMerge(e.name)
      BY <2>2, ConsideredIs
    <3>2. nameKey(e) \in DOMAIN by
      BY <2>2, <3>1 DEF Known
    <3>3. e.name # None
      BY <3>1, PeopleAssumption DEF AllowNameMerge
    <3>4. PICK w \in seen : w.name = e.name /\ home[w] = home[by[nameKey(e)]]
      BY <3>2, <3>3, KeysOfByAreKeys
    <3>5. Linked(e, w)
      BY <3>1, <3>3, <3>4 DEF Linked, SameName
    <3> QED
      BY <1>2, <3>1, <3>2, <3>4, <3>5
  <2> QED
    BY <1>1, <1>5, <2>1, <2>2, ConsideredIs
<1> QED
  BY <1>3, <1>4, <1>5

(* The person that takes the observation in is one of them, or a new one.  *)
LEMMA FirstIs ==
    ASSUME NEW e
    PROVE  LET dst == First(e, Considered(e))
           IN  (Reached(e) = {} /\ dst = e) \/ dst \in Reached(e)
<1> DEFINE people == Considered(e)
           found == {i \in 1..5 : people[i] # None}
<1>1. CASE found = {}
  BY <1>1 DEF First, Reached
<1>2. CASE found # {}
  <2>1. \E i \in found : \A j \in found : i <= j
    BY <1>2
  <2>2. (CHOOSE i \in found : \A j \in found : i <= j) \in found
    BY <2>1
  <2> QED
    BY <1>2, <2>2 DEF First, Reached
<1> QED
  BY <1>1, <1>2

-----------------------------------------------------------------------------
(* One observation. *)

(* Everybody it reaches becomes one person. *)
LEMMA HomeStep ==
    ASSUME Homes, Owned, seen \subseteq Observations, NEW e \in Observations, Add(e)
    PROVE  LET dst == First(e, Considered(e))
           IN  /\ home' = [x \in seen \cup {e} |->
                              IF x = e \/ home[x] \in Reached(e) THEN dst ELSE home[x]]
               /\ seen' = seen \cup {e} /\ e \notin seen
               /\ dst \in seen \cup {e}
               /\ (Reached(e) = {} /\ dst = e) \/ (dst \in Reached(e) /\ home[dst] = dst)
               /\ home'[dst] = dst
<1> DEFINE dst == First(e, Considered(e))
           people == Considered(e)
<1>1. (Reached(e) = {} /\ dst = e) \/ (dst \in Reached(e) /\ dst \in seen /\ home[dst] = dst)
  BY FirstIs, ReachedFacts DEF Homes
<1>2. seen' = seen \cup {e} /\ e \notin seen
      /\ home' = [x \in seen \cup {e} |->
                    IF x = e \/ home[x] \in Others(dst, people) THEN dst ELSE home[x]]
  BY DEF Add
<1>3. Others(dst, people) = Reached(e) \ {dst}
  BY DEF Others, Reached
<1> HIDE DEF dst, people
<1>4. \A x \in seen : (IF home[x] \in Reached(e) \ {dst} THEN dst ELSE home[x])
                     = (IF home[x] \in Reached(e) THEN dst ELSE home[x])
  BY <1>1
<1>5. home' = [x \in seen \cup {e} |-> IF x = e \/ home[x] \in Reached(e) THEN dst ELSE home[x]]
  BY <1>2, <1>3, <1>4
<1> QED
  BY <1>1, <1>2, <1>5 DEF dst

(* The index, whatever its user IDs read like: the people in it are those  *)
(* that survive, and every name leads to somebody who bears it.            *)
Named == \A e \in seen : e.name # None => nameKey(e) \in DOMAIN by

IndexInv == /\ Homes /\ Owned /\ Named /\ seen \subseteq Observations
            /\ DOMAIN person = {home[x] : x \in seen}

LEMMA KeysOfAdd ==
    ASSUME NEW e \in Observations, Add(e)
    PROVE  LET dst == First(e, Considered(e))
           IN  /\ \A k \in DOMAIN by : k \in DOMAIN by' /\ (by'[k] = by[k] \/ (by'[k] = dst /\ HasKey(e, k)))
               /\ \A k \in DOMAIN by' \ DOMAIN by :
                     by'[k] = dst /\ (HasKey(e, k) \/ (e.name # None /\ k = nameKey(e)))
               /\ e.name # None => nameKey(e) \in DOMAIN by'
<1> DEFINE dst == First(e, Considered(e))
           N == NewKeys(e)
<1>1. by' = [k \in DOMAIN by \cup N |-> IF k \in N THEN dst ELSE by[k]]
  BY DEF Add
<1>2. \A k : k \in N <=> k \in Recorded(e) \/ (e.name # None /\ k = nameKey(e) /\ k \notin DOMAIN by)
  BY DEF NewKeys
<1>4. \A k \in Recorded(e) : HasKey(e, k)
  BY RecordedAreKeys
<1> HIDE DEF dst, N
<1>5. /\ DOMAIN by' = DOMAIN by \cup N
      /\ \A k \in N : by'[k] = dst
      /\ \A k \in DOMAIN by \ N : by'[k] = by[k]
  BY <1>1
<1>6. \A k \in N : HasKey(e, k) \/ (e.name # None /\ k = nameKey(e) /\ k \notin DOMAIN by)
  BY <1>2, <1>4
<1>7. e.name # None => nameKey(e) \in DOMAIN by \cup N
  BY <1>2
<1> QED
  BY <1>5, <1>6, <1>7 DEF dst

LEMMA IndexStep ==
    ASSUME IndexInv, NEW e \in Observations, Add(e)
    PROVE  IndexInv'
<1> DEFINE dst == First(e, Considered(e))
           R == Reached(e)
<1>h. Homes /\ Owned /\ Named /\ seen \subseteq Observations /\ DOMAIN person = {home[x] : x \in seen}
  BY DEF IndexInv
<1>1. /\ home' = [x \in seen \cup {e} |-> IF x = e \/ home[x] \in R THEN dst ELSE home[x]]
      /\ seen' = seen \cup {e} /\ e \notin seen /\ dst \in seen \cup {e}
      /\ (R = {} /\ dst = e) \/ (dst \in R /\ home[dst] = dst)
      /\ home'[dst] = dst
  BY <1>h, HomeStep
<1>2. /\ \A k \in DOMAIN by : k \in DOMAIN by' /\ (by'[k] = by[k] \/ (by'[k] = dst /\ HasKey(e, k)))
      /\ \A k \in DOMAIN by' \ DOMAIN by :
            by'[k] = dst /\ (HasKey(e, k) \/ (e.name # None /\ k = nameKey(e)))
      /\ e.name # None => nameKey(e) \in DOMAIN by'
  BY KeysOfAdd
<1>3. DOMAIN person' = (DOMAIN person \cup {dst}) \ (R \ {dst})
  <2>1. Others(dst, Considered(e)) = R \ {dst}
    BY DEF Others, Reached
  <2>2. DOMAIN person' = (DOMAIN person \cup {dst}) \ Others(dst, Considered(e))
    BY DEF Add
  <2> QED
    BY <2>1, <2>2
<1> HIDE DEF dst, R
<1>4. Homes'
  <2>1. home \in [seen -> seen] /\ \A x \in seen : home[x] \in seen /\ home[home[x]] = home[x]
    BY <1>h DEF Homes
  <2>2. home' \in [seen' -> seen']
    BY <1>1, <2>1
  <2>3. ASSUME NEW x \in seen' PROVE home'[home'[x]] = home'[x]
    <3>1. CASE home'[x] = dst
      BY <1>1, <3>1
    <3>2. CASE home'[x] # dst
      BY <1>1, <2>1, <3>2
    <3> QED
      BY <3>1, <3>2
  <2>4. None \notin seen'
    BY <1>1, <1>h, NoneAssumption DEF Homes
  <2> QED
    BY <2>2, <2>3, <2>4 DEF Homes
<1>5. \A x \in seen : /\ home'[x] = IF home[x] \in R THEN dst ELSE home[x]
                     /\ \A y \in seen : home[x] = home[y] => home'[x] = home'[y]
  BY <1>1
<1>e. home'[e] = dst
  BY <1>1
<1>6. Owned'
  <2> SUFFICES ASSUME NEW k \in DOMAIN by'
               PROVE  /\ by'[k] \in seen'
                      /\ \E x \in seen' : (HasKey(x, k) \/ (x.name # None /\ k = nameKey(x)))
                                         /\ home'[x] = home'[by'[k]]
    BY DEF Owned
  <2>1. CASE by'[k] = dst /\ (HasKey(e, k) \/ (e.name # None /\ k = nameKey(e)))
    BY <1>1, <1>e, <2>1
  <2>2. CASE k \in DOMAIN by /\ by'[k] = by[k]
    BY <1>1, <1>5, <1>h, <2>2 DEF Owned
  <2> QED
    BY <1>2, <2>1, <2>2
<1>7. Named'
  BY <1>1, <1>2, <1>h DEF Named
<1>8. DOMAIN person' = {home'[x] : x \in seen'}
  <2>1. ASSUME NEW r PROVE r \in DOMAIN person' <=> \E x \in seen' : home'[x] = r
    <3>1. CASE r = dst
      BY <1>1, <1>3, <1>e, <3>1
    <3>2. CASE r # dst
      <4>1. r \in DOMAIN person' <=> (\E x \in seen : home[x] = r) /\ r \notin R
        BY <1>3, <1>h, <3>2
      <4>2. (\E x \in seen' : home'[x] = r) <=> \E x \in seen : home[x] = r /\ r \notin R
        BY <1>1, <1>5, <1>e, <3>2
      <4> QED
        BY <4>1, <4>2
    <3> QED
      BY <3>1, <3>2
  <2> QED
    BY <2>1
<1>9. seen' \subseteq Observations
  BY <1>1, <1>h
<1> QED
  BY <1>4, <1>6, <1>7, <1>8, <1>9 DEF IndexInv

LEMMA AddComponents ==
    ASSUME ComponentsInv, IndexInv, NEW e \in Observations, Add(e)
    PROVE  ComponentsInv'
<1> DEFINE dst == First(e, Considered(e))
           R == Reached(e)
<1>h. Homes /\ Owned /\ Leads /\ LeadsByName /\ Apart /\ seen \subseteq Observations
  BY DEF ComponentsInv, IndexInv
<1>1. /\ home' = [x \in seen \cup {e} |-> IF x = e \/ home[x] \in R THEN dst ELSE home[x]]
      /\ seen' = seen \cup {e} /\ e \notin seen /\ dst \in seen \cup {e}
      /\ (R = {} /\ dst = e) \/ (dst \in R /\ home[dst] = dst)
      /\ home'[dst] = dst
  BY <1>h, HomeStep
<1>2. /\ \A k \in DOMAIN by : k \in DOMAIN by' /\ (by'[k] = by[k] \/ (by'[k] = dst /\ HasKey(e, k)))
      /\ \A k \in DOMAIN by' \ DOMAIN by : by'[k] = dst
      /\ e.name # None => nameKey(e) \in DOMAIN by'
  BY KeysOfAdd
<1>r. \A k \in Recorded(e) : k \in DOMAIN by' /\ by'[k] = dst
  BY DEF Add, NewKeys
<1>3. /\ \A k : HasKey(e, k) /\ k \in DOMAIN by => home[by[k]] \in R
      /\ e.name # None /\ nameKey(e) \in DOMAIN by /\ AllowNameMerge(e.name)
            => home[by[nameKey(e)]] \in R
      /\ \A r \in R : r \in seen /\ \E w \in seen : Linked(e, w) /\ home[w] = r
  BY <1>h, ReachedFacts
<1>v. verdict' = verdict
  BY DEF Add
<1> HIDE DEF dst, R
<1>4. Homes' /\ Owned'
  BY IndexStep DEF IndexInv
<1>5. \A x \in seen : /\ home'[x] = IF home[x] \in R THEN dst ELSE home[x]
                     /\ \A y \in seen : home[x] = home[y] => home'[x] = home'[y]
  BY <1>1
<1>e. home'[e] = dst
  BY <1>1
<1>7. Leads'
  <2> SUFFICES ASSUME NEW x \in seen', NEW k \in Recorded(x)
               PROVE  k \in DOMAIN by' /\ home'[by'[k]] = home'[x]
    BY DEF Leads
  <2>1. CASE x = e
    BY <1>1, <1>r, <1>e, <2>1
  <2>2. CASE x # e
    <3>1. x \in seen /\ k \in DOMAIN by /\ home[by[k]] = home[x] /\ by[k] \in seen
      BY <1>1, <1>h, <2>2 DEF Leads, Owned
    <3>2. CASE by'[k] = by[k]
      BY <1>2, <1>5, <3>1, <3>2
    <3>3. CASE by'[k] = dst /\ HasKey(e, k)
      BY <1>1, <1>2, <1>3, <1>5, <3>1, <3>3
    <3> QED
      BY <1>2, <3>1, <3>2, <3>3
  <2> QED
    BY <2>1, <2>2
<1>8. LeadsByName'
  <2> SUFFICES ASSUME NEW x \in seen', x.name # None
               PROVE  /\ nameKey(x) \in DOMAIN by'
                      /\ AllowNameMerge(x.name) => home'[by'[nameKey(x)]] = home'[x]
    BY <1>v DEF LeadsByName, AllowNameMerge
  <2>0. ~HasKey(e, nameKey(x))
    BY KeyCases DEF nameKey
  <2>1. CASE x = e
    <3>1. nameKey(e) \in DOMAIN by' /\ by'[nameKey(e)] = IF nameKey(e) \in DOMAIN by THEN by[nameKey(e)] ELSE dst
      BY <1>2, <2>0, <2>1
    <3>2. nameKey(e) \in DOMAIN by => by[nameKey(e)] \in seen
      BY <1>h DEF Owned
    <3> QED
      BY <1>1, <1>3, <1>5, <1>e, <2>1, <3>1, <3>2
  <2>2. CASE x # e
    <3>1. x \in seen /\ nameKey(x) \in DOMAIN by /\ by[nameKey(x)] \in seen
          /\ (AllowNameMerge(x.name) => home[by[nameKey(x)]] = home[x])
      BY <1>1, <1>h, <2>2 DEF LeadsByName, Owned
    <3>2. nameKey(x) \in DOMAIN by' /\ by'[nameKey(x)] = by[nameKey(x)]
      BY <1>2, <2>0, <3>1
    <3> QED
      BY <1>5, <3>1, <3>2
  <2> QED
    BY <2>1, <2>2
<1>9. Apart'
  <2> SUFFICES ASSUME NEW S \in SUBSET seen', Closed(S, seen'), NEW f \in S, NEW g \in seen' \ S
               PROVE  home'[f] # home'[g]
    BY <1>v DEF Apart, Closed, Linked, SameUser, SameName, SameNumber, SameAddress, AllowNameMerge
  <2> DEFINE T == S \cap seen
  <2>1. Closed(T, seen)
    BY <1>1 DEF Closed
  <2>2. \A x \in T, y \in seen \ T : home[x] # home[y]
    BY <1>h, <2>1 DEF Apart
  <2>3. ASSUME NEW x \in seen, home[x] \in R PROVE x \in S <=> e \in S
    <3>1. PICK w \in seen : Linked(e, w) /\ home[w] = home[x]
      BY <1>3, <2>3
    <3>2. w \in S <=> e \in S
      BY <1>1, <3>1, LinkIsSymmetric DEF Closed
    <3>3. x \in S <=> w \in S
      BY <2>2, <3>1
    <3> QED
      BY <3>2, <3>3
  <2>4. \A x \in seen' : home'[x] = dst <=> x = e \/ home[x] \in R
    <3>1. ASSUME NEW x \in seen, home[x] = dst PROVE home[x] \in R
      BY <1>1, <1>h, <3>1 DEF Homes
    <3> QED
      BY <1>1, <1>5, <1>e, <3>1
  <2>5. CASE home'[f] = dst \/ home'[g] = dst
    BY <1>1, <2>3, <2>4, <2>5
  <2>6. CASE home'[f] # dst /\ home'[g] # dst
    BY <1>1, <1>5, <1>e, <2>2, <2>6
  <2> QED
    BY <2>5, <2>6
<1> QED
  BY <1>4, <1>7, <1>8, <1>9 DEF ComponentsInv

-----------------------------------------------------------------------------
LEMMA ComponentsInvariance == Spec => [](ComponentsInv /\ IndexInv)
<1> DEFINE I == ComponentsInv /\ IndexInv
<1>1. Init => I
  BY DEF Init, ComponentsInv, IndexInv, Homes, Owned, Named, Leads, LeadsByName, Apart
<1>2. I /\ [Next]_vars => I'
  <2> SUFFICES ASSUME I, [Next]_vars PROVE I'
    OBVIOUS
  <2>1. CASE Next
    <3>1. PICK e \in Observations : Add(e)
      BY <2>1 DEF Next
    <3> QED
      BY <3>1, AddComponents, IndexStep
  <2>2. CASE UNCHANGED vars
    BY <2>2 DEF vars, ComponentsInv, IndexInv, Homes, Owned, Named, Leads, LeadsByName, Apart, Closed, Linked,
                SameUser, SameName, SameNumber, SameAddress, AllowNameMerge
  <2> QED
    BY <2>1, <2>2
<1> QED
  BY <1>1, <1>2, PTL DEF Spec

(* In whatever order the observations came and whatever the user IDs read  *)
(* like, the people of the index are their connected components, but for   *)
(* links by a user ID that was misread once (identity.go:135-202).         *)
THEOREM Components == Spec => []PeopleAreComponents
<1>1. ComponentsInv /\ IndexInv => PeopleAreComponents
  <2> SUFFICES ASSUME ComponentsInv, seen \subseteq Observations PROVE PeopleAreComponents
    BY DEF IndexInv
  <2>1. ASSUME NEW e \in seen, NEW f \in seen, Joined(e, f) PROVE home[e] = home[f]
    <3>1. CASE \E k : k \in Recorded(e) /\ k \in Recorded(f)
      BY <3>1 DEF ComponentsInv, Leads
    <3>2. CASE e.name = f.name /\ e.name # None /\ AllowNameMerge(e.name)
      <4>1. nameKey(e) = nameKey(f)
        BY <3>2 DEF nameKey
      <4> QED
        BY <3>2, <4>1 DEF ComponentsInv, LeadsByName
    <3> QED
      BY <2>1, <3>1, <3>2, JoinIsRecorded
  <2> QED
    BY <2>1 DEF PeopleAreComponents, ComponentsInv, Apart, Closed
<1> QED
  BY <1>1, ComponentsInvariance, PTL

-----------------------------------------------------------------------------
(* Folding people together. *)

(* Whoever folds the other, the display name is one of theirs, a real one  *)
(* if there is any, and all their other names are kept.                    *)
LEMMA NamesFold ==
    ASSUME NEW p, NEW q,
           p.name \notin p.alts, None \notin p.alts, None \notin q.alts,
           p.name = None => p.alts = {}, q.name = None => q.alts = {},
           p.name \in Handles => p.alts \subseteq Handles
    PROVE  LET n == Shown(p, q)
               alts == OtherNames(p, q)
           IN  /\ ({n} \ {None}) \cup alts = Bears(p) \cup Bears(q)
               /\ n \notin alts /\ None \notin alts
               /\ n = None => Bears(p) \cup Bears(q) = {}
               /\ n \in Handles => Bears(p) \cup Bears(q) \subseteq Handles
<1> DEFINE real == ({q.name} \cup q.alts) \ (Handles \cup {None})
           n == Shown(p, q)
<1>1. real # {} => (CHOOSE m \in real : TRUE) \in real
  OBVIOUS
<1>2. CASE p.name \in Handles \cup {None} /\ real # {}
  <2>1. n \in real
    BY <1>1, <1>2 DEF Shown
  <2> HIDE DEF n
  <2>2. n \notin p.alts /\ n # p.name /\ n # None /\ n \notin Handles
    BY <1>2, <2>1
  <2>3. OtherNames(p, q) = p.alts \cup (({p.name, q.name} \cup q.alts) \ {n, None})
    BY DEF OtherNames, n
  <2>4. n = q.name \/ n \in q.alts
    BY <2>1
  <2> QED
    BY <2>2, <2>3, <2>4 DEF Bears, n
<1>3. CASE ~(p.name \in Handles \cup {None} /\ real # {})
  <2>1. n = IF p.name = None THEN q.name ELSE p.name
    BY <1>3 DEF Shown
  <2> HIDE DEF n
  <2>2. n \notin p.alts
    BY <2>1
  <2>3. OtherNames(p, q) = p.alts \cup (({p.name, q.name} \cup q.alts) \ {n, None})
    BY DEF OtherNames, n
  <2>4. n = None => p.name = None /\ q.name = None
    BY <2>1
  <2>5. n \in Handles => Bears(p) \cup Bears(q) \subseteq Handles
    <3>1. CASE p.name \in Handles \cup {None}
      BY <1>3, <3>1 DEF Bears
    <3>2. CASE p.name \notin Handles \cup {None}
      BY <2>1, <3>2
    <3> QED
      BY <3>1, <3>2
  <2> QED
    BY <2>1, <2>2, <2>3, <2>4, <2>5 DEF Bears, n
<1> QED
  BY <1>2, <1>3

(* The accounts of two people together: one without a user is kept only    *)
(* where neither has a user on that account.                               *)
AccountsOf(C) == {<<e.acct, e.user>> : e \in C}
                 \ {<<e.acct, None>> : e \in {f \in C : f.user # None}}

LEMMA AccountsIn ==
    ASSUME NEW C, NEW x
    PROVE  x \in AccountsOf(C)
           <=> /\ \E e \in C : x = <<e.acct, e.user>>
               /\ ~ \E e \in C : e.user # None /\ x = <<e.acct, None>>
BY DEF AccountsOf

LEMMA AccountsFold ==
    ASSUME NEW C, NEW D
    PROVE  AddAccounts(AccountsOf(C), AccountsOf(D)) = AccountsOf(C \cup D)
<1> DEFINE A == AccountsOf(C)
           B == AccountsOf(D)
           upgraded == (A \ {<<x[1], None>> : x \in {z \in B : z[2] # None}})
                       \cup {z \in B : z[2] # None}
<1>1. AddAccounts(A, B) = upgraded \cup {x \in B : x[2] = None /\ \A y \in upgraded : y[1] # x[1]}
  BY DEF AddAccounts
<1>2. /\ \A x : x \in A <=> /\ \E e \in C : x = <<e.acct, e.user>>
                            /\ ~ \E e \in C : e.user # None /\ x = <<e.acct, None>>
      /\ \A x : x \in B <=> /\ \E e \in D : x = <<e.acct, e.user>>
                            /\ ~ \E e \in D : e.user # None /\ x = <<e.acct, None>>
  BY AccountsIn
<1>3. \A x : x \in AccountsOf(C \cup D)
             <=> /\ (\E e \in C : x = <<e.acct, e.user>>) \/ (\E e \in D : x = <<e.acct, e.user>>)
                 /\ ~ \E e \in C : e.user # None /\ x = <<e.acct, None>>
                 /\ ~ \E e \in D : e.user # None /\ x = <<e.acct, None>>
  BY AccountsIn
<1> HIDE DEF A, B
<1>4. \A x : x \in upgraded <=> \/ x \in B /\ x[2] # None
                                \/ x \in A /\ ~ \E z \in B : z[2] # None /\ x = <<z[1], None>>
  OBVIOUS
<1>5. \A a : (\E z \in B : z[2] # None /\ z[1] = a) <=> (\E e \in D : e.user # None /\ e.acct = a)
  <2>1. ASSUME NEW e \in D, e.user # None PROVE <<e.acct, e.user>> \in B
    BY <1>2, <2>1
  <2>2. ASSUME NEW z \in B, z[2] # None PROVE \E e \in D : e.user # None /\ e.acct = z[1]
    <3>1. PICK e \in D : z = <<e.acct, e.user>>
      BY <1>2
    <3> QED
      BY <2>2, <3>1
  <2>3. ASSUME NEW e \in D, e.user # None PROVE \E z \in B : z[2] # None /\ z[1] = e.acct
    BY <2>1, <2>3
  <2> QED
    BY <2>2, <2>3
<1>6. \A x : x \in upgraded <=>
         \/ x \in B /\ x[2] # None
         \/ x \in A /\ ~ \E e \in D : e.user # None /\ x = <<e.acct, None>>
  <2>1. \A x : (\E z \in B : z[2] # None /\ x = <<z[1], None>>)
               <=> (\E e \in D : e.user # None /\ x = <<e.acct, None>>)
    BY <1>5
  <2> QED
    BY <1>4, <2>1
<1> HIDE DEF upgraded
<1>7. ASSUME NEW x PROVE x \in AddAccounts(A, B) <=> x \in AccountsOf(C \cup D)
  <2>1. ASSUME x \in AccountsOf(C \cup D) PROVE x \in AddAccounts(A, B)
    <3>1. CASE \E e \in C : x = <<e.acct, e.user>>
      <4>1. x \in A
        BY <1>2, <1>3, <2>1, <3>1
      <4> QED
        BY <1>1, <1>3, <1>6, <2>1, <4>1
    <3>2. CASE \E e \in D : x = <<e.acct, e.user>>
      <4>1. x \in B
        BY <1>2, <1>3, <2>1, <3>2
      <4>2. CASE x[2] # None
        BY <1>1, <1>6, <4>1, <4>2
      <4>3. CASE x[2] = None
        <5>1. PICK e \in D : x = <<e.acct, None>>
          BY <3>2, <4>3
        <5>2. CASE \E y \in upgraded : y[1] = x[1]
          <6>1. PICK y \in upgraded : y[1] = x[1]
            BY <5>2
          <6>2. y \notin B \/ y[2] = None
            <7>1. SUFFICES ASSUME y \in B, y[2] # None PROVE FALSE
              OBVIOUS
            <7>2. \E d \in D : d.user # None /\ d.acct = x[1]
              BY <1>5, <6>1, <7>1
            <7> QED
              BY <1>3, <2>1, <5>1, <7>2
          <6>3. y \in A
            BY <1>6, <6>1, <6>2
          <6>4. PICK d \in C : y = <<d.acct, d.user>>
            BY <1>2, <6>3
          <6>5. d.user = None
            BY <1>3, <2>1, <5>1, <6>1, <6>4
          <6>6. y = x
            BY <5>1, <6>1, <6>4, <6>5
          <6> QED
            BY <1>1, <6>1, <6>6
        <5>3. CASE ~ \E y \in upgraded : y[1] = x[1]
          BY <1>1, <4>1, <4>3, <5>3
        <5> QED
          BY <5>2, <5>3
      <4> QED
        BY <4>2, <4>3
    <3> QED
      BY <1>3, <2>1, <3>1, <3>2
  <2>2. ASSUME x \in AddAccounts(A, B) PROVE x \in AccountsOf(C \cup D)
    <3>1. CASE x \in B /\ x[2] # None
      <4>1. \A e : x # <<e.acct, None>>
        BY <3>1
      <4> QED
        BY <1>2, <1>3, <3>1, <4>1
    <3>2. CASE x \in A /\ ~ \E e \in D : e.user # None /\ x = <<e.acct, None>>
      BY <1>2, <1>3, <3>2
    <3>3. CASE x \in B /\ x[2] = None /\ \A y \in upgraded : y[1] # x[1]
      <4>1. SUFFICES ASSUME NEW e \in C, e.user # None, x = <<e.acct, None>> PROVE FALSE
        BY <1>2, <1>3, <3>3
      <4>2. <<e.acct, e.user>> \in A
        BY <1>2, <4>1
      <4>3. <<e.acct, e.user>> \in upgraded
        BY <1>6, <4>1, <4>2
      <4> QED
        BY <3>3, <4>1, <4>3
    <3> QED
      BY <1>1, <1>6, <2>2, <3>1, <3>2, <3>3
  <2> QED
    BY <2>1, <2>2
<1> QED
  BY <1>7 DEF A, B
LEMMA EntryActive == \A e \in Observations : Active(e) \in Nat
<1> SUFFICES ASSUME NEW e \in Observations PROVE Active(e) \in Nat
  OBVIOUS
<1>1. e.chat \in Maybe(Chats)
  BY DEF Observations, Participants, Titles, Contacts, Maybe
<1> QED
  BY <1>1, PeopleAssumption DEF Active, Maybe
(* What a person gathers is what the people folded into it gathered.       *)
LEMMA EntryGathers ==
    ASSUME NEW e \in Observations
    PROVE  Gathers(Entry(e), {e}) /\ Entry(e).active \in Nat
<1> DEFINE p == Entry(e)
<1>1. /\ p.name = e.name /\ p.alts = {} /\ p.usernames = {e.username} \ {None}
      /\ p.phones = {e.phone} \ {None} /\ p.emails = {e.email} \ {None}
      /\ p.accounts = {<<e.acct, e.user>>} /\ p.chats = {e.chat} \ {None}
      /\ p.active = Active(e)
  BY DEF Entry
<1> HIDE DEF p
<1>2. Active(e) \in Nat
  BY EntryActive
<1>3. {<<e.acct, e.user>>} = {<<f.acct, f.user>> : f \in {e}}
                             \ {<<f.acct, None>> : f \in {g \in {e} : g.user # None}}
  <2>1. e.user # None => <<e.acct, e.user>> # <<e.acct, None>>
    OBVIOUS
  <2> QED
    BY <2>1
<1>4. Bears(p) = {f.name : f \in {e}} \ {None}
  BY <1>1 DEF Bears
<1>5. Gathers(p, {e})
  BY <1>1, <1>2, <1>3, <1>4 DEF Gathers
<1> QED
  BY <1>1, <1>2, <1>5 DEF p

LEMMA AbsorbGathers ==
    ASSUME NEW p, NEW q, NEW C, NEW D,
           Gathers(p, C), Gathers(q, D), p.active \in Nat, q.active \in Nat,
           \A e \in C \cup D : Active(e) \in Nat
    PROVE  Gathers(Absorb(p, q), C \cup D) /\ Absorb(p, q).active \in Nat
<1> DEFINE r == Absorb(p, q)
           given(S) == {e.name : e \in S} \ {None}
<1>1. /\ r.name = Shown(p, q) /\ r.alts = OtherNames(p, q)
      /\ r.usernames = p.usernames \cup q.usernames /\ r.phones = p.phones \cup q.phones
      /\ r.emails = p.emails \cup q.emails /\ r.accounts = AddAccounts(p.accounts, q.accounts)
      /\ r.chats = p.chats \cup q.chats /\ r.active = Latest(p.active, q.active)
  BY DEF Absorb
<1> HIDE DEF r
<1>2. /\ p.accounts = AccountsOf(C) /\ q.accounts = AccountsOf(D)
      /\ Bears(p) = given(C) /\ Bears(q) = given(D)
      /\ p.name \notin p.alts /\ q.name \notin q.alts
  BY DEF Gathers, AccountsOf
<1>3. /\ given(C) # {} => p.name # None
      /\ given(D) # {} => q.name # None
      /\ given(C) \ Handles # {} => p.name \notin Handles
  BY DEF Gathers
<1>4. given(C \cup D) = given(C) \cup given(D)
  OBVIOUS
<1> HIDE DEF given
<1>5. None \notin given(C) /\ None \notin given(D)
  BY DEF given
<1>6. /\ None \notin p.alts /\ None \notin q.alts
      /\ p.name = None => p.alts = {}
      /\ q.name = None => q.alts = {}
      /\ p.name \in Handles => p.alts \subseteq Handles
  BY <1>2, <1>3, <1>5 DEF Bears
<1>7. /\ Bears(r) = given(C \cup D) /\ r.name \notin r.alts
      /\ given(C \cup D) # {} => r.name # None
      /\ given(C \cup D) \ Handles # {} => r.name \notin Handles
  <2>1. /\ ({Shown(p, q)} \ {None}) \cup OtherNames(p, q) = Bears(p) \cup Bears(q)
        /\ Shown(p, q) \notin OtherNames(p, q)
        /\ Shown(p, q) = None => Bears(p) \cup Bears(q) = {}
        /\ Shown(p, q) \in Handles => Bears(p) \cup Bears(q) \subseteq Handles
    BY <1>2, <1>6, NamesFold
  <2>2. Bears(r) = Bears(p) \cup Bears(q)
    BY <1>1, <2>1 DEF Bears
  <2> QED
    BY <1>1, <1>2, <1>4, <2>1, <2>2
<1>8. r.accounts = AccountsOf(C \cup D)
  BY <1>1, <1>2, AccountsFold
<1>9. /\ r.active \in Nat /\ r.active >= p.active /\ r.active >= q.active
      /\ r.active = p.active \/ r.active = q.active
  BY <1>1 DEF Latest
<1>10. /\ \A e \in C \cup D : Active(e) <= r.active
       /\ r.active # 0 => \E e \in C \cup D : Active(e) = r.active
  <2>1. /\ \A e \in C : Active(e) <= p.active
        /\ \A e \in D : Active(e) <= q.active
        /\ p.active # 0 => \E e \in C : Active(e) = p.active
        /\ q.active # 0 => \E e \in D : Active(e) = q.active
    BY DEF Gathers
  <2>2. \A e \in C \cup D : Active(e) <= r.active
    BY <1>9, <2>1
  <2> QED
    BY <1>9, <2>1, <2>2
<1>11. /\ r.usernames = {e.username : e \in C \cup D} \ {None}
       /\ r.phones = {e.phone : e \in C \cup D} \ {None}
       /\ r.emails = {e.email : e \in C \cup D} \ {None}
       /\ r.chats = {e.chat : e \in C \cup D} \ {None}
  BY <1>1 DEF Gathers
<1>12. Gathers(r, C \cup D)
  BY <1>7, <1>8, <1>10, <1>11 DEF Gathers, AccountsOf, given
<1> QED
  BY <1>9, <1>12 DEF r
-----------------------------------------------------------------------------
(* Who is who after an observation: those it reaches are one person.       *)
LEMMA ClassOfAdd ==
    ASSUME IndexInv, NEW e \in Observations, Add(e)
    PROVE  LET dst == First(e, Considered(e))
           IN  /\ {x \in seen' : home'[x] = dst}
                  = {x \in seen : home[x] = dst \/ home[x] \in Reached(e)} \cup {e}
               /\ \A r \in DOMAIN person' \ {dst} :
                     r \in DOMAIN person /\ person'[r] = person[r] /\ Class(r)' = Class(r)
               /\ dst \in DOMAIN person'
               /\ person'[dst] = Absorb(Merged(dst, Considered(e)), Entry(e))
<1> DEFINE dst == First(e, Considered(e))
           R == Reached(e)
           E == Others(dst, Considered(e))
<1>h. Homes /\ Owned /\ seen \subseteq Observations /\ DOMAIN person = {home[x] : x \in seen}
  BY DEF IndexInv
<1>1. /\ home' = [x \in seen \cup {e} |-> IF x = e \/ home[x] \in R THEN dst ELSE home[x]]
      /\ seen' = seen \cup {e} /\ e \notin seen
      /\ (R = {} /\ dst = e) \/ (dst \in R /\ home[dst] = dst)
  BY <1>h, HomeStep
<1>2. E = R \ {dst}
  BY DEF Others, Reached
<1>3. person' = [x \in (DOMAIN person \cup {dst}) \ E |->
                    IF x = dst THEN Absorb(Merged(dst, Considered(e)), Entry(e)) ELSE person[x]]
  BY DEF Add
<1> HIDE DEF dst, R, E
<1>4. dst \in DOMAIN person' /\ person'[dst] = Absorb(Merged(dst, Considered(e)), Entry(e))
  BY <1>2, <1>3
<1>5. \A x \in seen : home'[x] = IF home[x] \in R THEN dst ELSE home[x]
  BY <1>1
<1>6. home'[e] = dst
  BY <1>1
<1>7. {x \in seen' : home'[x] = dst} = {x \in seen : home[x] = dst \/ home[x] \in R} \cup {e}
  BY <1>1, <1>5, <1>6
<1>8. ASSUME NEW r \in DOMAIN person' \ {dst}
      PROVE  r \in DOMAIN person /\ person'[r] = person[r] /\ Class(r)' = Class(r)
  <2>1. r \in DOMAIN person /\ r \notin R /\ person'[r] = person[r]
    BY <1>2, <1>3
  <2>2. {x \in seen' : home'[x] = r} = {x \in seen : home[x] = r}
    BY <1>1, <1>5, <1>6, <2>1
  <2> QED
    BY <2>1, <2>2 DEF Class
<1> QED
  BY <1>4, <1>7, <1>8 DEF Class, dst, R
-----------------------------------------------------------------------------
(* What the people of the index gather. *)
GatherInv == \A r \in DOMAIN person : Gathers(person[r], Class(r)) /\ person[r].active \in Nat

\* what dst gets of a person that the observation leads to
Share(x, dst) == IF x \in {dst, None} THEN {} ELSE Class(x)

LEMMA ClassIn == IndexInv => \A r : Class(r) \subseteq Observations
  BY DEF IndexInv, Class

LEMMA NobodyGathers == Gathers(Nobody, {}) /\ Nobody.active \in Nat
<1>1. /\ Nobody.name = None /\ Nobody.alts = {} /\ Nobody.usernames = {} /\ Nobody.phones = {}
      /\ Nobody.emails = {} /\ Nobody.accounts = {} /\ Nobody.chats = {} /\ Nobody.active = 0
  BY DEF Nobody
<1>2. Bears(Nobody) = {}
  BY <1>1 DEF Bears
<1> HIDE DEF Nobody
<1> QED
  BY <1>1, <1>2 DEF Gathers

LEMMA ConsideredExist ==
    ASSUME IndexInv, NEW e
    PROVE  \A i \in 1..5 : Considered(e)[i] \in DOMAIN person \cup {None}
<1>1. \A k : Known(k) \in DOMAIN person \cup {None}
  BY DEF Known, IndexInv, Owned
<1>2. \A i \in 1..4 : Considered(e)[i] = Known(KeyList(e)[i])
  BY DEF Considered
<1>3. Considered(e)[5] = IF Stranger(e) /\ AllowNameMerge(e.name) THEN Known(nameKey(e)) ELSE None
  BY DEF Considered
<1>4. \A i \in 1..5 : i \in 1..4 \/ i = 5
  OBVIOUS
<1> QED
  BY <1>1, <1>2, <1>3, <1>4

LEMMA TakeInGathers ==
    ASSUME IndexInv, GatherInv, NEW p, NEW C, NEW x, NEW dst,
           Gathers(p, C), p.active \in Nat, C \subseteq Observations,
           x \in DOMAIN person \cup {None}
    PROVE  /\ Gathers(TakeIn(p, x, dst), C \cup Share(x, dst))
           /\ TakeIn(p, x, dst).active \in Nat
           /\ C \cup Share(x, dst) \subseteq Observations
<1>1. CASE x \in {dst, None}
  <2>1. TakeIn(p, x, dst) = p /\ C \cup Share(x, dst) = C
    BY <1>1 DEF TakeIn, Share
  <2> QED
    BY <2>1
<1>2. CASE x \notin {dst, None}
  <2>1. TakeIn(p, x, dst) = Absorb(p, person[x]) /\ Share(x, dst) = Class(x)
    BY <1>2 DEF TakeIn, Share
  <2>2. Gathers(person[x], Class(x)) /\ person[x].active \in Nat
    BY <1>2 DEF GatherInv
  <2>3. C \cup Class(x) \subseteq Observations
    BY ClassIn
  <2>4. \A e \in C \cup Class(x) : Active(e) \in Nat
    BY <2>3, EntryActive
  <2>5. Gathers(Absorb(p, person[x]), C \cup Class(x)) /\ Absorb(p, person[x]).active \in Nat
    BY <2>2, <2>4, AbsorbGathers
  <2> QED
    BY <2>1, <2>3, <2>5
<1> QED
  BY <1>1, <1>2

LEMMA TakeTwoGathers ==
    ASSUME IndexInv, GatherInv, NEW p, NEW C, NEW x, NEW y, NEW dst,
           Gathers(p, C), p.active \in Nat, C \subseteq Observations,
           x \in DOMAIN person \cup {None}, y \in DOMAIN person \cup {None}
    PROVE  /\ Gathers(TakeIn(TakeIn(p, x, dst), y, dst), C \cup Share(x, dst) \cup Share(y, dst))
           /\ TakeIn(TakeIn(p, x, dst), y, dst).active \in Nat
           /\ C \cup Share(x, dst) \cup Share(y, dst) \subseteq Observations
<1>1. /\ Gathers(TakeIn(p, x, dst), C \cup Share(x, dst))
      /\ TakeIn(p, x, dst).active \in Nat
      /\ C \cup Share(x, dst) \subseteq Observations
  BY TakeInGathers
<1> QED
  BY <1>1, TakeInGathers

LEMMA MergedGathers ==
    ASSUME IndexInv, GatherInv, NEW e, NEW dst, dst \in DOMAIN person \/ Class(dst) = {}
    PROVE  LET c == Considered(e)
               C == Class(dst) \cup Share(c[2], dst) \cup Share(c[3], dst)
                               \cup Share(c[4], dst) \cup Share(c[5], dst)
           IN  /\ Gathers(Merged(dst, c), C) /\ Merged(dst, c).active \in Nat
               /\ C \subseteq Observations
<1> DEFINE c == Considered(e)
           own == IF dst \in DOMAIN person THEN person[dst] ELSE Nobody
           half == TakeIn(TakeIn(own, c[2], dst), c[3], dst)
           C == Class(dst)
           D == C \cup Share(c[2], dst) \cup Share(c[3], dst)
<1>1. /\ c[2] \in DOMAIN person \cup {None} /\ c[3] \in DOMAIN person \cup {None}
      /\ c[4] \in DOMAIN person \cup {None} /\ c[5] \in DOMAIN person \cup {None}
  BY ConsideredExist
<1>2. Gathers(own, C) /\ own.active \in Nat /\ C \subseteq Observations
  <2>1. CASE dst \in DOMAIN person
    BY <2>1, ClassIn DEF GatherInv
  <2>2. CASE dst \notin DOMAIN person
    BY <2>2, NobodyGathers
  <2> QED
    BY <2>1, <2>2
<1>3. Merged(dst, c) = TakeIn(TakeIn(half, c[4], dst), c[5], dst)
  BY DEF Merged
<1> HIDE DEF c, own, C
<1>h. half = TakeIn(TakeIn(own, c[2], dst), c[3], dst)
  OBVIOUS
<1> HIDE DEF half
<1>4. Gathers(half, D) /\ half.active \in Nat /\ D \subseteq Observations
  BY <1>1, <1>2, <1>h, TakeTwoGathers
<1> HIDE DEF D
<1>5. /\ Gathers(Merged(dst, c), D \cup Share(c[4], dst) \cup Share(c[5], dst))
      /\ Merged(dst, c).active \in Nat
      /\ D \cup Share(c[4], dst) \cup Share(c[5], dst) \subseteq Observations
  BY <1>1, <1>3, <1>4, TakeTwoGathers, SMTT(40)
<1> QED
  BY <1>5 DEF c, C, D

LEMMA GatherStep ==
    ASSUME IndexInv, GatherInv, NEW e \in Observations, Add(e)
    PROVE  GatherInv'
<1> DEFINE dst == First(e, Considered(e))
           c == Considered(e)
           C == Class(dst) \cup Share(c[2], dst) \cup Share(c[3], dst)
                           \cup Share(c[4], dst) \cup Share(c[5], dst)
<1>h. Homes /\ Owned /\ seen \subseteq Observations /\ DOMAIN person = {home[x] : x \in seen}
  BY DEF IndexInv
<1>1. /\ (Reached(e) = {} /\ dst = e) \/ (dst \in Reached(e) /\ home[dst] = dst)
      /\ dst \in seen \cup {e} /\ e \notin seen
  BY <1>h, HomeStep
<1>2. /\ {x \in seen' : home'[x] = dst}
            = {x \in seen : home[x] = dst \/ home[x] \in Reached(e)} \cup {e}
      /\ \A r \in DOMAIN person' \ {dst} :
            r \in DOMAIN person /\ person'[r] = person[r] /\ Class(r)' = Class(r)
      /\ person'[dst] = Absorb(Merged(dst, Considered(e)), Entry(e))
  BY ClassOfAdd
<1>3. Reached(e) = {c[1], c[2], c[3], c[4], c[5]} \ {None}
  <2>1. 1..5 = {1, 2, 3, 4, 5}
    OBVIOUS
  <2> QED
    BY <2>1 DEF Reached
<1>4. c[1] = None \/ c[1] = dst
  <2>1. CASE c[1] = None
    BY <2>1
  <2>2. CASE c[1] # None
    <3>1. 1 \in {i \in 1..5 : c[i] # None} /\ \A i \in 1..5 : i <= 1 => i = 1
      BY <2>2
    <3>2. (CHOOSE i \in {k \in 1..5 : c[k] # None} : \A j \in {k \in 1..5 : c[k] # None} : i <= j) = 1
      BY <3>1
    <3> QED
      BY <3>1, <3>2 DEF First
  <2> QED
    BY <2>1, <2>2
<1>5. dst \in DOMAIN person \/ Class(dst) = {}
  BY <1>1, <1>h DEF Class, Homes
<1> HIDE DEF dst, c
<1>6. Class(dst) = {x \in seen : home[x] = dst}
      /\ \A x : Share(x, dst) = IF x \in {dst, None} THEN {} ELSE {y \in seen : home[y] = x}
  BY DEF Class, Share
<1>7. None \notin {home[x] : x \in seen}
  BY <1>h DEF Homes
<1>8. C = {x \in seen : home[x] = dst \/ home[x] \in Reached(e)}
  BY <1>3, <1>4, <1>6, <1>7
<1>9. /\ Gathers(Merged(dst, c), C) /\ Merged(dst, c).active \in Nat /\ C \subseteq Observations
  BY <1>5, MergedGathers DEF c
<1> HIDE DEF C
<1>10. Gathers(Entry(e), {e}) /\ Entry(e).active \in Nat
  BY EntryGathers
<1>11. \A x \in C \cup {e} : Active(x) \in Nat
  BY <1>9, EntryActive
<1>12. /\ Gathers(Absorb(Merged(dst, c), Entry(e)), C \cup {e})
       /\ Absorb(Merged(dst, c), Entry(e)).active \in Nat
  BY <1>9, <1>10, <1>11, AbsorbGathers
<1>13. Gathers(person'[dst], {x \in seen' : home'[x] = dst}) /\ person'[dst].active \in Nat
  BY <1>2, <1>8, <1>12 DEF c
<1>14. ASSUME NEW r \in DOMAIN person'
       PROVE  Gathers(person'[r], {x \in seen' : home'[x] = r}) /\ person'[r].active \in Nat
  <2>1. CASE r = dst
    BY <1>13, <2>1
  <2>2. CASE r # dst
    <3>1. r \in DOMAIN person /\ person'[r] = person[r] /\ Class(r)' = Class(r)
      BY <1>2, <2>2
    <3>2. Gathers(person[r], Class(r)) /\ person[r].active \in Nat
      BY <3>1 DEF GatherInv
    <3>3. {x \in seen' : home'[x] = r} = Class(r)
      BY <3>1 DEF Class
    <3> QED
      BY <3>1, <3>2, <3>3
  <2> QED
    BY <2>1, <2>2
<1> QED
  BY <1>14 DEF GatherInv, Class, Gathers, Active

LEMMA GatherInvariance == Spec => [](IndexInv /\ GatherInv)
<1>1. Init => IndexInv /\ GatherInv
  BY DEF Init, IndexInv, GatherInv, Homes, Owned, Named
<1>2. IndexInv /\ GatherInv /\ [Next]_vars => (IndexInv /\ GatherInv)'
  <2> SUFFICES ASSUME IndexInv, GatherInv, [Next]_vars PROVE (IndexInv /\ GatherInv)'
    OBVIOUS
  <2>1. CASE Next
    <3>1. PICK e \in Observations : Add(e)
      BY <2>1 DEF Next
    <3> QED
      BY <3>1, IndexStep, GatherStep
  <2>2. CASE UNCHANGED vars
    <3>1. IndexInv'
      BY <2>2 DEF vars, IndexInv, Homes, Owned, Named
    <3>2. GatherInv'
      BY <2>2 DEF vars, GatherInv, Class
    <3> QED
      BY <3>1, <3>2
  <2> QED
    BY <2>1, <2>2
<1> QED
  BY <1>1, <1>2, PTL DEF Spec

(* Merging loses nothing and adds nothing, whatever is observed in         *)
(* whatever order (identity.go:204-275).                                   *)
THEOREM MergesKeepEverything == Spec => []MergeKeepsEverything
<1>1. GatherInv => MergeKeepsEverything
  BY DEF GatherInv, MergeKeepsEverything
<1> QED
  BY <1>1, GatherInvariance, PTL
-----------------------------------------------------------------------------
(* Namesakes. *)
Asked == \A x, y \in seen :
            x.name = y.name /\ AskAbout(x.name) /\ home[x] # home[y] => x.name \in pending

LEMMA AskedStep ==
    ASSUME IndexInv, Asked, NEW e \in Observations, Add(e)
    PROVE  Asked'
<1> DEFINE dst == First(e, Considered(e))
           c == Considered(e)
           R == Reached(e)
           n == e.name
<1>h. Homes /\ Owned /\ Named /\ seen \subseteq Observations
  BY DEF IndexInv
<1>1. /\ home' = [x \in seen \cup {e} |-> IF x = e \/ home[x] \in R THEN dst ELSE home[x]]
      /\ seen' = seen \cup {e} /\ e \notin seen
  BY <1>h, HomeStep
<1>2. /\ verdict' = verdict
      /\ pending' = IF Stranger(e) /\ AskAbout(n) THEN pending \cup {n} ELSE pending
  BY DEF Add
<1>3. R = {c[1], c[2], c[3], c[4], c[5]} \ {None}
  <2>1. 1..5 = {1, 2, 3, 4, 5}
    OBVIOUS
  <2> QED
    BY <2>1 DEF Reached
<1>4. Stranger(e) <=> /\ Known(nameKey(e)) # None
                      /\ c[1] # Known(nameKey(e)) /\ c[2] # Known(nameKey(e))
                      /\ c[3] # Known(nameKey(e)) /\ c[4] # Known(nameKey(e))
  BY ConsideredIs
<1> HIDE DEF dst, c, R, n
<1>5. \A x \in seen : home'[x] = IF home[x] \in R THEN dst ELSE home[x]
  BY <1>1
<1>6. home'[e] = dst
  BY <1>1
\* a namesake of e that stays apart from it has been asked about, or is now
<1>7. ASSUME NEW y \in seen, y.name = n, AskAbout(n), home'[y] # dst
      PROVE  n \in pending'
  <2>1. home[y] \notin R
    BY <1>5, <1>7
  <2>2. n # None
    BY <1>7, PeopleAssumption DEF AskAbout
  <2>3. nameKey(e) \in DOMAIN by
    BY <1>7, <1>h, <2>2 DEF Named, nameKey, n
  <2>4. PICK w \in seen : w.name = n /\ home[w] = home[by[nameKey(e)]]
    BY <1>h, <2>2, <2>3, KeysOfByAreKeys DEF n
  <2>5. Known(nameKey(e)) = home[w] /\ home[w] \in seen /\ home[w] # None
    BY <1>h, <2>3, <2>4 DEF Known, Homes
  <2>6. CASE home[w] = home[y]
    <3>1. Stranger(e)
      BY <1>3, <1>4, <2>1, <2>5, <2>6
    <3> QED
      BY <1>2, <1>7, <3>1
  <2>7. CASE home[w] # home[y]
    <3>1. n \in pending
      BY <1>7, <2>4, <2>7 DEF Asked
    <3> QED
      BY <1>2, <3>1
  <2> QED
    BY <2>6, <2>7
<1>8. ASSUME NEW x \in seen', NEW y \in seen', x.name = y.name, AskAbout(x.name), home'[x] # home'[y]
      PROVE  x.name \in pending'
  <2>1. CASE home'[x] = dst /\ x = e
    BY <1>1, <1>6, <1>7, <1>8, <2>1 DEF n
  <2>2. CASE home'[y] = dst /\ y = e
    BY <1>1, <1>6, <1>7, <1>8, <2>2 DEF n
  <2>3. CASE x # e /\ y # e
    <3>1. x \in seen /\ y \in seen /\ home[x] # home[y]
      BY <1>1, <1>5, <1>8, <2>3
    <3>2. x.name \in pending
      BY <1>8, <3>1 DEF Asked
    <3> QED
      BY <1>2, <3>2
  <2> QED
    BY <1>6, <2>1, <2>2, <2>3
<1> QED
  BY <1>2, <1>8 DEF Asked, AskAbout

(* Of two people of the index with a common name, undecided, the user is   *)
(* asked (mergefile.go:25-50).                                             *)
THEOREM NamesakesAsked == Spec => []NamesakesAreAsked
<1>1. Init => Asked
  BY DEF Init, Asked
<1>2. IndexInv /\ Asked /\ [Next]_vars => Asked'
  <2> SUFFICES ASSUME IndexInv, Asked, [Next]_vars PROVE Asked'
    OBVIOUS
  <2>1. CASE Next
    <3>1. PICK e \in Observations : Add(e)
      BY <2>1 DEF Next
    <3> QED
      BY <3>1, AskedStep
  <2>2. CASE UNCHANGED vars
    BY <2>2 DEF vars, Asked, AskAbout
  <2> QED
    BY <2>1, <2>2
<1>3. GatherInv /\ Asked => NamesakesAreAsked
  <2> SUFFICES ASSUME GatherInv, Asked, NEW r \in DOMAIN person, NEW t \in DOMAIN person,
                      NEW n \in NamesOf(r) \cap NamesOf(t), r # t, AskAbout(n)
               PROVE  n \in pending
    BY DEF NamesakesAreAsked
  <2>1. /\ Bears(person[r]) = {e.name : e \in Class(r)} \ {None}
        /\ Bears(person[t]) = {e.name : e \in Class(t)} \ {None}
    BY DEF GatherInv, Gathers
  <2>2. PICK x \in Class(r) : x.name = n
    BY <2>1 DEF NamesOf
  <2>3. PICK y \in Class(t) : y.name = n
    BY <2>1 DEF NamesOf
  <2> QED
    BY <2>2, <2>3 DEF Class, Asked
<1> QED
  BY <1>1, <1>2, <1>3, GatherInvariance, PTL DEF Spec
-----------------------------------------------------------------------------
(* Looking somebody up by exactly what the index knows of them. *)

LEMMA LeastOf ==
    ASSUME NEW T, T \subseteq Nat, T # {}
    PROVE  \E m \in T : \A n \in T : m <= n
<1> DEFINE Less == {x \in Nat \X Nat : x[1] < x[2]}
<1>1. IsWellFoundedOn(Less, Nat)
  BY NatLessThanWellFounded DEF OpToRel
<1> HIDE DEF Less
<1>2. PICK m \in T : \A n \in T : <<n, m>> \notin Less
  BY <1>1, WFMin
<1> USE DEF Less
<1>3. \A n \in T : ~(n < m)
  BY <1>2
<1> QED
  BY <1>2, <1>3

LEMMA ClosestExists ==
    ASSUME NEW T \in SUBSET ((0..3) \X Nat), T # {}
    PROVE  \E a \in T : \A b \in T : ~Closer(b, a)
<1> DEFINE firsts == {a[1] : a \in T}
<1>1. PICK m \in firsts : \A n \in firsts : m <= n
  <2>1. firsts \subseteq Nat /\ firsts # {}
    OBVIOUS
  <2> HIDE DEF firsts
  <2> QED
    BY <2>1, LeastOf
<1> DEFINE seconds == {a[2] : a \in {b \in T : b[1] = m}}
<1>2. PICK d \in seconds : \A n \in seconds : d <= n
  <2>1. seconds \subseteq Nat /\ seconds # {}
    OBVIOUS
  <2> HIDE DEF seconds
  <2> QED
    BY <2>1, LeastOf
<1>3. PICK a \in T : a[1] = m /\ a[2] = d
  BY <1>2
<1>4. ASSUME NEW b \in T PROVE ~Closer(b, a)
  <2>1. a[1] <= b[1] /\ (b[1] = a[1] => a[2] <= b[2])
    BY <1>1, <1>2, <1>3, <1>4
  <2>2. a[1] \in Nat /\ a[2] \in Nat /\ b[1] \in Nat /\ b[2] \in Nat
    BY <1>4
  <2> QED
    BY <2>1, <2>2 DEF Closer
<1> QED
  BY <1>4

LEMMA KnownTexts ==
    ASSUME IndexInv, GatherInv, NEW r \in DOMAIN person
    PROVE  matchFields(r) \subseteq Texts
<1>1. Class(r) \subseteq Observations
  BY ClassIn
<1>2. \A e \in Observations : e.username \in Maybe(Usernames)
  BY DEF Observations, Participants, Titles, Contacts, Maybe
<1>3. \A e \in Class(r) : /\ e.name \in Maybe(Names) /\ e.username \in Maybe(Usernames)
                          /\ e.phone \in Maybe(Phones) /\ e.email \in Maybe(Emails)
  BY <1>1, <1>2, Fields
<1>4. /\ Bears(person[r]) = {e.name : e \in Class(r)} \ {None}
      /\ person[r].usernames = {e.username : e \in Class(r)} \ {None}
      /\ person[r].phones = {e.phone : e \in Class(r)} \ {None}
      /\ person[r].emails = {e.email : e \in Class(r)} \ {None}
  BY DEF GatherInv, Gathers
<1> QED
  BY <1>3, <1>4 DEF matchFields, NamesOf, Texts, Maybe

LEMMA RankIs ==
    ASSUME IndexInv, GatherInv, NEW r \in DOMAIN person, NEW q \in Queries
    PROVE  /\ Rank(q, r) \in (0..3) \X Nat
           /\ Rank(q, r)[1] = 0 <=> q \in matchFields(r)
           /\ q \in matchFields(r) => Rank(q, r) = <<0, 0>>
<1> DEFINE ranks == {matchField(q, f) : f \in matchFields(r)} \cup {<<3, 0>>}
<1>1. \A f \in matchFields(r) : /\ matchField(q, f) \in (0..3) \X Nat
                                /\ matchField(q, f)[1] = 0 <=> f = q
                                /\ f = q => matchField(q, f) = <<0, 0>>
  <2> SUFFICES ASSUME NEW f \in matchFields(r)
               PROVE  /\ matchField(q, f) \in (0..3) \X Nat
                      /\ matchField(q, f)[1] = 0 <=> f = q
                      /\ f = q => matchField(q, f) = <<0, 0>>
    OBVIOUS
  <2>1. Distance[<<q, f>>] \in Nat
    BY KnownTexts, LookupAssumption
  <2>2. \/ f = q /\ matchField(q, f) = <<0, 0>>
        \/ f # q /\ matchField(q, f) \in {<<1, Distance[<<q, f>>]>>, <<2, Distance[<<q, f>>]>>, <<3, 0>>}
    BY DEF matchField
  <2> QED
    BY <2>1, <2>2
<1>2. /\ ranks \in SUBSET ((0..3) \X Nat) /\ ranks # {}
      /\ \A a \in ranks : a[1] = 0 => a = <<0, 0>> /\ q \in matchFields(r)
      /\ q \in matchFields(r) => <<0, 0>> \in ranks
  <2> DEFINE matched == {matchField(q, f) : f \in matchFields(r)}
  <2>1. /\ matched \subseteq (0..3) \X Nat
        /\ \A a \in matched : a[1] = 0 => a = <<0, 0>> /\ q \in matchFields(r)
        /\ q \in matchFields(r) => <<0, 0>> \in matched
    BY <1>1
  <2>2. <<3, 0>> \in (0..3) \X Nat /\ <<3, 0>>[1] = 3
    OBVIOUS
  <2> HIDE DEF matched
  <2>3. ranks = matched \cup {<<3, 0>>}
    BY DEF matched
  <2> HIDE DEF ranks
  <2> QED
    BY <2>1, <2>2, <2>3
<1>3. Rank(q, r) = CHOOSE a \in ranks : \A b \in ranks : ~Closer(b, a)
  BY DEF Rank
<1> HIDE DEF ranks
<1>4. Rank(q, r) \in ranks /\ \A b \in ranks : ~Closer(b, Rank(q, r))
  BY <1>2, <1>3, ClosestExists
<1>5. Rank(q, r) \in (0..3) \X Nat
  BY <1>2, <1>4
<1>6. Rank(q, r)[1] = 0 => q \in matchFields(r)
  BY <1>2, <1>4
<1>7. ASSUME q \in matchFields(r) PROVE Rank(q, r) = <<0, 0>> /\ Rank(q, r)[1] = 0
  <2>1. ~Closer(<<0, 0>>, Rank(q, r))
    BY <1>2, <1>4, <1>7
  <2>2. ~(0 < Rank(q, r)[1])
    BY <2>1 DEF Closer
  <2>3. Rank(q, r)[1] \in 0..3
    BY <1>5
  <2>4. Rank(q, r)[1] = 0
    BY <2>2, <2>3
  <2> QED
    BY <1>2, <1>4, <2>4
<1> QED
  BY <1>5, <1>6, <1>7

(* Whoever is asked for by exactly what the index knows of them is found,  *)
(* the one active last of several (identity.go:379-419).                   *)
THEOREM ExactWins == Spec => []ExactMatchWins
<1>1. IndexInv /\ GatherInv => ExactMatchWins
  <2> SUFFICES ASSUME IndexInv, GatherInv, NEW q \in Queries,
                      {r \in DOMAIN person : q \in matchFields(r)} # {}
               PROVE  LET exact == {r \in DOMAIN person : q \in matchFields(r)}
                      IN  resolvePerson(q) =
                          {r \in exact : \A t \in exact : person[t].active <= person[r].active}
    BY DEF ExactMatchWins
  <2> DEFINE exact == {r \in DOMAIN person : q \in matchFields(r)}
  <2>1. /\ \A r \in DOMAIN person : Rank(q, r) \in (0..3) \X Nat
        /\ \A r \in DOMAIN person : Rank(q, r)[1] = 0 <=> r \in exact
        /\ \A r \in exact : Rank(q, r) = <<0, 0>>
    BY RankIs
  <2>2. \A r \in DOMAIN person : person[r].active \in Nat
    BY DEF GatherInv
  <2>3. exact \subseteq DOMAIN person /\ exact # {}
    OBVIOUS
  <2> HIDE DEF exact
  <2>4. exact \subseteq Hits(q) /\ Hits(q) \subseteq DOMAIN person
    BY <2>1, <2>3 DEF Hits
  <2>5. ASSUME NEW r \in exact, NEW t \in Hits(q)
        PROVE  Ahead(q, t, r) <=> t \in exact /\ person[t].active > person[r].active
    <3>1. Rank(q, r) = <<0, 0>> /\ Rank(q, t) \in (0..3) \X Nat
      BY <2>1, <2>4
    <3>2. ~Closer(Rank(q, t), Rank(q, r))
      BY <3>1 DEF Closer
    <3>3. Rank(q, t) = Rank(q, r) <=> t \in exact
      BY <2>1, <2>4, <3>1
    <3> QED
      BY <3>2, <3>3 DEF Ahead
  <2>6. ASSUME NEW r \in Hits(q), r \notin exact PROVE \E t \in Hits(q) : Ahead(q, t, r)
    <3>1. PICK t \in exact : TRUE
      BY <2>3
    <3>2. Rank(q, r) \in (0..3) \X Nat /\ Rank(q, r)[1] # 0 /\ Rank(q, t) = <<0, 0>>
      BY <2>1, <2>4, <2>6
    <3>3. Closer(Rank(q, t), Rank(q, r))
      BY <3>2 DEF Closer
    <3> QED
      BY <2>4, <3>3 DEF Ahead
  <2>7. Search(q) = {r \in exact : \A t \in exact : ~(person[t].active > person[r].active)}
    BY <2>4, <2>5, <2>6 DEF Search
  <2>8. \A r, t \in exact : ~(person[t].active > person[r].active)
                            <=> person[t].active <= person[r].active
    BY <2>2, <2>3
  <2>9. resolvePerson(q) = Search(q)
    BY <2>3, <2>4 DEF resolvePerson
  <2> QED
    BY <2>7, <2>8, <2>9 DEF exact
<1> QED
  BY <1>1, GatherInvariance, PTL
=============================================================================
