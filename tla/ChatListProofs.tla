--------------------------- MODULE ChatListProofs ---------------------------
(***************************************************************************)
(* Theorems about ChatList, for any chats, flags, terminal heights and     *)
(* bounds.                                                                 *)
(***************************************************************************)
EXTENDS ChatList, FiniteSetTheorems, SequenceTheorems, TLAPS

(* A cursor is on a row of a list, or before the first of an empty one. *)
OnRow(list, sel) == sel \in DOMAIN list \/ (list = <<>> /\ sel = 1)

-----------------------------------------------------------------------------
(* The operators. *)

(* The visible indexes are indexes, and places are natural numbers. *)
LEMMA PosType ==
    ASSUME NEW t, NEW q, NEW list \in Seq(Records), NEW i
    PROVE  PosOf(Visible(t, q, list), i) \in Nat
<1> DEFINE V == Visible(t, q, list)
<1>1. DOMAIN list = 1..Len(list) /\ Len(list) \in Nat
  OBVIOUS
<1>2. IsFiniteSet({j \in V : j <= i})
  <2>1. IsFiniteSet(1..Len(list))
    BY <1>1, FS_Interval
  <2>2. {j \in V : j <= i} \subseteq 1..Len(list)
    BY <1>1 DEF Visible
  <2> QED
    BY <2>1, <2>2, FS_Subset
<1>3. Cardinality({j \in V : j <= i}) \in Nat
  BY <1>2, FS_CardinalityType
<1> QED
  BY <1>3 DEF PosOf

(* Sorting keeps the length and the rows, and so keeps chats distinct. *)
LEMMA SortedList ==
    ASSUME NEW list \in Seq(Records), NEW s \in Sorted(list)
    PROVE  /\ s \in Seq(Records)
           /\ DOMAIN s = DOMAIN list
           /\ Distinct(list) => Distinct(s)
<1> DEFINE Ahead(i, j) == \/ Before(list[i], list[j])
                          \/ ~Before(list[j], list[i]) /\ i < j
<1>1. PICK p \in [DOMAIN list -> DOMAIN list] :
        /\ \A j, k \in DOMAIN list : j < k => Ahead(p[j], p[k])
        /\ s = [k \in DOMAIN list |-> list[p[k]]]
  BY DEF Sorted
<1>2. DOMAIN list = 1..Len(list) /\ Len(list) \in Nat
  OBVIOUS
<1>3. \A k \in DOMAIN list : list[p[k]] \in Records
  BY <1>1, <1>2
<1>4. s \in Seq(Records) /\ DOMAIN s = DOMAIN list
  BY <1>1, <1>2, <1>3
<1>5. ASSUME NEW i \in DOMAIN list PROVE ~Ahead(i, i)
  <2>1. list[i] \in Records
    BY <1>2
  <2>2. list[i].active \in Nat
    BY <2>1, BoundsAssumption DEF Records
  <2> QED
    BY <1>2, <2>2 DEF Before
<1>6. ASSUME Distinct(list), NEW j \in DOMAIN s, NEW k \in DOMAIN s, s[j].id = s[k].id
      PROVE  j = k
  <2>1. p[j] = p[k]
    BY <1>1, <1>4, <1>6 DEF Distinct
  <2>2. ~(j < k) /\ ~(k < j)
    BY <1>1, <1>4, <1>5, <2>1
  <2> QED
    BY <1>2, <1>4, <2>2
<1> HIDE DEF Ahead
<1> QED
  BY <1>4, <1>6 DEF Distinct

(* So does taking one chat out, which leaves none with its ID. *)
LEMMA KeptList ==
    ASSUME chats \in Seq(Records), NEW gone, NEW s \in Kept(gone)
    PROVE  /\ s \in Seq(Records)
           /\ Distinct(chats) => Distinct(s)
           /\ \A i \in DOMAIN s : s[i].id # gone
<1> DEFINE stay == {i \in DOMAIN chats : chats[i].id # gone}
           n == Cardinality(stay)
<1>1. DOMAIN chats = 1..Len(chats) /\ Len(chats) \in Nat
  OBVIOUS
<1>2. n \in Nat
  <2>1. IsFiniteSet(1..Len(chats))
    BY <1>1, FS_Interval
  <2>2. stay \subseteq 1..Len(chats)
    BY <1>1
  <2> QED
    BY <2>1, <2>2, FS_Subset, FS_CardinalityType
<1>3. PICK p \in [1..n -> stay] :
        /\ \A j, k \in 1..n : j < k => p[j] < p[k]
        /\ s = [k \in 1..n |-> chats[p[k]]]
  BY DEF Kept
<1> HIDE DEF n
<1>4. \A k \in 1..n : chats[p[k]] \in Records /\ chats[p[k]].id # gone
  BY <1>1, <1>3
<1>5. s \in Seq(Records) /\ DOMAIN s = 1..n
  BY <1>2, <1>3, <1>4
<1>6. ASSUME Distinct(chats), NEW j \in 1..n, NEW k \in 1..n, s[j].id = s[k].id
      PROVE  j = k
  <2>1. p[j] = p[k] /\ p[j] \in Nat
    BY <1>1, <1>3, <1>6 DEF Distinct
  <2>2. ~(j < k) /\ ~(k < j)
    BY <1>3, <2>1
  <2> QED
    BY <1>2, <2>2
<1> QED
  BY <1>3, <1>4, <1>5, <1>6 DEF Distinct

(* Where a chat that is listed once is found. *)
LEMMA Found ==
    ASSUME NEW list, NEW c, Has(list, c)
    PROVE  /\ IndexOf(list, c) \in DOMAIN list
           /\ list[IndexOf(list, c)].id = c
           /\ Distinct(list) => \A i \in DOMAIN list : list[i].id = c => i = IndexOf(list, c)
BY DEF Has, IndexOf, Distinct

LEMMA ReselectOnRow ==
    ASSUME NEW list \in Seq(Records), NEW c
    PROVE  OnRow(list, ReselectByID(list, c))
<1>1. CASE Has(list, c)
  BY <1>1, Found DEF OnRow, ReselectByID
<1>2. CASE ~Has(list, c)
  <2>1. list = <<>> \/ 1 \in DOMAIN list
    OBVIOUS
  <2> QED
    BY <1>2, <2>1 DEF OnRow, ReselectByID
<1> QED
  BY <1>1, <1>2

(* A window that is put right starts at a row and shows the cursor. *)
LEMMA WindowArithmetic ==
    ASSUME NEW p \in Nat, NEW off \in Nat, off > 0, NEW h \in Nat, h > 0, NEW c,
           c = IF p = 0 THEN 1
               ELSE IF p < off THEN p
               ELSE IF p >= off + h THEN p - h + 1 ELSE off
    PROVE  /\ c \in Nat /\ c > 0
           /\ p > 0 => c <= p /\ p < c + h
OBVIOUS

LEMMA ClampShows ==
    ASSUME NEW p \in Nat, NEW off \in Nat \ {0}, height' \in Heights
    PROVE  /\ Clamp(p, off) \in Nat \ {0}
           /\ p > 0 => Clamp(p, off) <= p /\ p < Clamp(p, off) + height'
<1>1. height' \in Nat /\ height' > 0 /\ off \in Nat /\ off > 0
  BY HeightsAssumption
<1>2. /\ Clamp(p, off) \in Nat /\ Clamp(p, off) > 0
      /\ p > 0 => Clamp(p, off) <= p /\ p < Clamp(p, off) + height'
  BY <1>1, WindowArithmetic, Zenon DEF Clamp
<1> QED
  BY <1>2

-----------------------------------------------------------------------------
(* What the actions are made of leaves the list, the cursor and the window
   in order. *)

ListOK(list) == list \in Seq(Records) /\ Distinct(list)

(* Distinct rows, the cursor on one of them, a window that shows it. *)
Orderly ==
    /\ ListOK(chats)
    /\ OnRow(chats, selected)
    /\ offset \in Nat \ {0}
    /\ CursorOnScreen

LEMMA ShowOrderly ==
    ASSUME NEW list, ListOK(list), NEW sel, OnRow(list, sel), NEW off \in Nat \ {0},
           height' \in Heights, Show(list, sel, off)
    PROVE  Orderly'
<1> DEFINE p == PosOf(Visible(tab', query', list), sel)
<1>1. p \in Nat
  BY PosType DEF ListOK
<1>2. chats' = list /\ selected' = sel
  BY DEF Show
<1>3. CASE mode' = "list"
  <2>1. offset' = Clamp(p, off)
    BY <1>3 DEF Show
  <2>2. offset' \in Nat \ {0} /\ (p > 0 => offset' <= p /\ p < offset' + height')
    BY <1>1, <2>1, ClampShows
  <2> QED
    BY <1>2, <2>2 DEF Orderly, CursorOnScreen
<1>4. CASE mode' # "list"
  BY <1>2, <1>4 DEF Show, Orderly, CursorOnScreen
<1> QED
  BY <1>3, <1>4

LEMMA PinOrderly ==
    ASSUME NEW s, ListOK(s), offset \in Nat \ {0}, height' \in Heights, Pin(s)
    PROVE  /\ Orderly'
           /\ \A i \in DOMAIN chats' : chats'[i].id = SelectedID => selected' = i
<1>1. Show(s, ReselectByID(s, SelectedID), offset)
  BY DEF Pin
<1>2. ListOK(s)
  OBVIOUS
<1>3. OnRow(s, ReselectByID(s, SelectedID))
  BY <1>2, ReselectOnRow DEF ListOK
<1>4. Orderly'
  BY <1>1, <1>2, <1>3, ShowOrderly
<1>5. chats' = s /\ selected' = ReselectByID(s, SelectedID)
  BY <1>1 DEF Show
<1>6. ASSUME NEW i \in DOMAIN s, s[i].id = SelectedID
      PROVE  ReselectByID(s, SelectedID) = i
  <2>1. Has(s, SelectedID)
    BY <1>6 DEF Has
  <2> QED
    BY <1>2, <1>6, <2>1, Found DEF ListOK, ReselectByID
<1> QED
  BY <1>4, <1>5, <1>6

LEMMA FirstVisibleOrderly ==
    ASSUME NEW list, ListOK(list), NEW sel, OnRow(list, sel), NEW off \in Nat \ {0},
           height' \in Heights, FirstVisible(list, sel, off)
    PROVE  /\ Orderly'
           /\ chats' = list
           /\ sel \in Visible(tab', query', list) => selected' = sel
<1> DEFINE V == Visible(tab', query', list)
<1>1. CASE V = {}
  <2>1. chats' = list /\ selected' = sel /\ offset' = 1
    BY <1>1 DEF FirstVisible
  <2>2. PosOf(V, sel) = 0
    BY <1>1 DEF PosOf
  <2> QED
    BY <1>1, <2>1, <2>2 DEF Orderly, CursorOnScreen
<1>2. CASE V # {}
  <2>1. PICK i \in (IF sel \in V THEN {sel} ELSE At(V, 1)) : Show(list, i, off)
    BY <1>2 DEF FirstVisible
  <2>2. i \in DOMAIN list
    BY <2>1 DEF At, Visible
  <2>3. Orderly'
    BY <2>1, <2>2, ShowOrderly DEF OnRow
  <2>4. chats' = list /\ selected' = i
    BY <2>1 DEF Show
  <2> QED
    BY <2>1, <2>3, <2>4
<1> QED
  BY <1>1, <1>2

(* What lists the server and the events can bring. *)
LEMMA ListsOK ==
    ASSUME NEW list \in Lists
    PROVE  ListOK(list)
<1>1. PICK n \in 0..Cardinality(Chats) : list \in [1..n -> Records]
  BY DEF Lists
<1>2. n \in Nat
  BY <1>1, ChatsAssumption, FS_CardinalityType
<1>3. list \in Seq(Records)
  BY <1>1, <1>2
<1> QED
  BY <1>3 DEF Lists, ListOK

LEMMA AnswersOK ==
    ASSUME NEW s \in Answers
    PROVE  ListOK(s)
BY ListsOK, SortedList DEF Answers, ListOK

LEMMA MergeOK ==
    ASSUME ListOK(chats), NEW c \in Records
    PROVE  ListOK(Merge(c))
<1>1. CASE Has(chats, c.id)
  <2> DEFINE k == IndexOf(chats, c.id)
  <2>1. k \in DOMAIN chats /\ chats[k].id = c.id
    BY <1>1, Found
  <2> HIDE DEF k
  <2>2. Merge(c) = [chats EXCEPT ![k] = c]
    BY <1>1 DEF Merge, k
  <2>3. [chats EXCEPT ![k] = c] \in Seq(Records)
    BY <2>1 DEF ListOK
  <2>4. Distinct([chats EXCEPT ![k] = c])
    BY <2>1 DEF ListOK, Distinct
  <2> QED
    BY <2>2, <2>3, <2>4 DEF ListOK
<1>2. CASE ~Has(chats, c.id)
  <2>1. Merge(c) = Append(chats, c)
    BY <1>2 DEF Merge
  <2>2. Append(chats, c) \in Seq(Records)
    BY DEF ListOK
  <2>3. \A i \in DOMAIN chats : chats[i].id # c.id
    BY <1>2 DEF Has
  <2>4. Distinct(Append(chats, c))
    BY <2>3 DEF ListOK, Distinct
  <2> QED
    BY <2>1, <2>2, <2>4 DEF ListOK
<1> QED
  BY <1>1, <1>2

(* Rows rewritten in place. *)
LEMMA RowsOK ==
    ASSUME ListOK(chats), NEW list, list = [i \in DOMAIN chats |-> list[i]],
           \A i \in DOMAIN chats : list[i] \in Records /\ list[i].id = chats[i].id
    PROVE  ListOK(list)
<1>1. DOMAIN chats = 1..Len(chats) /\ Len(chats) \in Nat
  BY DEF ListOK
<1>2. list \in Seq(Records)
  BY <1>1
<1>3. Distinct(list)
  BY DEF ListOK, Distinct
<1> QED
  BY <1>2, <1>3 DEF ListOK

LEMMA WithArchivedOK ==
    ASSUME ListOK(chats), NEW c, NEW to \in BOOLEAN
    PROVE  /\ ListOK(WithArchived(c, to))
           /\ DOMAIN WithArchived(c, to) = DOMAIN chats
           /\ \A i \in DOMAIN chats : /\ WithArchived(c, to)[i].id = chats[i].id
                                      /\ chats[i].id = c => WithArchived(c, to)[i].archived = to
<1> DEFINE L == WithArchived(c, to)
<1>1. \A i \in DOMAIN chats : chats[i] \in Records
  BY DEF ListOK
<1>2. DOMAIN L = DOMAIN chats
  BY DEF WithArchived
<1>3. \A i \in DOMAIN chats : /\ L[i] \in Records /\ L[i].id = chats[i].id
                              /\ chats[i].id = c => L[i].archived = to
  BY <1>1 DEF WithArchived, Records
<1>4. L = [i \in DOMAIN chats |-> L[i]]
  BY DEF WithArchived
<1> HIDE DEF L
<1>5. ListOK(L)
  BY <1>3, <1>4, RowsOK
<1> QED
  BY <1>2, <1>3, <1>5 DEF L

LEMMA FoldMessageOK ==
    ASSUME ListOK(chats), NEW i \in DOMAIN chats, NEW counts \in BOOLEAN, NEW floats \in BOOLEAN,
           NEW at \in 0..MaxActive, counts => chats[i].unread < MaxUnread
    PROVE  ListOK([chats EXCEPT ![i].unread = IF counts THEN @ + 1 ELSE @,
                                ![i].active = IF floats THEN @ ELSE at])
<1> DEFINE L == [chats EXCEPT ![i].unread = IF counts THEN @ + 1 ELSE @,
                              ![i].active = IF floats THEN @ ELSE at]
<1>1. \A j \in DOMAIN chats : chats[j] \in Records
  BY DEF ListOK
<1>2. L = [j \in DOMAIN chats |-> L[j]]
  OBVIOUS
<1>3. ASSUME NEW j \in DOMAIN chats
      PROVE  L[j] \in Records /\ L[j].id = chats[j].id
  <2>1. CASE j = i
    <3> DEFINE u == IF counts THEN chats[i].unread + 1 ELSE chats[i].unread
               a == IF floats THEN chats[i].active ELSE at
    <3>1. chats[i].unread \in 0..MaxUnread /\ chats[i].active \in 0..MaxActive
      BY <1>1 DEF Records
    <3>2. u \in 0..MaxUnread /\ a \in 0..MaxActive
      BY <3>1, BoundsAssumption
    <3>3. L[i] = [chats[i] EXCEPT !.unread = u, !.active = a]
      OBVIOUS
    <3> HIDE DEF L, u, a
    <3> QED
      BY <1>1, <2>1, <3>2, <3>3 DEF Records
  <2>2. CASE j # i
    BY <1>1, <2>2
  <2> QED
    BY <2>1, <2>2
<1> HIDE DEF L
<1>4. ListOK(L)
  BY <1>2, <1>3, RowsOK
<1> QED
  BY <1>4 DEF L

-----------------------------------------------------------------------------
(* The inductive invariant, and what a step promises besides it. *)

Elsewhere ==
    /\ mode \in Modes /\ tab \in Tabs /\ height \in Heights /\ listPos \in Nat
    /\ query \in {NoQuery} \cup SUBSET Chats
    /\ mode # "search" => query = NoQuery
    /\ current \in Chats \cup {NoChat} /\ returnToChat \in BOOLEAN
    /\ mode \in {"conversation", "insert", "react"} => current # NoChat

Inv == Orderly /\ Elsewhere

Pins ==
    chats' # chats =>
      \A i \in Visible(tab', query', chats') : chats'[i].id = SelectedID => selected' = i

Keeps ==
    /\ chats' # chats
    /\ mode \in {"conversation", "insert", "react"} /\ mode' # mode
    => \A i \in DOMAIN chats' : chats'[i].id = current => chats'[i].archived

(* The parts of the invariant are the invariants that are checked. *)
LEMMA Parts == Inv <=> TypeOK /\ OneRowPerChat /\ CursorOnScreen
BY DEF Inv, Orderly, Elsewhere, ListOK, OnRow, TypeOK, OneRowPerChat

LEMMA InitInv ==
    ASSUME Init
    PROVE  Inv
<1>1. chats \in Answers
  BY DEF Init
<1>2. ListOK(chats)
  BY <1>1, AnswersOK
<1> DEFINE p == PosOf(Visible(tab, query, chats), selected)
<1>3. p \in Nat
  BY <1>2, PosType DEF ListOK
<1>4. offset = IF p > height THEN p - height + 1 ELSE 1
  BY DEF Init
<1> HIDE DEF p
<1>5. height \in Heights /\ height \in Nat /\ height > 0
  BY HeightsAssumption DEF Init
<1>6. offset \in Nat \ {0} /\ offset <= p + 1 /\ p < offset + height
  BY <1>3, <1>4, <1>5
<1>7. p > 0 => offset <= p /\ p < offset + height
  BY <1>3, <1>4, <1>5
<1>8. Orderly
  BY <1>2, <1>6, <1>7 DEF Orderly, OnRow, CursorOnScreen, Init, p
<1>9. Elsewhere
  BY <1>5 DEF Elsewhere, Init, Modes, Tabs
<1> QED
  BY <1>8, <1>9 DEF Inv

(* Putting the cursor or the window somewhere else in the same list. *)
LEMMA ShowSame ==
    ASSUME Inv, NEW sel, OnRow(chats, sel), NEW off \in Nat \ {0}, height' \in Heights,
           Show(chats, sel, off)
    PROVE  Orderly' /\ chats' = chats
<1>1. ListOK(chats)
  BY DEF Inv, Orderly
<1> QED
  BY <1>1, ShowOrderly DEF Show

LEMMA CursorToOrderly ==
    ASSUME Inv, NEW q, CursorTo(q), height' \in Heights
    PROVE  Orderly' /\ chats' = chats
<1>1. PICK i \in At(Visible(tab, query, chats), q) : Show(chats, i, offset)
  BY DEF CursorTo
<1>2. OnRow(chats, i) /\ offset \in Nat \ {0}
  BY DEF At, Visible, OnRow, Inv, Orderly
<1> QED
  BY <1>1, <1>2, ShowSame

LEMMA LandingOnRow ==
    ASSUME Inv, NEW list, NEW t, NEW q, NEW sel, OnRow(list, sel), NEW i \in Landing(Visible(t, q, list), sel)
    PROVE  OnRow(list, i)
BY DEF Landing, At, Visible, OnRow

LEMMA OpenChatOrderly ==
    ASSUME Inv, NEW c \in Chats, NEW sel, OnRow(chats, sel), returnToChat' \in BOOLEAN,
           OpenChat(c, sel)
    PROVE  Inv' /\ chats' = chats
<1>1. PosOf(Visible(tab, NoQuery, chats), sel) \in Nat
  BY PosType DEF Inv, Orderly, ListOK
<1>2. Orderly'
  BY DEF OpenChat, Inv, Orderly, CursorOnScreen
<1>3. Elsewhere'
  BY <1>1, ChatsAssumption DEF OpenChat, Inv, Elsewhere, Modes
<1> QED
  BY <1>2, <1>3 DEF Inv, OpenChat

LEMMA NextTabsType ==
    ASSUME NEW t \in Tabs
    PROVE  NextTabs(t) \subseteq Tabs
<1> DEFINE n == Len(TabOrder)
           i == CHOOSE i \in 1..n : TabOrder[i] = t
<1>1. n = 4 /\ TabOrder[1] = "inbox" /\ TabOrder[2] = "unread"
      /\ TabOrder[3] = "archive" /\ TabOrder[4] = "chat"
  BY DEF TabOrder
<1>2. i \in 1..4
  BY <1>1 DEF Tabs
<1>3. NextTabs(t) = {TabOrder[(i % n) + 1], TabOrder[((i + n - 2) % n) + 1]}
  BY DEF NextTabs
<1> HIDE DEF i, n
<1>4. (i % n) + 1 \in 1..4 /\ ((i + n - 2) % n) + 1 \in 1..4
  BY <1>1, <1>2
<1>5. \A k \in 1..4 : TabOrder[k] \in Tabs
  BY <1>1 DEF Tabs
<1> QED
  BY <1>3, <1>4, <1>5

-----------------------------------------------------------------------------
(* The user leaves the rows alone. *)

LEMMA CycleTabStep ==
    ASSUME Inv, CycleTab
    PROVE  Inv' /\ chats' = chats
<1>1. tab' \in Tabs /\ height' = height /\ height \in Heights
  BY NextTabsType DEF CycleTab, Inv, Elsewhere
<1>2. Elsewhere'
  BY <1>1 DEF CycleTab, openVars, Inv, Elsewhere, Modes
<1>3. CASE tab' = "chat"
  BY <1>2, <1>3 DEF CycleTab, listVars, Inv, Orderly, CursorOnScreen
<1>4. CASE tab' # "chat"
  <2> DEFINE V == Visible(tab', query', chats)
  <2>1. PICK i \in (IF V = {} THEN {selected} ELSE At(V, 1)) : Show(chats, i, 1)
    BY <1>4 DEF CycleTab
  <2>2. OnRow(chats, i)
    BY <2>1 DEF At, Visible, OnRow, Inv, Orderly
  <2> QED
    BY <1>1, <1>2, <2>1, <2>2, ShowSame DEF Inv
<1> QED
  BY <1>3, <1>4

LEMMA BackStep ==
    ASSUME Inv, Back
    PROVE  Inv' /\ chats' = chats
<1>1. CASE returnToChat
  <2>1. Elsewhere'
    BY <1>1 DEF Back, Inv, Elsewhere, Modes, Tabs
  <2>2. Orderly' /\ chats' = chats
    BY <1>1 DEF Back, listVars, Inv, Orderly, CursorOnScreen
  <2> QED
    BY <2>1, <2>2 DEF Inv
<1>2. CASE ~returnToChat
  <2>1. PICK i \in Landing(Visible(tab, query, chats), selected) : Show(chats, i, offset)
    BY <1>2 DEF Back
  <2>2. Elsewhere'
    BY <1>2 DEF Back, Inv, Elsewhere, Modes
  <2>3. OnRow(chats, i)
    BY LandingOnRow DEF Inv, Orderly
  <2>4. offset \in Nat \ {0} /\ height' \in Heights
    BY <2>2 DEF Inv, Orderly, Elsewhere
  <2> QED
    BY <2>1, <2>2, <2>3, <2>4, ShowSame DEF Inv
<1> QED
  BY <1>1, <1>2 DEF Inv, Elsewhere

LEMMA UserStep ==
    ASSUME Inv, User
    PROVE  Inv' /\ chats' = chats
<1>1. ListOK(chats) /\ OnRow(chats, selected) /\ offset \in Nat \ {0} /\ height \in Heights
  BY DEF Inv, Orderly, Elsewhere
<1>2. \A i \in DOMAIN chats : chats[i].id \in Chats /\ OnRow(chats, i)
  <2>1. \A i \in DOMAIN chats : chats[i] \in Records
    BY <1>1 DEF ListOK
  <2> QED
    BY <2>1 DEF Records, OnRow
<1>3. CASE MoveCursor
  <2>1. PICK q : CursorTo(q)
    BY <1>3 DEF MoveCursor
  <2>2. Elsewhere' /\ height' \in Heights
    BY <1>3 DEF MoveCursor, openVars, Inv, Elsewhere
  <2> QED
    BY <2>1, <2>2, CursorToOrderly DEF Inv
<1>4. CASE Resize
  <2>1. Elsewhere'
    BY <1>4 DEF Resize, openVars, Inv, Elsewhere
  <2> QED
    BY <1>1, <1>4, <2>1, ShowSame DEF Resize, Inv
<1>5. CASE CycleTab
  BY <1>5, CycleTabStep
<1>6. CASE OpenSelected
  <2>1. returnToChat' \in BOOLEAN
    BY <1>6 DEF OpenSelected, Inv, Elsewhere
  <2> QED
    BY <1>2, <1>6, <2>1, OpenChatOrderly DEF OpenSelected
<1>7. CASE OpenLink
  BY <1>2, <1>7, OpenChatOrderly DEF OpenLink
<1>8. CASE OpenResult
  <2>1. PICK c \in Chats :
          OpenChat(c, IF Has(chats, c) THEN IndexOf(chats, c) ELSE selected)
    BY <1>8 DEF OpenResult
  <2>2. OnRow(chats, IF Has(chats, c) THEN IndexOf(chats, c) ELSE selected)
    BY <1>1, <1>2, Found
  <2>3. returnToChat' \in BOOLEAN
    BY <1>8 DEF OpenResult, Inv, Elsewhere
  <2> QED
    BY <2>1, <2>2, <2>3, OpenChatOrderly
<1>9. CASE Back
  BY <1>9, BackStep
<1>10. CASE EditQuery
  BY <1>10 DEF EditQuery, listVars, openVars, Inv, Orderly, Elsewhere, CursorOnScreen
<1>11. CASE ChangeMode
  <2>1. Elsewhere'
    BY <1>11 DEF ChangeMode, openVars, Inv, Elsewhere, Modes
  <2>2. height' \in Heights
    BY <2>1 DEF Elsewhere
  <2> QED
    BY <1>1, <1>11, <2>1, <2>2, ShowSame DEF ChangeMode, Inv
<1> QED
  BY <1>3, <1>4, <1>5, <1>6, <1>7, <1>8, <1>9, <1>10, <1>11 DEF User

-----------------------------------------------------------------------------
(* Answers and events rewrite them. *)

(* A sorted list keeps the cursor on its chat and the mode as it is. *)
LEMMA PinStep ==
    ASSUME Inv, UNCHANGED <<mode, tab, height, query, openVars>>, NEW s, ListOK(s), Pin(s)
    PROVE  Inv' /\ Pins /\ Keeps
<1>1. Elsewhere' /\ height' \in Heights
  BY DEF openVars, Inv, Elsewhere
<1>2. /\ Orderly'
      /\ \A i \in DOMAIN chats' : chats'[i].id = SelectedID => selected' = i
  BY <1>1, PinOrderly DEF Inv, Orderly
<1>3. Pins
  BY <1>2 DEF Pins, Visible
<1>4. Keeps
  BY DEF Keeps
<1> QED
  BY <1>1, <1>2, <1>3, <1>4 DEF Inv

LEMMA ResortStep ==
    ASSUME Inv, UNCHANGED <<mode, tab, height, query, openVars>>, NEW list, ListOK(list), Resort(list)
    PROVE  Inv' /\ Pins /\ Keeps
<1>1. PICK s \in Sorted(list) : Pin(s)
  BY DEF Resort
<1>2. ListOK(s)
  BY SortedList DEF ListOK
<1> QED
  BY <1>1, <1>2, PinStep

LEMMA ApplyMessageStep ==
    ASSUME Inv, ApplyMessage
    PROVE  Inv' /\ Pins /\ Keeps
<1>1. PICK i \in DOMAIN chats, at \in 0..MaxActive, mine \in BOOLEAN, atBottom \in BOOLEAN :
        FoldMessage(i, at, mine, atBottom)
  BY DEF ApplyMessage
<1> DEFINE open == current = chats[i].id /\ mode \in {"conversation", "insert"}
           counts == ~mine /\ ~(open /\ atBottom)
           floats == chats[i].id \in Low \/ at <= chats[i].active
           list == [chats EXCEPT ![i].unread = IF counts THEN @ + 1 ELSE @,
                                 ![i].active = IF chats[i].id \in Low \/ at <= @ THEN @ ELSE at]
<1>2. (counts => chats[i].unread < MaxUnread) /\ Resort(list)
  BY <1>1 DEF FoldMessage
<1>3. counts \in BOOLEAN /\ floats \in BOOLEAN
  OBVIOUS
<1>4. list = [chats EXCEPT ![i].unread = IF counts THEN @ + 1 ELSE @,
                           ![i].active = IF floats THEN @ ELSE at]
  OBVIOUS
<1> HIDE DEF counts, floats, list
<1>5. ListOK(list)
  BY <1>2, <1>3, <1>4, FoldMessageOK DEF Inv, Orderly
<1> QED
  BY <1>2, <1>5, ResortStep DEF ApplyMessage

(* The places a conversation is left for. *)
LEMMA LeaveElsewhere ==
    ASSUME Inv, (mode # "search" /\ LeaveConversation) \/ StayHere, UNCHANGED <<height, query, listPos>>
    PROVE  Elsewhere'
BY DEF LeaveConversation, StayHere, Inv, Elsewhere, Modes, Tabs

LEMMA ArchivedStep ==
    ASSUME Inv, Archived
    PROVE  Inv' /\ Pins /\ Keeps
<1>1. PICK c \in Chats, to \in BOOLEAN : ApplyArchive(c, to)
  BY DEF Archived
<1> DEFINE L == WithArchived(c, to)
           Leaves == to /\ mode = "conversation" /\ current = c
<1>2. /\ ListOK(L) /\ DOMAIN L = DOMAIN chats
      /\ \A i \in DOMAIN chats : /\ L[i].id = chats[i].id
                                 /\ chats[i].id = c => L[i].archived = to
  BY WithArchivedOK DEF Inv, Orderly
<1>3. OnRow(L, selected)
  BY <1>2 DEF Inv, Orderly, OnRow, WithArchived
<1>4. \A i \in DOMAIN L : L[i].id = SelectedID => i = selected
  BY <1>2 DEF Inv, Orderly, ListOK, OnRow, Distinct, SelectedID
<1>5. /\ Leaves => LeaveConversation /\ IF returnToChat
                                        THEN chats' = L /\ UNCHANGED <<selected, offset>>
                                        ELSE FirstVisible(L, selected, offset)
      /\ ~Leaves => StayHere /\ FirstVisible(L, selected, offset)
  BY <1>1 DEF ApplyArchive
<1> HIDE DEF L
<1>6. Elsewhere' /\ height' \in Heights
  BY <1>5, LeaveElsewhere DEF Archived, Inv, Elsewhere
<1>7. CASE Leaves /\ returnToChat
  <2>1. chats' = L /\ selected' = selected /\ offset' = offset /\ mode' = "chat"
    BY <1>5, <1>7 DEF LeaveConversation
  <2>2. Orderly'
    BY <1>2, <1>3, <2>1 DEF Inv, Orderly, CursorOnScreen
  <2>3. Pins
    BY <1>4, <2>1 DEF Pins, Visible
  <2>4. Keeps
    BY <1>2, <1>7, <2>1 DEF Keeps
  <2> QED
    BY <1>6, <2>2, <2>3, <2>4 DEF Inv
<1>8. CASE ~(Leaves /\ returnToChat)
  <2>1. FirstVisible(L, selected, offset)
    BY <1>5, <1>8
  <2>2. /\ Orderly' /\ chats' = L
        /\ selected \in Visible(tab', query', L) => selected' = selected
    BY <1>2, <1>3, <1>6, <2>1, FirstVisibleOrderly DEF Inv, Orderly
  <2>3. Pins
    BY <1>4, <2>2 DEF Pins, Visible
  <2>4. Keeps
    BY <1>2, <1>5, <2>2 DEF Keeps, StayHere
  <2> QED
    BY <1>6, <2>2, <2>3, <2>4 DEF Inv
<1> QED
  BY <1>7, <1>8

LEMMA ApplyDeletedStep ==
    ASSUME Inv, ApplyDeleted
    PROVE  Inv' /\ Pins /\ Keeps
<1>1. PICK gone \in Chats : \E kept \in Kept(gone) :
        LET sel == ReselectByID(kept, SelectedID)
            V == Visible(tab, NoQuery, kept)
        IN  IF current = gone /\ mode \in {"conversation", "insert"}
            THEN /\ LeaveConversation
                 /\ IF returnToChat
                    THEN FirstVisible(kept, sel, offset)
                    ELSE \E i \in Landing(V, selected) :
                           FirstVisible(kept, sel, Clamp(PosOf(V, i), offset))
            ELSE StayHere /\ FirstVisible(kept, sel, offset)
  BY DEF ApplyDeleted
<1>2. PICK kept \in Kept(gone) :
        LET sel == ReselectByID(kept, SelectedID)
            V == Visible(tab, NoQuery, kept)
        IN  IF current = gone /\ mode \in {"conversation", "insert"}
            THEN /\ LeaveConversation
                 /\ IF returnToChat
                    THEN FirstVisible(kept, sel, offset)
                    ELSE \E i \in Landing(V, selected) :
                           FirstVisible(kept, sel, Clamp(PosOf(V, i), offset))
            ELSE StayHere /\ FirstVisible(kept, sel, offset)
  BY <1>1
<1> DEFINE sel == ReselectByID(kept, SelectedID)
<1>3. ListOK(kept) /\ \A i \in DOMAIN kept : kept[i].id # gone
  BY KeptList DEF Inv, Orderly, ListOK
<1>4. OnRow(kept, sel)
  BY <1>3, ReselectOnRow DEF ListOK
<1>5. \A i \in DOMAIN kept : kept[i].id = SelectedID => i = sel
  BY <1>3, Found DEF ListOK, ReselectByID, Has
<1> HIDE DEF sel
<1>6. Elsewhere' /\ height' \in Heights
  <2>1. (mode # "search" /\ LeaveConversation) \/ StayHere
    BY <1>2
  <2> QED
    BY <2>1, LeaveElsewhere DEF ApplyDeleted, Inv, Elsewhere
<1>7. StayHere \/ current = gone
  BY <1>2
<1>8. PICK off \in Nat \ {0} : FirstVisible(kept, sel, off)
  <2>1. offset \in Nat \ {0}
    BY DEF Inv, Orderly
  <2>2. CASE FirstVisible(kept, sel, offset)
    BY <2>1, <2>2
  <2>3. CASE \E i \in Landing(Visible(tab, NoQuery, kept), selected) :
               FirstVisible(kept, sel, Clamp(PosOf(Visible(tab, NoQuery, kept), i), offset))
    <3>1. PICK i \in Landing(Visible(tab, NoQuery, kept), selected) :
            FirstVisible(kept, sel, Clamp(PosOf(Visible(tab, NoQuery, kept), i), offset))
      BY <2>3
    <3>2. PosOf(Visible(tab, NoQuery, kept), i) \in Nat
      BY <1>3, PosType DEF ListOK
    <3>3. Clamp(PosOf(Visible(tab, NoQuery, kept), i), offset) \in Nat \ {0}
      BY <1>6, <2>1, <3>2, ClampShows
    <3> QED
      BY <3>1, <3>3
  <2> QED
    BY <1>2, <2>2, <2>3 DEF sel
<1>9. /\ Orderly' /\ chats' = kept
      /\ sel \in Visible(tab', query', kept) => selected' = sel
  BY <1>3, <1>4, <1>6, <1>8, FirstVisibleOrderly
<1>10. Pins
  BY <1>5, <1>9 DEF Pins, Visible
<1>11. Keeps
  BY <1>3, <1>7, <1>9 DEF Keeps, StayHere
<1> QED
  BY <1>6, <1>9, <1>10, <1>11 DEF Inv

LEMMA StepInv ==
    ASSUME Inv, [Next]_vars
    PROVE  /\ Inv'
           /\ [Pins]_vars
           /\ [Keeps]_vars
<1>1. CASE User
  BY <1>1, UserStep DEF Pins, Keeps
<1>2. CASE ListLoaded
  BY <1>2, AnswersOK, PinStep DEF ListLoaded
<1>3. CASE ChatRefreshed
  BY <1>3, MergeOK, ResortStep DEF ChatRefreshed, Inv, Orderly
<1>4. CASE Archived
  BY <1>4, ArchivedStep
<1>5. CASE ApplyMessage
  BY <1>5, ApplyMessageStep
<1>6. CASE ApplyDeleted
  BY <1>6, ApplyDeletedStep
<1>7. CASE UNCHANGED vars
  BY <1>7 DEF vars, listVars, openVars, Inv, Orderly, Elsewhere, CursorOnScreen
<1> QED
  BY <1>1, <1>2, <1>3, <1>4, <1>5, <1>6, <1>7 DEF Next, Background

THEOREM ChatListInductive == Spec => []Inv
<1>1. Init => Inv
  BY InitInv
<1>2. Inv /\ [Next]_vars => Inv'
  BY StepInv
<1> QED
  BY <1>1, <1>2, PTL DEF Spec

-----------------------------------------------------------------------------
(* The theorems. *)

(* The cursor is on a row whatever rewrites the list, and no conversation is
   open without a chat. *)
THEOREM ChatListTypeCorrect == Spec => []TypeOK
BY ChatListInductive, Parts, PTL

(* No list, refetch or event gives a chat a second row. *)
THEOREM ChatListOneRowPerChat == Spec => []OneRowPerChat
BY ChatListInductive, Parts, PTL

(* The window follows the cursor through every re-sort and resize. *)
THEOREM ChatListCursorOnScreen == Spec => []CursorOnScreen
BY ChatListInductive, Parts, PTL

(* The cursor stays on its chat through every change of the list that leaves
   the chat in the tab. *)
THEOREM ChatListSelectionPinned == Spec => SelectionPinned
<1>1. Inv /\ [Next]_vars => [Pins]_vars
  BY StepInv
<1> QED
  BY <1>1, ChatListInductive, PTL DEF Spec, SelectionPinned, Pins

(* Only its own chat's archiving or deletion closes a conversation. *)
THEOREM ChatListKeepsConversation == Spec => KeepsConversation
<1>1. Inv /\ [Next]_vars => [Keeps]_vars
  BY StepInv
<1> QED
  BY <1>1, ChatListInductive, PTL DEF Spec, KeepsConversation, Keeps
=============================================================================
