------------------------------ MODULE ChatList ------------------------------
(***************************************************************************)
(* The chat list of internal/ui: the tabs that filter it, the cursor and   *)
(* the window that follow it through every re-sort, the ways into a        *)
(* conversation and out of it, and the results of archiving.               *)
(*                                                                         *)
(* The poll, loads after a reconnect, refetches of single chats, archive   *)
(* requests and live events rewrite the list at any moment, in any order,  *)
(* with answers that may be stale.  Nothing here depends on which of them  *)
(* are in flight or on what the server holds, so each may come at any time *)
(* with any chats.                                                         *)
(*                                                                         *)
(* Indexes and positions count from 1, as sequences do; 0 stands for the   *)
(* code's -1.  Unread stands for the tabs that filter by one flag, the     *)
(* others being Mentions, Pinned and Low Priority.  Titles matter to the    *)
(* query of a search only, which is the set of the chats it matches.       *)
(* Previews, found messages, loading and error screens, the lock that lets *)
(* one archive request run at a time, and quitting are left out.           *)
(***************************************************************************)
EXTENDS Naturals, Sequences, FiniteSets

CONSTANTS
    Chats,
    NoChat,
    NoQuery,
    Low,       \* the chats that are muted or of low priority
    Pinned,    \* the pinned ones
    Heights,   \* the values of visibleRows
    MaxUnread, \* bound: unread messages counted in a chat
    MaxActive  \* bound: times of the last activity

ASSUME ChatsAssumption ==
    NoChat \notin Chats /\ IsFiniteSet(Chats) /\ \A q \in SUBSET Chats : q # NoQuery
ASSUME HeightsAssumption == Heights \subseteq Nat \ {0}
ASSUME BoundsAssumption == MaxUnread \in Nat /\ MaxActive \in Nat

VARIABLES
    mode,         \* m.mode
    tab,          \* m.tab
    chats,        \* m.chats
    selected,     \* m.selected
    offset,       \* m.offset
    height,       \* visibleRows
    query,        \* m.searchQuery: the chats it matches, NoQuery when empty or not in a search
    listPos,      \* m.listPos
    current,      \* m.currentChatID
    returnToChat  \* m.returnToChat

listVars == <<chats, selected, offset>>
openVars == <<listPos, current, returnToChat>>
vars == <<mode, tab, height, query, listVars, openVars>>

TabOrder == <<"inbox", "unread", "archive", "chat">>
Tabs == {"inbox", "unread", "archive", "chat"}
Modes == {"list", "conversation", "insert", "react", "search", "chat"}

Records == [id : Chats, unread : 0..MaxUnread, archived : BOOLEAN, active : 0..MaxActive]

Has(list, c) == \E i \in DOMAIN list : list[i].id = c
IndexOf(list, c) == CHOOSE i \in DOMAIN list : list[i].id = c
Distinct(list) == \A i, j \in DOMAIN list : list[i].id = list[j].id => i = j

(* The lists the server may answer with. *)
Lists ==
    {list \in UNION {[1..n -> Records] : n \in 0..Cardinality(Chats)} : Distinct(list)}

TypeOK ==
    /\ mode \in Modes /\ tab \in Tabs
    /\ chats \in Seq(Records)
    /\ selected \in DOMAIN chats \/ (chats = <<>> /\ selected = 1)
    /\ offset \in Nat \ {0} /\ height \in Heights /\ listPos \in Nat
    /\ query \in {NoQuery} \cup SUBSET Chats
    /\ mode # "search" => query = NoQuery
    /\ current \in Chats \cup {NoChat} /\ returnToChat \in BOOLEAN
    /\ mode \in {"conversation", "insert", "react"} => current # NoChat

-----------------------------------------------------------------------------
(* What a tab or a query shows, in which order, and the window on it. *)

Includes(t, c) ==
    IF c.archived
    THEN t = "archive"
    ELSE \/ t = "inbox" /\ c.id \notin Low
         \/ t = "unread" /\ c.unread > 0

Visible(t, q, list) ==
    {i \in DOMAIN list : IF q = NoQuery THEN Includes(t, list[i]) ELSE list[i].id \in q}

(* The place of index i among the visible ones, 0 for none, and the index at
   a place. *)
PosOf(V, i) == IF i \in V THEN Cardinality({j \in V : j <= i}) ELSE 0
At(V, p) == {i \in V : PosOf(V, i) = p}

Before(c, d) ==
    \/ c.id \in Pinned /\ d.id \notin Pinned
    \/ (c.id \in Pinned <=> d.id \in Pinned) /\ c.active > d.active

(* The stable sort of a list, as the set of its only member. *)
Sorted(list) ==
    LET Ahead(i, j) == \/ Before(list[i], list[j])
                       \/ ~Before(list[j], list[i]) /\ i < j
        Orders == {p \in [DOMAIN list -> DOMAIN list] :
                      \A j, k \in DOMAIN list : j < k => Ahead(p[j], p[k])}
    IN  {[k \in DOMAIN list |-> list[p[k]]] : p \in Orders}

(* The lists the server may answer with, sorted. *)
Answers == UNION {Sorted(list) : list \in Lists}

(* NoChat when nothing is selected. *)
SelectedID == IF selected \in DOMAIN chats THEN chats[selected].id ELSE NoChat

(* Fault: the cursor keeps its row, not its chat. *)
ReselectRow(list, c) == selected

ReselectByID(list, c) == IF Has(list, c) THEN IndexOf(list, c) ELSE 1

(* Fault: the window lets the cursor go one row too far. *)
ClampLate(p, off) ==
    IF p = 0 THEN 1
    ELSE IF p < off THEN p
    ELSE IF p > off + height' THEN p - height' + 1 ELSE off

(* clampWindow in the list, for a cursor in place p. *)
Clamp(p, off) ==
    IF p = 0 THEN 1
    ELSE IF p < off THEN p
    ELSE IF p >= off + height' THEN p - height' + 1 ELSE off

(* Show this list with the cursor on index sel and the window near off; the
   window is put right in the list only. *)
Show(list, sel, off) ==
    /\ chats' = list
    /\ selected' = sel
    /\ offset' = IF mode' = "list" THEN Clamp(PosOf(Visible(tab', query', list), sel), off) ELSE off

(* resortKeepingSelection, of a list that is sorted and of one that is not. *)
Pin(s) == Show(s, ReselectByID(s, SelectedID), offset)
Resort(list) == \E s \in Sorted(list) : Pin(s)

(* selectFirstVisibleChat. *)
FirstVisible(list, sel, off) ==
    LET V == Visible(tab', query', list) IN
      IF V = {}
      THEN chats' = list /\ selected' = sel /\ offset' = 1
      ELSE \E i \in (IF sel \in V THEN {sel} ELSE At(V, 1)) : Show(list, i, off)

(* Where backToList puts a cursor that is on no visible chat. *)
Landing(V, sel) ==
    IF sel \in V \/ V = {} THEN {sel}
    ELSE At(V, IF listPos = 0 THEN 1
               ELSE IF listPos > Cardinality(V) THEN Cardinality(V) ELSE listPos)

(* A cold start, or one from the cache, once the size of the window is
   known. *)
Init ==
    /\ mode = "list" /\ tab = "inbox"
    /\ height \in Heights /\ query = NoQuery
    /\ chats \in Answers
    /\ selected \in DOMAIN chats \/ (chats = <<>> /\ selected = 1)
    /\ LET p == PosOf(Visible(tab, query, chats), selected) IN
         offset = IF p > height THEN p - height + 1 ELSE 1
    /\ listPos = 1 /\ current = NoChat /\ returnToChat = FALSE

-----------------------------------------------------------------------------
(* The user. *)

CursorTo(p) == \E i \in At(Visible(tab, query, chats), p) : Show(chats, i, offset)

(* j and k, half a page up or down, G and gg.  A cursor on no visible chat
   does not step. *)
MoveCursor ==
    /\ mode = "list"
    /\ UNCHANGED <<mode, tab, height, query, openVars>>
    /\ LET V == Visible(tab, query, chats)
           n == Cardinality(V)
           p == PosOf(V, selected)
           half == IF height < 4 THEN 1 ELSE height \div 2
           from == IF p = 0 THEN 1 ELSE p
       IN  \/ p > 0 /\ \E q \in 1..n : (q = p + 1 \/ q + 1 = p) /\ CursorTo(q)
           \/ n > 0 /\ CursorTo(IF from + half > n THEN n ELSE from + half)
           \/ n > 0 /\ CursorTo(IF from <= half THEN 1 ELSE from - half)
           \/ n > 0 /\ (CursorTo(1) \/ CursorTo(n))

Resize ==
    /\ height' \in Heights
    /\ UNCHANGED <<mode, tab, query, openVars>>
    /\ Show(chats, selected, offset)

NextTabs(t) ==
    LET n == Len(TabOrder)
        i == CHOOSE i \in 1..n : TabOrder[i] = t
    IN  {TabOrder[(i % n) + 1], TabOrder[((i + n - 2) % n) + 1]}

CycleTab ==
    /\ mode \in {"list", "chat"}
    /\ tab' \in NextTabs(tab)
    /\ UNCHANGED <<height, query, openVars>>
    /\ IF tab' = "chat"
       THEN mode' = "chat" /\ UNCHANGED listVars
       ELSE /\ mode' = "list"
            /\ LET V == Visible(tab', query', chats) IN
                 \E i \in (IF V = {} THEN {selected} ELSE At(V, 1)) : Show(chats, i, 1)

(* Enter a chat, from the list with the cursor on sel. *)
OpenChat(c, sel) ==
    /\ mode' = "conversation"
    /\ current' = c
    /\ selected' = sel
    /\ query' = NoQuery
    /\ listPos' = PosOf(Visible(tab, NoQuery, chats), sel)
    /\ UNCHANGED <<tab, height, chats, offset>>

OpenSelected ==
    /\ mode = "list" /\ selected \in DOMAIN chats
    /\ OpenChat(chats[selected].id, selected)
    /\ UNCHANGED returnToChat

(* A chat the assistant named. *)
OpenLink ==
    /\ mode = "chat"
    /\ \E i \in DOMAIN chats : OpenChat(chats[i].id, i)
    /\ returnToChat' = TRUE

(* The search finds messages of any chat, listed here or not. *)
OpenResult ==
    /\ mode = "search"
    /\ \E c \in Chats : OpenChat(c, IF Has(chats, c) THEN IndexOf(chats, c) ELSE selected)
    /\ UNCHANGED returnToChat

Back ==
    /\ mode = "conversation"
    /\ UNCHANGED <<query, listPos, current>>
    /\ IF returnToChat
       THEN mode' = "chat" /\ tab' = "chat" /\ UNCHANGED <<height, listVars>>
       ELSE /\ mode' = "list" /\ UNCHANGED <<tab, height>>
            /\ \E i \in Landing(Visible(tab, query, chats), selected) : Show(chats, i, offset)
    /\ returnToChat' = FALSE

(* i, r and / and the keys that undo them; leaving the search also puts the
   window right. *)
ChangeMode ==
    /\ \/ mode = "conversation" /\ mode' \in {"insert", "react", "search"}
       \/ mode \in {"insert", "react"} /\ mode' = "conversation"
       \/ mode = "list" /\ mode' = "search"
       \/ mode = "search" /\ mode' = "list"
    /\ query' = NoQuery
    /\ UNCHANGED <<tab, height, openVars>>
    /\ Show(chats, selected, offset)

EditQuery ==
    /\ mode = "search"
    /\ query' \in {NoQuery} \cup SUBSET Chats
    /\ UNCHANGED <<mode, tab, height, listVars, openVars>>

-----------------------------------------------------------------------------
(* Answers. *)

(* The poll and a load end alike. *)
ListLoaded ==
    /\ UNCHANGED <<mode, tab, height, query, openVars>>
    /\ \E s \in Answers : Pin(s)

Merge(c) == IF Has(chats, c.id) THEN [chats EXCEPT ![IndexOf(chats, c.id)] = c]
            ELSE Append(chats, c)

ChatRefreshed ==
    /\ UNCHANGED <<mode, tab, height, query, openVars>>
    /\ \E c \in Records : Resort(Merge(c))

(* The way out of a conversation that is no more, to the assistant when it
   was opened from there. *)
LeaveConversation ==
    /\ mode' = IF returnToChat THEN "chat" ELSE "list"
    /\ tab' = IF returnToChat THEN "chat" ELSE tab
    /\ returnToChat' = FALSE
    /\ current' = NoChat

StayHere == UNCHANGED <<mode, tab, returnToChat, current>>

WithArchived(c, to) ==
    [i \in DOMAIN chats |->
       IF chats[i].id = c THEN [chats[i] EXCEPT !.archived = to] ELSE chats[i]]

(* Fault: whatever conversation is open is closed. *)
ApplyArchiveAnyChat(c, to) ==
    LET list == WithArchived(c, to) IN
      IF to /\ mode = "conversation"
      THEN /\ LeaveConversation
           /\ IF returnToChat
              THEN chats' = list /\ UNCHANGED <<selected, offset>>
              ELSE FirstVisible(list, selected, offset)
      ELSE StayHere /\ FirstVisible(list, selected, offset)

ApplyArchive(c, to) ==
    LET list == WithArchived(c, to) IN
      IF to /\ mode = "conversation" /\ current = c
      THEN /\ LeaveConversation
           /\ IF returnToChat
              THEN chats' = list /\ UNCHANGED <<selected, offset>>
              ELSE FirstVisible(list, selected, offset)
      ELSE StayHere /\ FirstVisible(list, selected, offset)

(* The archive request of a chat has succeeded; a failure is only reported. *)
Archived ==
    /\ UNCHANGED <<height, query, listPos>>
    /\ \E c \in Chats, to \in BOOLEAN : ApplyArchive(c, to)

-----------------------------------------------------------------------------
(* Live events. *)

(* A message at time at, the user's own or not, of a conversation at its
   bottom or not.  It is read on arrival or counted; only a chat of normal
   priority floats.  A message of an unknown chat leads to a load. *)
FoldMessage(i, at, mine, atBottom) ==
    LET open == current = chats[i].id /\ mode \in {"conversation", "insert"}
        counts == ~mine /\ ~(open /\ atBottom)
    IN  /\ counts => chats[i].unread < MaxUnread
        /\ Resort([chats EXCEPT
                     ![i].unread = IF counts THEN @ + 1 ELSE @,
                     ![i].active = IF chats[i].id \in Low \/ at <= @ THEN @ ELSE at])

ApplyMessage ==
    /\ UNCHANGED <<mode, tab, height, query, openVars>>
    /\ \E i \in DOMAIN chats, at \in 0..MaxActive, mine, atBottom \in BOOLEAN :
          FoldMessage(i, at, mine, atBottom)

(* The list without one chat, again as the set of its only member. *)
Kept(gone) ==
    LET stay == {i \in DOMAIN chats : chats[i].id # gone}
        Orders == {p \in [1..Cardinality(stay) -> stay] :
                      \A j, k \in 1..Cardinality(stay) : j < k => p[j] < p[k]}
    IN  {[k \in 1..Cardinality(stay) |-> chats[p[k]]] : p \in Orders}

(* Going back to the list lands near where the chat was, but then the
   selection is looked up by the ID it had before. *)
ApplyDeleted ==
    /\ UNCHANGED <<height, query, listPos>>
    /\ \E gone \in Chats : \E kept \in Kept(gone) :
         LET sel == ReselectByID(kept, SelectedID)
             V == Visible(tab, NoQuery, kept)
         IN  IF current = gone /\ mode \in {"conversation", "insert"}
             THEN /\ LeaveConversation
                  /\ IF returnToChat
                     THEN FirstVisible(kept, sel, offset)
                     ELSE \E i \in Landing(V, selected) :
                            FirstVisible(kept, sel, Clamp(PosOf(V, i), offset))
             ELSE StayHere /\ FirstVisible(kept, sel, offset)

-----------------------------------------------------------------------------

User ==
    \/ MoveCursor \/ Resize \/ CycleTab \/ OpenSelected \/ OpenLink \/ OpenResult \/ Back
    \/ ChangeMode \/ EditQuery

Background == ListLoaded \/ ChatRefreshed \/ Archived \/ ApplyMessage \/ ApplyDeleted

Next == User \/ Background

Spec == Init /\ [][Next]_vars

-----------------------------------------------------------------------------
(* Properties. *)

(* A chat has one row, whether it came with a list, a refetch or an event
   (wsevents.go:272-284). *)
OneRowPerChat == Distinct(chats)

(* In the list a cursor that is on a chat of the tab is on screen: however
   the list is re-sorted, shortened or filtered under it and the terminal
   resized, the window follows (nav.go:150-166, wsevents.go:286-300). *)
CursorOnScreen ==
    LET p == PosOf(Visible(tab, query, chats), selected) IN
      mode = "list" /\ p > 0 => offset <= p /\ p < offset + height

(* "Pin the user's selection across the re-sort by chat ID, so unread chats
   can float to the top without the cursor jumping to a different chat"
   (update.go:22-24): whatever changes the list, and no key does, leaves the
   cursor on its chat as long as the tab or the query shows that chat. *)
SelectionPinned ==
    [][chats' # chats =>
         \A i \in Visible(tab', query', chats') : chats'[i].id = SelectedID => selected' = i]_vars

(* An answer or an event that comes late closes no conversation but the one
   whose chat was archived or deleted (nav.go:392, wsevents.go:244). *)
KeepsConversation ==
    [][/\ chats' # chats
       /\ mode \in {"conversation", "insert", "react"} /\ mode' # mode
       => \A i \in DOMAIN chats' : chats'[i].id = current => chats'[i].archived]_vars
=============================================================================
