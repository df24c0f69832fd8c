-------------------------- MODULE LifecycleProofs --------------------------
(***************************************************************************)
(* What one run of the program leaves to the next: the user's decisions    *)
(* and the list on screen when it was left.  For any chats and names, and  *)
(* any number of runs, waits, mishaps and edits.                           *)
(***************************************************************************)
EXTENDS Lifecycle, TLAPS

-----------------------------------------------------------------------------
(* The merge decisions. *)

(* The decisions that were read are the user's, unless the file has been   *)
(* edited since; so writing them back loses none.                          *)
DecisionsInv ==
    /\ DecisionsKept
    /\ mergeFile \in Policies \cup {Unreadable}
    /\ policy \in Policies \cup {None}
    /\ pc \in {"index", "decisions", "rewrite"} => policy \in Policies
    /\ policy \in Policies /\ ~edited /\ word # None => policy.verdict = word

LEMMA BlankIsPolicy == Blank \in Policies /\ Blank.verdict = Undecided
  BY DEF Blank, Undecided, Policies

LEMMA DecisionsInit == Init => DecisionsInv
<1> SUFFICES ASSUME Init PROVE DecisionsInv
  OBVIOUS
<1>1. mergeFile = Blank /\ policy = None /\ word = Undecided /\ pc = "off"
  BY DEF Init
<1> QED
  BY <1>1, BlankIsPolicy, NoneAssumption DEF DecisionsInv, DecisionsKept

(* An action that leaves the file and the user's word alone. *)
LEMMA DecisionsStay ==
    ASSUME DecisionsInv, mergeFile' = mergeFile, word' = word, pc # "rewrite" \/ pc' = "rewrite",
           \/ policy' = None /\ pc' \notin {"index", "decisions", "rewrite"}
           \/ /\ policy' = policy /\ edited' = edited
              /\ pc' \in {"index", "decisions", "rewrite"} => pc \in {"index", "decisions", "rewrite"}
    PROVE  DecisionsInv'
  BY NoneAssumption DEF DecisionsInv, DecisionsKept

LEMMA BeginKeepsDecisions == DecisionsInv /\ Begin => DecisionsInv'
<1> SUFFICES ASSUME DecisionsInv, Begin PROVE DecisionsInv'
  OBVIOUS
<1>1. CASE Probe \/ OpenDesktop \/ Wait \/ LoadCache \/ RunScreen
  BY <1>1, DecisionsStay DEF Probe, OpenDesktop, Wait, LoadCache, RunScreen, mergeVars
<1>2. CASE StartFails
  BY <1>2, DecisionsStay DEF StartFails, Gone
<1>3. CASE LoadMergePolicy
  <2>1. /\ policy' = [verdict |-> mergeFile.verdict, pending |-> {}]
        /\ mergeFile # Unreadable /\ mergeFile' = mergeFile /\ word' = word
        /\ pc = "merges" /\ pc' = "index" /\ edited' = FALSE
    BY <1>3 DEF LoadMergePolicy
  <2>2. mergeFile \in Policies /\ policy' \in Policies
    BY <2>1 DEF DecisionsInv, Policies
  <2>3. policy'.verdict = mergeFile.verdict
    BY <2>1
  <2> QED
    BY <2>1, <2>2, <2>3 DEF DecisionsInv, DecisionsKept
<1>4. CASE SessionVault
  <2>1. PICK found \in SUBSET Names : policy' = [policy EXCEPT !.pending = found]
    BY <1>4 DEF SessionVault
  <2>2. pc = "index" /\ pc' = "decisions" /\ UNCHANGED <<mergeFile, edited, word>>
    BY <1>4 DEF SessionVault
  <2>3. policy \in Policies
    BY <2>2 DEF DecisionsInv
  <2>4. policy' \in Policies /\ policy'.verdict = policy.verdict
    BY <2>1, <2>3 DEF Policies
  <2> QED
    BY <2>2, <2>3, <2>4 DEF DecisionsInv, DecisionsKept
<1>5. CASE SaveMergePolicy
  <2>1. /\ pc = "decisions" /\ pc' \in {"ui", "rewrite"} /\ UNCHANGED <<policy, edited, word>>
        /\ (mergeFile' = mergeFile) \/ (mergeFile' = Blank /\ pc' = "rewrite")
    BY <1>5 DEF SaveMergePolicy
  <2> QED
    BY <2>1, BlankIsPolicy DEF DecisionsInv, DecisionsKept
<1>6. CASE RewriteMerges
  <2>1. /\ pc = "rewrite" /\ pc' = "ui" /\ UNCHANGED <<policy, edited>>
        /\ \/ mergeFile' = policy /\ word' = IF edited THEN None ELSE word
           \/ mergeFile' = mergeFile /\ word' = None
    BY <1>6 DEF RewriteMerges
  <2> QED
    BY <2>1 DEF DecisionsInv, DecisionsKept
<1> QED
  BY <1>1, <1>2, <1>3, <1>4, <1>5, <1>6 DEF Begin

LEMMA EditKeepsDecisions == DecisionsInv /\ HandEdit => DecisionsInv'
<1> SUFFICES ASSUME DecisionsInv, HandEdit PROVE DecisionsInv'
  OBVIOUS
<1>1. /\ pc' = pc /\ policy' = policy /\ edited' = (policy # None)
      /\ word' = IF mergeFile' = Unreadable THEN Undecided ELSE mergeFile'.verdict
  BY DEF HandEdit, mainVars
<1>2. mergeFile' \in Policies \cup {Unreadable}
  <2>1. CASE mergeFile' = Unreadable
    BY <2>1
  <2>2. ASSUME NEW n \in Names, NEW v \in {"approved", "denied", "none"}, NEW old \in Policies,
               mergeFile' = [old EXCEPT !.verdict[n] = v, !.pending = @ \ {n}]
        PROVE  mergeFile' \in Policies
    <3>1. mergeFile' = [verdict |-> [old.verdict EXCEPT ![n] = v], pending |-> old.pending \ {n}]
      BY <2>2 DEF Policies
    <3> QED
      BY <3>1 DEF Policies
  <2>3. (IF mergeFile = Unreadable THEN Blank ELSE mergeFile) \in Policies
    BY BlankIsPolicy DEF DecisionsInv
  <2> QED
    BY <2>1, <2>2, <2>3 DEF HandEdit
<1> QED
  BY <1>1, <1>2, NoneAssumption DEF DecisionsInv, DecisionsKept

LEMMA DecisionsStep == DecisionsInv /\ [Next]_vars => DecisionsInv'
<1> SUFFICES ASSUME DecisionsInv, [Next]_vars PROVE DecisionsInv'
  OBVIOUS
<1>1. CASE Start \/ Quit \/ Exit \/ DesktopChanges
  BY <1>1, DecisionsStay DEF Start, Quit, Exit, Gone, DesktopChanges, mergeVars
<1>2. CASE Screen
  <2>1. pc' = pc /\ UNCHANGED mergeVars
    BY <1>2 DEF Screen, ListArrives, ListFails, PollTick, Reconnect, RetryConnection, ChangeInPlace,
                ChatRefreshed, ContactsArrive, MoveCursor, DebounceEnds, mainVars
  <2> QED
    BY <2>1, DecisionsStay DEF mergeVars
<1>3. CASE Saving
  <2>1. pc' = pc /\ UNCHANGED mergeVars
    BY <1>3 DEF Saving, SaverEncodes, SaverEmpties, SaverWrites, LastEmpties, LastWrites, mainVars
  <2> QED
    BY <2>1, DecisionsStay DEF mergeVars
<1>4. CASE Kill
  <2>1. /\ pc' = "off" /\ policy' = None /\ mergeFile' = mergeFile
        /\ word' = IF pc = "rewrite" THEN None ELSE word
    BY <1>4 DEF Kill, Gone
  <2> QED
    BY <2>1, NoneAssumption DEF DecisionsInv, DecisionsKept
<1>5. CASE UNCHANGED vars
  BY <1>5, DecisionsStay DEF vars, mainVars, mergeVars
<1> QED
  BY <1>1, <1>2, <1>3, <1>4, <1>5, BeginKeepsDecisions, EditKeepsDecisions DEF Next

(* No run's rewrite of the file loses a decision of the user               *)
(* (main.go:74-89, mergefile.go:74-135).                                   *)
THEOREM DecisionsAreKept == Spec => []DecisionsKept
<1>1. DecisionsInv => DecisionsKept
  BY DEF DecisionsInv
<1> QED
  BY <1>1, DecisionsInit, DecisionsStep, PTL DEF Spec

-----------------------------------------------------------------------------
(* The list that was on screen. *)

(* The cursor is on a row whenever there are rows. *)
CursorInv ==
    /\ chats \subseteq Chats
    /\ chats # {} => selected \in chats

(* What is owed to the next run is in the file, or the save on quit holds  *)
(* it and nothing else writes.                                             *)
OwedInv ==
    /\ last # Idle => pc = "quitting" /\ last.phase \in {"empty", "write"}
    /\ owed # None =>
        /\ owed \in Snapshots /\ owed.selected \in owed.chats
        /\ saver.phase # "write"
        /\ last = Idle => cacheFile = owed
        /\ last # Idle => /\ last.snap = owed /\ saver = Idle
                          /\ last.phase = "write" => cacheFile = Empty

(* A save that is under way has a snapshot to write. *)
UnderWay(s) == s \in Saves /\ (s.phase # "idle" => s.snap \in Snapshots)

QuitInv == CursorInv /\ OwedInv /\ UnderWay(saver) /\ UnderWay(last)

LEMMA SaveKinds ==
    /\ Idle.phase = "idle" /\ UnderWay(Idle)
    /\ \A s : /\ Encoding(s) # Idle /\ Encoding(s).phase = "encode"
              /\ Encoded(s) # Idle /\ Encoded(s).phase = "empty" /\ Encoded(s).snap = s
    /\ \A s \in Snapshots : UnderWay(Encoding(s)) /\ UnderWay(Encoded(s))
<1>1. Idle.phase = "idle" /\ Idle \in Saves
  BY DEF Idle, Saves
<1>2. \A s : /\ Encoding(s) # Idle /\ Encoding(s).phase = "encode" /\ Encoding(s).snap = s
            /\ Encoded(s) # Idle /\ Encoded(s).phase = "empty" /\ Encoded(s).snap = s
  BY DEF Idle, Encoding, Encoded
<1>3. \A s \in Snapshots : Encoding(s) \in Saves /\ Encoded(s) \in Saves
  BY DEF Encoding, Encoded, Saves
<1> QED
  BY <1>1, <1>2, <1>3 DEF UnderWay

LEMMA Moved ==
    ASSUME NEW s, UnderWay(s)
    PROVE  /\ [s EXCEPT !.shared = FALSE].phase = s.phase
           /\ UnderWay([s EXCEPT !.shared = FALSE])
           /\ \A S \in SUBSET Chats : /\ [s EXCEPT !.seen = S].phase = s.phase
                                      /\ UnderWay([s EXCEPT !.seen = S])
           /\ s.phase # "idle" => UnderWay([s EXCEPT !.phase = "write"])
           /\ [s EXCEPT !.phase = "write"].phase = "write"
           /\ [s EXCEPT !.phase = "write"].snap = s.snap
BY DEF UnderWay, Saves

LEMMA QuitInit == Init => QuitInv
  BY SaveKinds DEF Init, QuitInv, CursorInv, OwedInv

(* The process ends with nothing left to save. *)
LEMMA GoneKeepsOwed ==
    ASSUME QuitInv, Gone, cacheFile' = cacheFile, owed' = owed, last = Idle
    PROVE  QuitInv'
  BY SaveKinds DEF QuitInv, CursorInv, OwedInv, Gone

(* A step of the screen that leaves the file alone, and at most starts or  *)
(* disturbs a save in the background.                                      *)
LEMMA OwedStays ==
    ASSUME QuitInv, CursorInv', UNCHANGED <<cacheFile, last, owed>>,
           pc' = pc \/ last = Idle,
           saver' = saver \/ (/\ pc # "quitting" /\ UnderWay(saver')
                              /\ saver'.phase = "write" => saver.phase = "write")
    PROVE  QuitInv'
  BY DEF QuitInv, OwedInv

LEMMA ScreenKeepsOwed == QuitInv /\ Screen => QuitInv'
<1> SUFFICES ASSUME QuitInv, Screen PROVE QuitInv'
  OBVIOUS
<1>c. CursorInv
  BY DEF QuitInv
<1>1. ASSUME Reselect, chats' \subseteq Chats PROVE CursorInv'
  BY <1>1, <1>c DEF Reselect, CursorInv
<1>s. UnderWay(saver)
  BY DEF QuitInv
<1>d. ASSUME chats' \subseteq Chats
      PROVE  UnderWay(Disturbed(saver)) /\ Disturbed(saver).phase = saver.phase
  <2>1. (IF saver.shared THEN saver.seen \cup chats \cup chats' ELSE saver.seen) \in SUBSET Chats
    BY <1>c, <1>d, <1>s DEF CursorInv, UnderWay, Saves
  <2> QED
    BY <1>s, <2>1, Moved DEF Disturbed
<1>m. ASSUME NEW s, UnderWay(s), s.phase = saver.phase, maybeSaveCache(s), CursorInv'
      PROVE  UnderWay(saver') /\ (saver'.phase = "write" => saver.phase = "write")
  <2>1. CASE saver' = s
    BY <1>m, <2>1
  <2>2. CASE saver' = Encoding([chats |-> chats', selected |-> selected']) /\ chats' # {}
    <3>1. [chats |-> chats', selected |-> selected'] \in Snapshots
      BY <1>m, <2>2 DEF CursorInv, Snapshots
    <3> QED
      BY <2>2, <3>1, SaveKinds
  <2> QED
    BY <1>m, <2>1, <2>2 DEF maybeSaveCache
<1>2. ASSUME NEW k, ListArrives(k) PROVE QuitInv'
  <2>1. CursorInv'
    BY <1>1, <1>2 DEF ListArrives
  <2>2. UnderWay(saver') /\ (saver'.phase = "write" => saver.phase = "write")
    BY <1>2, <1>m, <1>s, <2>1, Moved DEF ListArrives
  <2> QED
    BY <1>2, <2>1, <2>2, OwedStays DEF ListArrives, mainVars
<1>3. CASE ChatRefreshed
  <2>1. PICK c \in Chats : chats' = chats \cup {c}
    BY <1>3 DEF ChatRefreshed
  <2>2. CursorInv'
    BY <1>1, <1>3, <1>c, <2>1 DEF ChatRefreshed, CursorInv
  <2>3. UnderWay(saver') /\ (saver'.phase = "write" => saver.phase = "write")
    BY <1>3, <1>d, <1>m, <2>2 DEF ChatRefreshed, CursorInv
  <2> QED
    BY <1>3, <2>2, <2>3, OwedStays DEF ChatRefreshed, mainVars
<1>4. CASE ChangeInPlace
  <2>1. CursorInv'
    BY <1>1, <1>4, <1>c DEF ChangeInPlace, CursorInv
  <2>2. UnderWay(saver') /\ (saver'.phase = "write" => saver.phase = "write")
    BY <1>4, <1>d, <2>1 DEF ChangeInPlace, CursorInv
  <2> QED
    BY <1>4, <2>1, <2>2, OwedStays DEF ChangeInPlace, mainVars
<1>5. CASE ContactsArrive
  <2>1. CursorInv'
    BY <1>5, <1>c DEF ContactsArrive, uiVars, CursorInv
  <2>2. UnderWay(saver') /\ (saver'.phase = "write" => saver.phase = "write")
    BY <1>5, <1>s, Moved DEF ContactsArrive
  <2> QED
    BY <1>5, <2>1, <2>2, OwedStays DEF ContactsArrive, mainVars
<1>6. CASE MoveCursor
  BY <1>6, <1>c, OwedStays DEF MoveCursor, mainVars, saveVars, CursorInv
<1>7. CASE PollTick \/ Reconnect \/ RetryConnection \/ \E k \in {"load", "poll"} : ListFails(k)
  BY <1>7, <1>c, OwedStays
  DEF PollTick, Reconnect, RetryConnection, ListFails, mainVars, saveVars, CursorInv
<1>8. CASE DebounceEnds
  BY <1>8, <1>c, OwedStays DEF DebounceEnds, mainVars, saveVars, CursorInv
<1> QED
  BY <1>2, <1>3, <1>4, <1>5, <1>6, <1>7, <1>8 DEF Screen

LEMMA SavingKeepsOwed == QuitInv /\ Saving => QuitInv'
<1> SUFFICES ASSUME QuitInv, Saving PROVE QuitInv'
  OBVIOUS
<1>c. CursorInv /\ OwedInv /\ UnderWay(saver) /\ UnderWay(last)
  BY DEF QuitInv
<1>1. CursorInv' /\ pc' = pc
  BY <1>c DEF Saving, SaverEncodes, SaverEmpties, SaverWrites, LastEmpties, LastWrites, mainVars,
              uiVars, CursorInv
<1>2. CASE SaverEncodes
  <2>1. PICK rows \in (SUBSET (saver.snap.chats \cup saver.seen)) \ {{}} :
            saver' = Encoded([saver.snap EXCEPT !.chats = rows])
    BY <1>2 DEF SaverEncodes
  <2>2. saver.phase = "encode" /\ UNCHANGED <<cacheFile, last, owed>>
    BY <1>2 DEF SaverEncodes
  <2>3. [saver.snap EXCEPT !.chats = rows] \in Snapshots
    <3>1. saver.snap \in Snapshots /\ saver.seen \subseteq Chats
      BY <1>c, <2>2 DEF UnderWay, Saves
    <3> QED
      BY <2>1, <3>1 DEF Snapshots
  <2>4. saver'.phase = "empty" /\ UnderWay(saver')
    BY <2>1, <2>3, SaveKinds
  <2>5. saver # Idle
    BY <2>2, SaveKinds
  <2> QED
    BY <1>1, <1>c, <2>2, <2>4, <2>5 DEF QuitInv, OwedInv
<1>3. CASE SaverEmpties
  <2>1. /\ saver.phase = "empty" /\ saver' = [saver EXCEPT !.phase = "write"]
        /\ owed' = None /\ last' = last
    BY <1>3 DEF SaverEmpties
  <2>2. UnderWay(saver')
    BY <1>c, <2>1, Moved
  <2> QED
    BY <1>1, <1>c, <2>1, <2>2 DEF QuitInv, OwedInv
<1>4. CASE SaverWrites
  <2>1. saver.phase = "write" /\ saver' = Idle /\ owed' = owed /\ last' = last
    BY <1>4 DEF SaverWrites
  <2>2. owed = None
    BY <1>c, <2>1 DEF OwedInv
  <2> QED
    BY <1>1, <1>c, <2>1, <2>2, SaveKinds DEF QuitInv, OwedInv
<1>5. CASE LastEmpties
  <2>1. /\ last.phase = "empty" /\ last' = [last EXCEPT !.phase = "write"]
        /\ cacheFile' = Empty /\ UNCHANGED <<saver, owed>>
    BY <1>5 DEF LastEmpties
  <2>2. last # Idle /\ pc = "quitting"
    BY <1>c, <2>1, SaveKinds DEF OwedInv
  <2>3. last'.phase = "write" /\ last'.snap = last.snap /\ last' # Idle /\ UnderWay(last')
    BY <1>c, <2>1, Moved, SaveKinds
  <2> QED
    BY <1>1, <1>c, <2>1, <2>2, <2>3 DEF QuitInv, OwedInv
<1>6. CASE LastWrites
  <2>1. /\ last.phase = "write" /\ last' = Idle /\ saver' = saver
        /\ (cacheFile' \in Written(last) /\ owed' = owed) \/ owed' = None
    BY <1>6 DEF LastWrites
  <2>2. last # Idle
    BY <2>1, SaveKinds
  <2>3. ASSUME owed' # None PROVE cacheFile' = owed /\ owed' = owed
    BY <1>c, <2>1, <2>2, <2>3 DEF OwedInv, Written
  <2> QED
    BY <1>1, <1>c, <2>1, <2>2, <2>3, SaveKinds DEF QuitInv, OwedInv
<1> QED
  BY <1>2, <1>3, <1>4, <1>5, <1>6 DEF Saving

LEMMA QuitStep == QuitInv /\ [Next]_vars => QuitInv'
<1> SUFFICES ASSUME QuitInv, [Next]_vars PROVE QuitInv'
  OBVIOUS
<1>c. CursorInv /\ OwedInv /\ UnderWay(saver) /\ UnderWay(last)
  BY DEF QuitInv
<1>1. CASE Start \/ DesktopChanges \/ HandEdit
  BY <1>1, <1>c, OwedStays DEF Start, DesktopChanges, HandEdit, mainVars, uiVars, saveVars, CursorInv, OwedInv
<1>2. CASE Begin
  <2>1. pc # "quitting" /\ last = Idle
    BY <1>2, <1>c DEF Begin, Probe, OpenDesktop, Wait, LoadCache, LoadMergePolicy, SessionVault,
                      SaveMergePolicy, RewriteMerges, RunScreen, StartFails, OwedInv
  <2>2. CASE StartFails
    BY <2>1, <2>2, GoneKeepsOwed DEF StartFails
  <2>3. CASE LoadCache
    <3>1. CursorInv'
      BY <2>3 DEF LoadCache, WithCache, Cached, Cold, Snapshots, CursorInv
    <3> QED
      BY <2>1, <2>3, <3>1, OwedStays DEF LoadCache, saveVars
  <2>4. CASE Probe \/ OpenDesktop \/ Wait \/ LoadMergePolicy \/ SessionVault \/ SaveMergePolicy
             \/ RewriteMerges \/ RunScreen
    <3>1. UNCHANGED <<saveVars, chats, selected>>
      BY <2>4 DEF Probe, OpenDesktop, Wait, LoadMergePolicy, SessionVault, SaveMergePolicy,
                  RewriteMerges, RunScreen, uiVars
    <3> QED
      BY <1>c, <2>1, <3>1, OwedStays DEF saveVars, CursorInv
  <2> QED
    BY <1>2, <2>2, <2>3, <2>4 DEF Begin
<1>3. CASE Quit
  <2>1. /\ pc = "running" /\ pc' = "quitting" /\ UNCHANGED <<cacheFile, saver, chats, selected>>
        /\ \/ /\ chats # {} /\ last' = Encoded(Snapshot)
              /\ owed' = IF saver = Idle THEN Snapshot ELSE None
           \/ UNCHANGED <<last, owed>>
    BY <1>3 DEF Quit, uiVars
  <2>2. last = Idle
    BY <1>c, <2>1 DEF OwedInv
  <2>3. chats # {} => Snapshot \in Snapshots /\ Snapshot.selected \in Snapshot.chats
    BY <1>c DEF CursorInv, Snapshot, Snapshots
  <2>4. last' = last \/ (last'.phase = "empty" /\ last'.snap = Snapshot /\ last' # Idle)
    BY <2>1, SaveKinds
  <2> QED
    BY <1>c, <2>1, <2>2, <2>3, <2>4, SaveKinds DEF QuitInv, CursorInv, OwedInv
<1>4. CASE Exit
  BY <1>4, GoneKeepsOwed DEF Exit
<1>5. CASE Kill
  <2>1. /\ Gone
        /\ cacheFile' = cacheFile \/ "write" \in {saver.phase, last.phase}
        /\ owed' = IF last = Idle THEN owed ELSE None
    BY <1>5 DEF Kill
  <2>2. CASE last = Idle /\ owed # None
    <3>1. last.phase # "write" /\ saver.phase # "write"
      BY <1>c, <2>2, SaveKinds DEF OwedInv
    <3> QED
      BY <2>1, <2>2, <3>1, GoneKeepsOwed
  <2>3. CASE ~(last = Idle /\ owed # None)
    BY <2>1, <2>3, SaveKinds DEF Gone, QuitInv, CursorInv, OwedInv
  <2> QED
    BY <2>2, <2>3
<1>6. CASE UNCHANGED vars
  BY <1>6, <1>c, OwedStays DEF vars, mainVars, uiVars, saveVars, CursorInv
<1> QED
  BY <1>1, <1>2, <1>3, <1>4, <1>5, <1>6, ScreenKeepsOwed, SavingKeepsOwed DEF Next

(* The next run starts from what was on screen when the user quit          *)
(* (ui/cache.go:11-12).                                                    *)
THEOREM RemembersQuit == Spec => QuitIsRemembered
<1>1. QuitInv /\ [Next]_vars =>
        [pc = "cache" /\ pc' = "merges" /\ caching' /\ owed # None
            => chats' = owed.chats /\ selected' = owed.selected]_vars
  <2> SUFFICES ASSUME QuitInv, Next, pc = "cache", pc' = "merges", caching', owed # None
               PROVE  chats' = owed.chats /\ selected' = owed.selected
    OBVIOUS
  <2>1. LoadCache
    BY DEF Next, Start, Begin, Probe, OpenDesktop, Wait, LoadMergePolicy, SessionVault,
           SaveMergePolicy, RewriteMerges, RunScreen, StartFails, Gone, Screen, ListArrives,
           ListFails, PollTick, Reconnect, RetryConnection, ChangeInPlace, ChatRefreshed,
           ContactsArrive, MoveCursor, DebounceEnds, Saving, SaverEncodes, SaverEmpties,
           SaverWrites, LastEmpties, LastWrites, Quit, Exit, Kill, DesktopChanges, HandEdit,
           mainVars
  <2>2. cacheFile = owed /\ owed \in Snapshots /\ owed.selected \in owed.chats
    BY DEF QuitInv, OwedInv
  <2> QED
    BY <2>1, <2>2 DEF LoadCache, WithCache, Cached
<1> QED
  BY <1>1, QuitInit, QuitStep, PTL DEF Spec, QuitIsRemembered
=============================================================================
