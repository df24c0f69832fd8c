----------------------------- MODULE Lifecycle -----------------------------
(***************************************************************************)
(* One run of the program after another (cmd/beeper-tui, internal/launch,  *)
(* internal/state, internal/ui/cache.go, internal/identity/mergefile.go):  *)
(* main waits for Beeper Desktop, reads the chat cache and the merge       *)
(* decisions, writes the decisions back, runs the screen, whose refreshes  *)
(* save the cache in the background, and saves the cache again on the way  *)
(* out.  Any step may be the last one before a kill.                       *)
(*                                                                         *)
(* A chat list is the set of its chats.  os.WriteFile empties the file and *)
(* then writes it; a background save encodes the array the screen goes on  *)
(* changing, and is not waited for at the end.                             *)
(***************************************************************************)
EXTENDS Naturals, FiniteSets

CONSTANTS
    Chats,
    Names,       \* the common full names, those that need the user's word
    None,
    Empty,       \* a file that has been emptied to be written
    Unreadable,  \* one that is missing, half-written or does not parse
    MaxStarts,   \* bound: runs of the program
    MaxWait,     \* bound: probes until startTimeout
    MaxMishaps,  \* bound: kills, and failed fetches, writes and steps of the start
    MaxEdits     \* bound: edits of the merge file by hand

ASSUME LifecycleAssumption ==
    /\ Chats # {} /\ None \notin Chats
    /\ MaxStarts \in Nat /\ MaxWait \in Nat \ {0}
    /\ MaxMishaps \in Nat /\ MaxEdits \in Nat

\* the merge decisions, and the names that wait for one
Policies == [verdict : [Names -> {"approved", "denied", "none"}], pending : SUBSET Names]

ASSUME NoneAssumption == None \notin Policies

VARIABLES
    pc,         \* where main is; "off" when nothing runs
    desktop,    \* the API answers
    polls,      \* probes since Beeper Desktop was opened
    \* files
    cacheFile,  \* a snapshot, Empty or Unreadable
    mergeFile,  \* the decisions and the names that wait for one, or Unreadable
    \* main
    caching,    \* cachePath is not ""
    policy,     \* merges, as it was read
    \* the screen
    chats, selected,   \* m.chats, and the one under the cursor
    err,        \* m.err is set
    recent,            \* cacheSavedAt is less than cacheSaveDebounce ago
    asked,             \* list fetches in flight: "load" reports errors, "poll" does not
    \* saves
    saver,      \* the background save
    last,       \* the save on quit
    \* bookkeeping of the model
    owed,       \* what the next start should find, when nothing has disturbed it
    edited,     \* the merge file was edited since it was read, before it is written
    word,       \* the user's decisions, while nothing has lost one
    starts, mishaps, edits

mainVars == <<pc, desktop, polls, caching>>
mergeVars == <<mergeFile, policy, edited, word>>
uiVars == <<chats, selected, err, recent, asked>>
saveVars == <<cacheFile, saver, last, owed>>
counters == <<starts, mishaps, edits>>
vars == <<mainVars, mergeVars, uiVars, saveVars, counters>>

Snapshots == [chats : (SUBSET Chats) \ {{}}, selected : Chats \cup {None}]

\* A save.  While it encodes, shared says that the array is still the one on
\* screen, and seen holds the chats that in-place changes may have put there.
Saves == [phase : {"idle", "encode", "empty", "write"}, snap : Snapshots \cup {None},
          shared : BOOLEAN, seen : SUBSET Chats]
Idle == [phase |-> "idle", snap |-> None, shared |-> FALSE, seen |-> {}]
Encoding(s) == [phase |-> "encode", snap |-> s, shared |-> TRUE, seen |-> {}]
Encoded(s) == [phase |-> "empty", snap |-> s, shared |-> FALSE, seen |-> {}]

Undecided == [n \in Names |-> "none"]
Blank == [verdict |-> Undecided, pending |-> {}]

Mishap == mishaps < MaxMishaps /\ mishaps' = mishaps + 1

Init ==
    /\ pc = "off" /\ desktop \in BOOLEAN /\ polls = 0
    /\ cacheFile = Unreadable /\ mergeFile = Blank
    /\ caching = FALSE /\ policy = None
    /\ chats = {} /\ selected = None /\ err = FALSE
    /\ recent = FALSE /\ asked = {}
    /\ saver = Idle /\ last = Idle /\ owed = None /\ edited = FALSE /\ word = Undecided
    /\ starts = 0 /\ mishaps = 0 /\ edits = 0

\* The process ends, and with it a background save, wherever it is.
Gone == /\ pc' = "off" /\ saver' = Idle /\ last' = Idle
        /\ chats' = {} /\ selected' = None /\ err' = FALSE
        /\ recent' = FALSE /\ asked' = {} /\ policy' = None /\ edited' = FALSE
        /\ caching' = FALSE
        /\ polls' = 0 /\ UNCHANGED desktop

-----------------------------------------------------------------------------
(* ensureRunning. *)

Start ==
    /\ pc = "off" /\ starts < MaxStarts
    /\ pc' = "probe" /\ starts' = starts + 1
    /\ UNCHANGED <<desktop, polls, caching, mergeVars, uiVars, saveVars, mishaps, edits>>

\* The API's address is this machine's, or StartFails.
Probe ==
    /\ pc = "probe"
    /\ pc' = IF desktop THEN "cache" ELSE "open"
    /\ UNCHANGED <<desktop, polls, caching, mergeVars, uiVars, saveVars, counters>>

\* startApp
OpenDesktop ==
    /\ pc = "open" /\ pc' = "wait"
    /\ UNCHANGED <<desktop, polls, caching, mergeVars, uiVars, saveVars, counters>>

\* Fault: no deadline
WaitForEver ==
    /\ pc = "wait"
    /\ pc' = IF desktop THEN "cache" ELSE "wait"
    /\ UNCHANGED <<desktop, polls, caching, mergeVars, uiVars, saveVars, counters>>

Wait ==
    /\ pc = "wait" /\ polls < MaxWait
    /\ IF desktop THEN pc' = "cache" /\ polls' = 0 ELSE pc' = "wait" /\ polls' = polls + 1
    /\ UNCHANGED <<desktop, caching, mergeVars, uiVars, saveVars, counters>>

-----------------------------------------------------------------------------
(* From the files to the first frame. *)

\* Fault: the cursor is not restored
WithCacheAtTop(c) ==
    /\ chats' = c.chats
    /\ IF c.chats = {} THEN selected' = None ELSE selected' = (CHOOSE x \in c.chats : TRUE)

\* what a failed read leaves, the cold start
Cold == [chats |-> {}, selected |-> None]

Cached == IF caching' /\ cacheFile \in Snapshots THEN cacheFile ELSE Cold

WithCache(c) ==
    /\ chats' = c.chats
    /\ IF c.selected \in c.chats THEN selected' = c.selected
       ELSE IF c.chats = {} THEN selected' = None
       ELSE selected' \in c.chats

\* The cache is read here and shown by WithCache later; nothing comes between.
\* Without its directory there is no cache in this run.
LoadCache ==
    /\ pc = "cache" /\ pc' = "merges"
    /\ \/ caching' = TRUE /\ UNCHANGED mishaps
       \/ caching' = FALSE /\ Mishap
    /\ WithCache(Cached)
    /\ err' = FALSE /\ recent' = FALSE /\ asked' = {}
    /\ UNCHANGED <<desktop, polls, mergeVars, saveVars, starts, edits>>

\* The names that wait for a decision are not read: they are found again.
LoadMergePolicy ==
    /\ pc = "merges"
    /\ mergeFile # Unreadable
    /\ policy' = [verdict |-> mergeFile.verdict, pending |-> {}]
    /\ pc' = "index" /\ edited' = FALSE
    /\ UNCHANGED <<desktop, polls, caching, mergeFile, word, uiVars, saveVars, counters>>

\* Best-effort: a fetch that fails finds nobody to ask about.
SessionVault ==
    /\ pc = "index" /\ pc' = "decisions"
    /\ \E found \in SUBSET {n \in Names : policy.verdict[n] = "none"} :
          policy' = [policy EXCEPT !.pending = found]
    /\ UNCHANGED <<desktop, polls, caching, mergeFile, edited, word, uiVars, saveVars, counters>>

\* SaveMergePolicy, up to the moment the file is empty.  It writes what was
\* read, whatever the file holds by now.
SaveMergePolicy ==
    /\ pc = "decisions"
    /\ IF policy = Blank
       THEN pc' = "ui" /\ UNCHANGED mergeFile
       ELSE pc' = "rewrite" /\ mergeFile' = Blank
    /\ UNCHANGED <<desktop, polls, caching, policy, edited, word, uiVars, saveVars, counters>>

\* Fault: denied names go back to those that wait
RewriteMergesUndenied ==
    /\ pc = "rewrite" /\ pc' = "ui"
    /\ mergeFile' = [policy EXCEPT !.verdict =
                        [n \in Names |-> IF @[n] = "denied" THEN "none" ELSE @[n]]]
    /\ word' = IF edited THEN None ELSE word
    /\ UNCHANGED <<desktop, polls, caching, policy, edited, uiVars, saveVars, counters>>

\* An error is printed, no more.
RewriteMerges ==
    /\ pc = "rewrite" /\ pc' = "ui"
    /\ \/ mergeFile' = policy /\ word' = (IF edited THEN None ELSE word) /\ UNCHANGED mishaps
       \/ Mishap /\ word' = None /\ UNCHANGED mergeFile
    /\ UNCHANGED <<desktop, polls, caching, policy, edited, uiVars, saveVars, starts, edits>>

\* Init fetches the list and starts the poll timer.  The decisions are not
\* written again.
RunScreen ==
    /\ pc = "ui" /\ pc' = "running" /\ asked' = {"load"}
    /\ policy' = None /\ edited' = FALSE
    /\ UNCHANGED <<desktop, polls, caching, mergeFile, word, chats, selected, err, recent,
                   saveVars, counters>>

\* main gives up: the address is another machine's, Beeper Desktop cannot be
\* opened or does not come up, the decisions do not parse, or the enclave, the
\* people directory or the terminal fails.
StartFails ==
    /\ \/ pc = "probe" /\ ~desktop /\ UNCHANGED mishaps
       \/ pc = "wait" /\ polls = MaxWait /\ UNCHANGED mishaps
       \/ pc = "merges" /\ mergeFile = Unreadable /\ UNCHANGED mishaps
       \/ pc \in {"open", "ui"} /\ Mishap
    /\ Gone
    /\ UNCHANGED <<mergeFile, word, cacheFile, owed, starts, edits>>

-----------------------------------------------------------------------------
(* The screen. *)

Snapshot == [chats |-> chats, selected |-> selected]

\* Fault: nothing is saved until the program quits
maybeSaveCacheOnce(s) == saver' = s /\ recent' = recent

\* Called with the new list; s is what has become of a save under way.
maybeSaveCache(s) ==
    IF caching /\ chats' # {} /\ ~recent
    THEN /\ recent' = TRUE
         /\ saver' = Encoding([chats |-> chats', selected |-> selected'])
    ELSE saver' = s /\ recent' = recent

\* the cursor stays on its chat, or else goes to the first row
Reselect == IF selected \in chats' THEN selected' = selected
            ELSE IF chats' = {} THEN selected' = None
            ELSE selected' \in chats'

\* A new array: a save that is encoding keeps the old one.  m.err stays.
ListArrives(k) ==
    /\ pc = "running" /\ k \in asked /\ asked' = asked \ {k}
    /\ chats' \in (SUBSET Chats) \ {{}}
    /\ Reselect
    /\ maybeSaveCache([saver EXCEPT !.shared = FALSE])
    /\ UNCHANGED <<mainVars, mergeVars, err, cacheFile, last, owed, counters>>

\* errMsg of the list: rows on screen stay; refreshChatsCmd reports nothing
ListFails(k) ==
    /\ pc = "running" /\ k \in asked /\ asked' = asked \ {k}
    /\ Mishap
    /\ IF k = "load"
       THEN err' = (err \/ chats = {})
       ELSE UNCHANGED err
    /\ UNCHANGED <<mainVars, mergeVars, chats, selected, recent, saveVars, starts, edits>>

PollTick ==
    /\ pc = "running" /\ "poll" \notin asked
    /\ asked' = asked \cup {"poll"}
    /\ UNCHANGED <<mainVars, mergeVars, chats, selected, err, recent, saveVars, counters>>

\* reconcileAfterReconnect
Reconnect ==
    /\ pc = "running" /\ "load" \notin asked
    /\ asked' = asked \cup {"load"}
    /\ UNCHANGED <<mainVars, mergeVars, chats, selected, err, recent, saveVars, counters>>

\* r on the onboarding screen
RetryConnection ==
    /\ pc = "running" /\ err
    /\ err' = FALSE /\ asked' = asked \cup {"load"}
    /\ UNCHANGED <<mainVars, mergeVars, chats, selected, recent, saveVars, counters>>

\* Live events change and sort the array in place, under a save's hands.
Disturbed(s) == [s EXCEPT !.seen = IF s.shared THEN @ \cup chats \cup chats' ELSE @]

\* applyIncomingMessage, applyArchive, applyChatDeleted
ChangeInPlace ==
    /\ pc = "running" /\ chats # {}
    /\ chats' \in {chats} \cup {chats \ {c} : c \in chats}
    /\ Reselect
    /\ saver' = Disturbed(saver)
    /\ UNCHANGED <<mainVars, mergeVars, err, recent, asked, cacheFile, last, owed, counters>>

\* chatRefreshedMsg
ChatRefreshed ==
    /\ pc = "running"
    /\ \E c \in Chats : chats' = chats \cup {c}
    /\ Reselect
    /\ maybeSaveCache(Disturbed(saver))
    /\ UNCHANGED <<mainVars, mergeVars, err, asked, cacheFile, last, owed, counters>>

\* contactsLoadedMsg: the same chats in a new array
ContactsArrive ==
    /\ pc = "running" /\ saver.shared
    /\ saver' = [saver EXCEPT !.shared = FALSE]
    /\ UNCHANGED <<mainVars, mergeVars, uiVars, cacheFile, last, owed, counters>>

\* j, k and the other keys that move the cursor
MoveCursor ==
    /\ pc = "running"
    /\ selected' \in chats
    /\ UNCHANGED <<mainVars, mergeVars, chats, err, recent, asked, saveVars, counters>>

\* A save takes less than the debounce.
DebounceEnds ==
    /\ recent /\ saver = Idle
    /\ recent' = FALSE
    /\ UNCHANGED <<mainVars, mergeVars, chats, selected, err, asked, saveVars, counters>>

-----------------------------------------------------------------------------
(* Saves. *)

\* What is written over a file that another save has written since this one
\* emptied it may leave the other's tail.
Written(s) == IF cacheFile = Empty THEN {s.snap} ELSE {s.snap, Unreadable}

\* The rows of an array that changes meanwhile are read one by one: some may
\* be missed, others read twice.
SaverEncodes ==
    /\ saver.phase = "encode"
    /\ \E rows \in (SUBSET (saver.snap.chats \cup saver.seen)) \ {{}} :
          /\ saver.seen = {} => rows = saver.snap.chats
          /\ Cardinality(rows) <= Cardinality(saver.snap.chats)
          /\ saver' = Encoded([saver.snap EXCEPT !.chats = rows])
    /\ UNCHANGED <<mainVars, mergeVars, uiVars, cacheFile, last, owed, counters>>

SaverEmpties ==
    /\ saver.phase = "empty"
    /\ saver' = [saver EXCEPT !.phase = "write"]
    /\ cacheFile' = Empty /\ owed' = None
    /\ UNCHANGED <<mainVars, mergeVars, uiVars, last, counters>>

\* an error is ignored
SaverWrites ==
    /\ saver.phase = "write" /\ saver' = Idle
    /\ \/ cacheFile' \in Written(saver) /\ UNCHANGED mishaps
       \/ Mishap /\ UNCHANGED cacheFile
    /\ UNCHANGED <<mainVars, mergeVars, uiVars, last, owed, starts, edits>>

\* q and ctrl+c: Run returns, and main saves what the screen held, if anything.
Quit ==
    /\ pc = "running" /\ pc' = "quitting"
    /\ IF caching /\ chats # {}
       THEN /\ last' = Encoded(Snapshot)
            /\ owed' = IF saver = Idle THEN Snapshot ELSE None
       ELSE UNCHANGED <<last, owed>>
    /\ UNCHANGED <<desktop, polls, caching, mergeVars, uiVars, cacheFile, saver, counters>>

LastEmpties ==
    /\ last.phase = "empty"
    /\ last' = [last EXCEPT !.phase = "write"]
    /\ cacheFile' = Empty
    /\ UNCHANGED <<mainVars, mergeVars, uiVars, saver, owed, counters>>

LastWrites ==
    /\ last.phase = "write" /\ last' = Idle
    /\ \/ cacheFile' \in Written(last) /\ UNCHANGED <<owed, mishaps>>
       \/ Mishap /\ owed' = None /\ UNCHANGED cacheFile
    /\ UNCHANGED <<mainVars, mergeVars, uiVars, saver, starts, edits>>

Exit ==
    /\ pc = "quitting" /\ last = Idle
    /\ Gone
    /\ UNCHANGED <<cacheFile, mergeFile, word, owed, counters>>

\* A kill may also leave half of what was being written.
Kill ==
    /\ pc # "off" /\ Mishap
    /\ cacheFile' \in {cacheFile} \cup
                      (IF "write" \in {saver.phase, last.phase} THEN {Unreadable} ELSE {})
    /\ owed' = IF last = Idle THEN owed ELSE None
    /\ word' = IF pc = "rewrite" THEN None ELSE word
    /\ Gone
    /\ UNCHANGED <<mergeFile, starts, edits>>

-----------------------------------------------------------------------------
(* Outside. *)

DesktopChanges ==
    /\ pc \in {"probe", "open", "wait"} /\ ~desktop /\ desktop' = TRUE
    /\ UNCHANGED <<pc, polls, caching, mergeVars, uiVars, saveVars, counters>>

\* The user decides on a name, or leaves a file that does not parse.
HandEdit ==
    /\ edits < MaxEdits /\ edits' = edits + 1
    /\ \/ mergeFile' = Unreadable
       \/ \E n \in Names, v \in {"approved", "denied", "none"} :
             LET old == IF mergeFile = Unreadable THEN Blank ELSE mergeFile
             IN  mergeFile' = [old EXCEPT !.verdict[n] = v, !.pending = @ \ {n}]
    /\ edited' = (policy # None)
    /\ word' = IF mergeFile' = Unreadable THEN Undecided ELSE mergeFile'.verdict
    /\ UNCHANGED <<mainVars, policy, uiVars, saveVars, starts, mishaps>>

Begin == Probe \/ OpenDesktop \/ Wait \/ LoadCache \/ LoadMergePolicy \/ SessionVault
         \/ SaveMergePolicy \/ RewriteMerges \/ RunScreen \/ StartFails
Screen == \/ \E k \in {"load", "poll"} : ListArrives(k) \/ ListFails(k)
          \/ PollTick \/ Reconnect \/ RetryConnection \/ ChangeInPlace \/ ChatRefreshed
          \/ ContactsArrive \/ MoveCursor \/ DebounceEnds
Saving == SaverEncodes \/ SaverEmpties \/ SaverWrites \/ LastEmpties \/ LastWrites

Next == Start \/ Begin \/ Screen \/ Saving \/ Quit \/ Exit \/ Kill \/ DesktopChanges \/ HandEdit

Spec == Init /\ [][Next]_vars

(* main goes on, every command ends and its result is handled, the poll timer
   is re-armed by every tick, time passes, and a save takes its next step.
   Nothing makes the user act, or a fault happen. *)
Fairness ==
    /\ WF_vars(Begin) /\ WF_vars(Exit) /\ WF_vars(Saving)
    /\ WF_vars(\E k \in {"load", "poll"} : ListArrives(k) \/ ListFails(k))
    /\ WF_vars(PollTick) /\ WF_vars(DebounceEnds)

FairSpec == Spec /\ Fairness

-----------------------------------------------------------------------------
(***************************************************************************)
(* "The final write on quit captures whatever the debounce skipped"        *)
(* (ui/cache.go:11-12): what was on screen when the user quit, the cursor  *)
(* included, is what the next run starts from, unless a background save    *)
(* was under way at that moment, the write failed or was killed, or a      *)
(* later run has saved.                                                    *)
(***************************************************************************)
QuitIsRemembered ==
    [][pc = "cache" /\ pc' = "merges" /\ caching' /\ owed # None
          => chats' = owed.chats /\ selected' = owed.selected]_vars

(***************************************************************************)
(* The user's decisions survive every run's rewrite of their file, except  *)
(* those made between its reading and its writing, and but for a kill or   *)
(* a failure between the two halves of the write (main.go:74-89,           *)
(* mergefile.go:74-135).                                                   *)
(***************************************************************************)
DecisionsKept ==
    word # None /\ pc # "rewrite" /\ mergeFile # Unreadable => mergeFile.verdict = word

(***************************************************************************)
(* Every start ends, on the screen or with an error, even if the API never *)
(* comes up (launch.go:28-50, main.go:48-118).                             *)
(***************************************************************************)
StartupEnds == pc = "probe" ~> pc \in {"running", "off"}

(***************************************************************************)
(* "A failed write never surfaces, because the next refresh or the write   *)
(* on quit retries it" (ui/cache.go:40-41): a cache that a crash or a      *)
(* failure left unreadable is readable again if the screen stays.          *)
(***************************************************************************)
LostWriteIsRetried ==
    pc = "running" /\ caching /\ cacheFile \notin Snapshots
       ~> cacheFile \in Snapshots \/ pc # "running"
=============================================================================
