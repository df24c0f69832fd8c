# A verification development for beeper-tui

beeper-tui is a terminal client for Beeper Desktop: one Bubble Tea program
(`internal/ui`) whose `Update` runs alone and never blocks, and around it
everything that does block: HTTP requests run as commands, a WebSocket client
with goroutines of its own, an assistant that talks to a language model, a
timer. Each of these hands its result to `Update` as a message, at a moment and
in an order nobody controls. The program is correct when every such order is
harmless, and that is what the modules here are about.

Paths below are relative to the repository's `src/`; `ui/`, `ws/`, ... stand
for `internal/ui/`, `internal/ws/`, ...

## 1. Inventory

| Part | State it keeps | Operations | What is hard |
|---|---|---|---|
| Event client `ws/client.go` | connection, attempt counter, subscription set, bounded events channel, retry token | reconnect loop, session, ping, `Retry`, `SetSubscriptions`, `Close` | four goroutines; lost frames and silent connections; a full channel while closing; order of deferred calls |
| Open conversation `ui/messages.go, poll.go, wsevents.go, react.go, update.go, nav.go` | rows, failure flags, loading flag, open chat | open, send, retry, react, load, refresh, events, poll tick | answers overtake each other and the stream; optimistic rows matched by text; a late success after a timeout |
| Assistant chat `ui/chat.go, chattools.go, chatlinks.go` | current session, transcript, detection flags | detect, ask, cancel, clear, agent loop, tools | a goroutine, a channel and a chain of commands per question, all outliving a cancellation |
| Model client `llm/client.go` | the model's name, the hold-back of a stream | `Stream`, `Complete`, `DetectModel` | chunk boundaries; a model field written without a lock |
| Redaction vault `redact/redact.go` | token to name and name to token | redact, `HoldBack`, `Rehydrate` | tokens cut by chunks; growing numbers; shared name parts |
| Inbox `ui/update.go, nav.go, unread.go, tab.go, wsevents.go` | chat list, unread counts, tab, selection and window, mode, where to return to, search | refresh, refetch, archive, mark read, search, chat.deleted, tabs, links | every list and event re-sorts the list under the cursor; a list fetched before a change and applied after it; six modes with their own ways in and out |
| Identity merging `identity/` | people, the keys that lead to them, the user's merge file | build, search, candidates, merge decisions | a partition that must not depend on the order of contacts; weak evidence that needs the user's word |
| Person cards `person/`, `ui/chattools.go` | one file per person, two sidecars | sweep, tool, hand edit | a minute between load and save of a card; files rewritten by truncating them |
| Chat cache `state/cache.go, ui/cache.go` | one file | save, load | truncate and rewrite; a save that encodes a list still being changed; overlapping writers; a kill at any moment |
| Launch `launch/`, `cmd/beeper-tui` | none | probe, start, wait, exit | timeout; the order of what is read and rewritten at the start |
| Attachments `ui/media.go, nav.go, messages.go` | the draft's files, what is left of a failed draft, image cache | paste, upload and send, retry, download | failure half-way, an answer lost after the send, echoes matched by text |
| API client `api/`, configuration, attestation, rendering, programs | none that later steps depend on | | sequential |

How they interact: `ws.Client` writes to its channel, `waitForWSEvent` reads one
event and delivers it, `applyWSEvent` changes the conversation and the inbox and
re-arms the reader. On `connected` the UI refetches what it may have missed.
Loads, refreshes, sends and reactions are commands around `api`. The assistant's
goroutine uses `llm.Client` (which redacts through the vault) and `api`, and
reports on a channel that is read the same way as the event stream. `main`
builds the identity index before the screen opens, and the contacts that the
screen fetches later rebuild it; each time the vault learns the new people, also
while a reply streams. The sweep, the assistant's tool and the user's editor
share the card files and nothing else; the cache and the merge file are all that
one run of the program leaves to the next.

What makes each part correct:

* event client: no gap in the events without a later `connected`; it always
  comes back; it can always be closed, in order;
* conversation: the rows are those of the open chat, each message once; a
  message never looks sent when it is not, is never sent twice at a time, never
  disappears before it is sent; in the end the screen shows the server's state;
* assistant: an answer is what its own goroutine said, in order and whole;
  responses end, cancelled goroutines too; the model is known before it is used;
* inbox: a chat has one row; the cursor stays on its chat, in view and on screen,
  whatever rewrites the list; only its own chat's end closes a conversation, and
  going back leads to where one came from;
* model client and vault: every name that goes out becomes a token as a whole;
  no character of a reply is lost, the right names are shown and no others, and
  a name shown is the same token when it goes out again;
* identities: people are what the evidence connects, in whatever order it comes;
  merging loses nothing; doubt is put to the user; who is asked for by name is found;
* person cards: a card speaks of its own person; what the user typed is not taken
  away by a writer that had seen it; nobody's messages are sent twice for nothing;
* cache, merge file and start: what was on screen at the end is there at the next
  start, a torn file repairs itself, decisions survive, every start comes to an end;
* attachments: the parts of a draft arrive in order, none twice without a reported
  failure, and a draft is not given up before it is sent.

`PROJECT.json` lists the hazards, each at its line, with the properties that
would catch it.

## 2. Modules

| Module | Models | Kind |
|---|---|---|
| `WsEvents` | the events of the client's channel | shared definitions |
| `WsStream` | what the channel's reader is promised: a bounded FIFO with a grammar | abstract specification |
| `WsClient` | the client, its UI callers, network and server | detailed specification, implements `WsStream` |
| `Conversation` | the open conversation against a server | specification |
| `ChatSession` | the assistant tab and its goroutines | specification |
| `Vault` | which names become which tokens, and redaction | pure operators and the vault's state, extended by `TokenStream` |
| `TokenStream` | hold-back and rehydration of a streamed reply, over a `Vault` that goes on learning | specification around pure operators |
| `ChatList` | the inbox: list, tabs, cursor, window and modes | specification |
| `People` | building the identity index and looking people up | specification around pure operators |
| `PersonCards` | sweep, tool and editor on one set of files | specification |
| `Lifecycle` | launch, warm start, merge file, cache saves, exit, kill and restart | specification with fairness |
| `Attachments` | a draft with files: compose, upload loop, failure, retry, echo | specification |
| `MC...` | the instances TLC explores | |
| `...Proofs` | theorems and proofs about the module of that name; `WsClientProofs` has those of `WsStream` too, `AssistantProofs` those of `ChatSession` and `TokenStream` | |

### WsClient and WsStream

`run` and `session` are one goroutine with a program counter; each blocking or
visible point is an action (`Announce`, `DialSucceeds`, `ReadReady`,
`SubscribeWritten`, `EmitEvent`, `Report`, ...). The ping goroutine is
`PingFails`, since a ping that succeeds changes nothing. `Teardown` stands for
the session's deferred calls. `SetSubscriptions` is two actions, for the code
takes the connection under the lock and writes after unlocking. Domain events
are numbered in the order of the server's history; the wire is a bounded FIFO
per direction. A transport fails in two ways: *broken*, which a read notices,
and *silent*, which only the ping finds. The server greets a connection with
`ready`, streams events to subscribed connections and drops the others, which is
what the code assumes of Beeper Desktop; `ServerReady`, `ServerSubscribes`,
`ServerEvent` and `LinkFails` are external for that reason.

Of the UI the module has what `applyWSEvent` makes of the channel: a `connected`
refetches, except for the first one the UI ever sees, which only sets
`everConnected` (`ui/wsevents.go:63-67`). `owed` is a history variable: it says
that the server has had an event which the stream is answerable for, because it
was streamed or because a `connected` still to come will refetch. An event from
before the first subscription is not among these; nothing but the initial load or
the poll brings it.

`WsStream` keeps three variables, the phase, the queue and whether the reader
has cancelled. The mapping reads the phase off the program counter and
`connected`, the queue is the channel. `ImplementsStream` is `Stream!Spec` under
that mapping.

### Conversation

A request is a record in flight: the server answers it at one moment with what
it holds then (`Answer`), and the answer is applied at a later one
(`LoadResult`, `RefreshResult`), so snapshots grow stale and overtake each
other. A send has three independent moments: the bridge accepts it, the call
returns or times out, the bridge dispatches the message. `SendRejected` and
`SendAccepted` cover the timeout after acceptance. The event stream is the one
`WsClient` provides. Rows are a set; order, cursor and window are left out. What
a text is does not matter, only which sends share one (`SendText`); `HasEcho`
and `Claimed` translate the two ways in which the code matches a placeholder to
the server's copy by its text. The clock advances in steps of the two minutes
that `hasEcho` allows. An upsert may also find that its chat is not in the list,
which then only refetches the list (`ui/wsevents.go:130-134`).

`HoldsServer` speaks of the rows in memory, `ShowsServer` of the screen: after a
load that failed the error is drawn in place of the rows (`ui/view.go:186-191`),
which is `convErr`, and only leaving the conversation clears it.

### ChatList

The list is a sequence of records, the cursor an index into all of it and the
window an offset into what the tab shows of it, as in the code; counting starts
at 1. `Show` is an assignment of list, cursor and window followed by
`clampWindow`, which acts in the list only. `Resort` is
`resortKeepingSelection`, with `Sorted` the stable order defined by what it
must satisfy instead of by a sorting method; `FirstVisible` is
`selectFirstVisibleChat`, `Landing` the place `backToList` picks. The keys
depend on the mode; answers and events do not, and come at any time with any
content: whatever may be in flight, the server's answer may be older or newer
than the list. That is more than the server does, so what holds here holds for
it. Of the tabs that filter by a flag one is modelled, and a query is the set of the chats
whose title or network it matches. `ApplyDeleted` follows `applyChatDeleted`
in its two moves of the cursor. The editor and the picker are modes of the
conversation; the assistant's editor counts as the assistant.

### ChatSession

Questions number the goroutines, channels and chains of commands. A command
reads one event and delivers it later; `ApplyChatEvent` re-arms it on the
*current* session's channel, as the code does, so that a chain started by an
old question can end up on a new one's channel. `Emit` is the select between a
send and the cancelled context. The transcript is its last turn, the only one
an event can touch. Reasoning deltas, which are counted and nothing else, the
text of tool results and the links of an answer are left out.

### Vault and TokenStream

A vault is the three fields of the struct, `byValue`, `byToken` and `replacer`.
In `Vault` a text is a sequence of words, spaces and other characters, folded to
one case, so that the `\b` of the replacing expression is a position between two
elements; each word has a length in bytes, since the code measures values by it.
`Register`, `RegisterPerson`, `SortReplacer` and `Redact` translate the
functions of these names (a stable sort is an insertion of one entry after the
other, each behind those as long as it); `NewVault` is the build before the first
question, `Update` what arriving contacts do. The random number of a token is any
number not yet issued. Loops are recursive functions on an index, so that they
can be proved about.

In `TokenStream` the reply is a sequence of characters (upper case, as both
functions fold it). `HoldBack`, `TokenPrefix` and `Rehydrate` are pure
operators, and what is shown has one element for each character: a token is its
name and then nothing. `TokenAt` says where the regular expression matches; `Delta` is one chunk through `emitDelta`, `Finish` the flush,
`Fail` an error on the way, `Learn` the vault's growth in the middle of it. The
numbers drawn by `Learn` are taken to be none that the reply has already made
up, since a number is one of 100000; the numbers of the first build may be.

### People

An observation is one call of `add`: a participant, a title or a contact, with
the fields the code takes from it; names, handles, numbers and addresses are
values that are equal when the code's normal forms are. A person is named by the
observation that created it. The parent links of absorbed people are `home`,
and the five index maps are one function `by` from tagged keys. `Add` follows
`add`: look up (`Considered`), choose the first (`First`), take in the others
(`Merged`), record keys (`NewKeys`). `Recorded` keeps a quirk: the code collects the
keys of three maps in one map literal whose keys carry no tag, so a user ID that
reads like the name (`Misread`) leaves no entry in `byAccount`. `Search`, `Candidates` and
`resolvePerson` are operators over a finished index; fuzzy matching is a relation
and a distance given as constants.

### PersonCards

A writer is a program counter, the person it works on, the card as loaded and
what the model found. A file has its last complete text and a flag that says it
is torn: truncating sets it, writing clears it, a kill in between leaves it. A
value is `Hand` or the person it was extracted from, which is all that the
properties ask. `SweepNext`, `SweepMark`, `SweepExtract` and so on cut the
sweep's loop body where other writers can come in between; the tool asks the
model first and loads afterwards, as the code does. The editor's save is one
step and leaves the name alone; `HandEdit` is external. Names whose slugs
coincide are allowed by the module and not by its run, since then two people
share a card by design of the file names (section 6).

### Lifecycle

`pc` is where main is. The actions from `Probe` to `RunScreen` are the calls of
`run` in their order; `StartFails` gathers its error returns. A chat list is the
set of its chats with the one selected. A save has the phases encode, empty the
file, write; while it encodes, `shared` says that the array is still the one on
screen, and `seen` what changes in place may have put there, so that what is
encoded is any mix of rows that a race can produce. A new list is a new array
and ends the sharing. `Kill` may come anywhere. `owed` and `word` are history
variables: what the next start should find, and the user's decisions, as long as
nothing the program cannot help has disturbed either.

### Attachments

A send command walks through the parts of its draft: `Upload`, `Dispatch` (the
server has it), then `Accepted` or `ReportedFailed` (the server has it and the
call fails all the same). A failure hands what is left to `SendResult`, and
`RetryFailedSend` resumes there. `HasEcho` and `Claimed` are the two ways of
recognising the server's copy, which differ: a refetch compares the shape of the
message, a live event only its text. Everything is taken to happen within the
two minutes `hasEcho` looks back; `Conversation` has the clock.

## 3. Runs

| Run | Instance | What it shows |
|---|---|---|
| `wsclient` | channel 2, wires 2, schedule 2, 2 events, 3 faults, 1 later subscription set | implements `WsStream`; no silent gap; connected only after subscribing; guaranteed close; always reconnects; every event that was streamed, or missed after the first connection, is applied or followed by a refetch |
| `conversation` | 2 chats (symmetric), 2 sends of one text, 1 fault, 2 fetches, stream 1, clock 1 | rows of the open chat, nothing looks sent that is not, one request per send, no poll or event takes a placeholder as long as nothing of its text has been dispatched |
| `conversation_live` | 1 chat, 1 send, 1 reaction, 1 change elsewhere, 1 fault, 1 fetch at a time | the rows converge to the server's, and are on screen unless a load has failed; no double rendering; loading ends |
| `token_stream` | 8 replies, 3 possible indexes of 5 people, 4 token numbers, 1 update of the vault, chunks of 1 to 4 characters | names become whole tokens and come back as the same ones; no text lost, no wrong name, the final text is shown (but for two exceptions) |
| `chat_session` | 2 questions, 2 rounds, 1 token per reply and round, 1 call, channel 1 | a response always has a reader; answers in order and whole; one at a time; late events harmless |
| `chat_session_live` | as above with 1 round | cancelled goroutines end; responses end |
| `chat_list` | 2 chats, one of low priority, windows of 1 and 2 rows, 1 unread message, 2 times | the cursor stays on its chat and on screen; conversations close only with their chat |
| `person_cards` | 2 people, 1 field, 1 tool call, 1 edit by hand, 1 failed write or kill (people symmetric) | facts stay with their person; one extraction per cooldown; only writers with an older copy overwrite what the user typed |
| `people` | every order of up to 4 observations on 2 accounts, 3 names (common, single word, number), a user ID that reads like one of them, every decision of the user | people are the connected components of the evidence, but for links a misread ID loses; merging loses nothing; namesakes are asked about; exact matches are found |
| `lifecycle` | 2 starts, 2 chats, 1 mishap, 1 edit of the merge file | the screen at exit is what the next start shows; decisions kept; every start ends; a lost cache write is repaired |
| `attachments` | 2 drafts, 2 files, 2 failures, 1 chat opened twice | parts in order and none twice for nothing; nothing given up before it is sent |
| `draft_leak` | the same with 2 chats (symmetric) | a place where the code and its texts disagree, refuted: section 6 |

Why the bounds are enough. Channels of one or two slots are full early, which is
the interesting case of a bounded channel; the capacities 64 of the code would
only postpone it. A schedule of two delays has a first, a last and the clamp.
Three faults let a connection fail, its successor fail in another way and a
third one fail again. One send meets every combination of load, refresh, event,
timeout and retry, because all of these are repeated without bound; a second
send matters where texts coincide, and the two of `conversation` do. Double
rendering is ruled out for distinct texts only, so it is checked with one send,
and proved for any number. Two chats are what a stale answer needs, and two
questions what a stale event needs. In
`chat_list` two rows and a window of one already scroll, sort both ways, and let
a tab show all, one or none of them; the theorems cover the rest. The replies of
`token_stream` hold one and two tokens, every separator, unknown numbers,
beginnings that come to nothing and numbers longer than the hold-back limit; its
people share words and numbers, one name is too short by itself and one person is
only a number. Four observations are three people and the one that joins
them, or two chains of links that meet. In `person_cards` each pair of the three
writers meets at every step; a second edit or mishap would repeat what the first
does at another step. Two starts are what one run of the program can owe to the
next. In `attachments` two failures interrupt a draft and then its retry; one
chat is enough for them, since the parts of a draft go to the chat it was sent
in, and the theorems cover any number of chats.

`MCChatList`, `MCChatSession`, `MCPersonCards` and `MCAttachments` give TLC a view
that leaves out values nothing reads any more; each module says which.

Deadlock is not checked: each of these systems may rightly come to rest (a
closed client, bounds used up, a user who does nothing).

The type invariants, and of the rest `OneRowPerChat`, `ModelSettled`,
`StreamGrammar` and `ClosedBeforeReturn`, are theorems (section 5) and need no
run of their own.

A property that no fault of the code could break says nothing, so each has a
*fault operator* in the module, named after a plausible mistake (an emit that
drops when full, a placeholder claimed without looking, a hold that is
forgotten), which TLC finds to violate it when it replaces the real definition.

## 4. Fairness

* `WsClient`: the run goroutine and the ping goroutine keep going, timers fire,
  the UI reads the channel until it closes the client, and the server answers
  on a healthy connection. Faults, key presses and news are never forced. The
  liveness properties speak of behaviours in which the finitely many faults are
  used up.
* `Conversation`: every command ends, since each request has a timeout
  (`ui/messages.go`, `ui/poll.go`), its result is handled, the poll timer is
  re-armed by every tick (`ui/poll.go:32-39`), accepted sends are dispatched.
  `Converges` asks for a conversation that stays open and is not stuck in the
  reaction picker, in which the poll is suspended. It says that the rows become
  those of the server; that they are shown as well it says only if no load has
  failed since the conversation was opened, for the error stays (section 6).
* `ChatSession`: goroutines and commands keep taking steps. This includes that
  the model server ends its replies: the code bounds only the wait for a reply's
  headers (`llm/client.go:239-252`), so a server that falls silent in the middle
  of a reply leaves the response to the user's esc. `CancelledEnds` leans on the
  request's context, which ends a read in progress.
* `Lifecycle`: main goes on, a list fetch ends and is handled, the poll timer is
  re-armed, the debounce time passes, a save takes its next step. Nothing makes
  the user start, quit or press a key, and no mishap is forced. Two things are
  assumed: a save takes less than the debounce, so that at most one background
  save runs, and Bubble Tea does not wait for running commands when it quits.

## 5. Theorems

All are proved by TLAPS for every value of the constants under the named
assumptions of the modules (capacities, schedule and bounds are natural numbers,
positive where the code's are; there is at least one tool; `None` is none of the
records it stands in for). No property of a graph of states is assumed. Every
safety property of a passing run is a theorem.

* **`WsClientProofs`** `StreamTypeCorrect`, `StreamGrammatical`: the grammar is
  a statement about neighbours in the queue; its induction needs the phase to
  agree with the queue's last event, which `Put` preserves.
  `ClientTypeCorrect`, then `ClientImplementsStream`: every step of the client is
  a step of the stream or a stutter. This needs `SessionInv`, which ties
  `connected`, the connection and the closing flags to the program counter.
  `ClientGrammatical` carries the stream's theorem over.
  `ClientSubscribesFirst` and `ClientClosesInOrder` have strengthenings of
  their own, that a connected session's set is on the wire or in force, and
  that the exit points follow each other. `ClientNoSilentGap` rests on `GapInv`:
  wire, client and channel form one line from the server to the UI. While the
  server streams, that line ends in the server's latest event or in a mark (the
  server's `ready`, or the `connected` it becomes), and nowhere on it is there a
  gap without a mark. A loss cuts the line at the server's end, and a new
  connection puts a mark there before anything else; lemmas about moving
  events along a line (`Moved`, `Belt...`) carry this through the steps.
* **`ConversationProofs`** The inductive invariant is types, `Sources` and
  `Placeholders`. `Sources` says that all that the server holds, has answered
  or streams belongs to the chat it is labelled with and contains copies only
  of messages dispatched: without it a stale answer could bring anything.
  `Placeholders` says that sequence numbers in use were handed out and that a
  placeholder is on screen once, in its own chat, flagged or on its way. From it
  follow `ConversationOwnRows`, `ConversationLooksSent`,
  `ConversationOneRequest`, and the action property `ConversationKeepsUnsent`.
  None of these assumes anything of the texts: what takes a placeholder away is
  a copy of some message of its text, and a copy means that this message was
  dispatched (`EchoIsDispatched`). `ConversationRendersOnce` needs `Ledger` in
  addition: every list the server holds or has in flight has one row per identity,
  no copy in it is numbered beyond what was dispatched, and none is older than the
  placeholder it echoes, wherever that still stands; so the copy always finds its
  placeholder within the time `hasEcho` allows. It assumes distinct texts; with
  equal ones the property is not true of the code (section 6).
* **`AssistantProofs`** For `ChatSession`: `ChatTypeCorrect`; `ChatHasListener` is
  inductive with the types; `ChatKnowsModel` rests on `ModelInv` (a check without
  an error leaves the model known, and detecting means not yet checked);
  `ChatAnswersOne` on `WorkInv`, whose core is that the event that ends a
  response is out only when its goroutine has nothing left to do and that,
  before anything is cancelled, no other chain of commands is alive;
  `ChatIgnoresLate` is an action property on the types alone.
  `ChatAnswersInOrder` follows from `AnswerInv`, an `Account` of everything in
  flight: there are numbers of words said and sets of tools running, one per
  place in the channel, that lead event by event from the turn on screen to what
  the goroutine has said and is doing now.

  For `TokenStream`: `StreamKeepsText`, what was emitted followed by what
  is held is what has arrived, for every reply, vault and chunking, also when the
  vault learns in between. It rests on the lemmas that `HoldBack` splits its
  argument and that neighbouring parts of a sequence join.
  `StreamNamesNobodyElse` and `StreamShowsFinalText` are two parts of one
  invariant, `ShownInv`: every place already shown is right for the whole reply,
  and if no chunk was awkward and all tokens stand apart, it is what the whole
  reply will show there, and no token of the reply goes on behind what was emitted.
  The lemma it turns on is `CutSplits`: whatever `HoldBack` holds begins with the
  first letter of the word, which no token has behind its beginning but in sixth
  place (`InnerBeginning`), and whatever it lets go, if it ends in a token, ends in
  one that cannot grow, as a token is no longer than the limit. `ShownStays` says
  that a vault may learn any numbers that the reply does not mention. The digits
  of a token are assumed to be at most five (`NumbersAssumption`, `mint` draws
  below 100000).

  For `Vault`, as part of `StreamSpec`: `VaultBringsNamesBack` and
  `VaultHidesNames`. The invariant `VaultInv` says of the vault that it is
  `Ready`: `byValue` and `replacer` have the same values, long ones, each once;
  every entry's token was issued; the longest values come first; and the name a
  token was issued for is an entry that leads to it. Of each person known it
  says that all that the person is called is there with its possessive (`Knows`).
  `Enters` and `Sorts` carry this through `Update`, and an entry once there is
  never replaced (`Extends`). What redaction does is then a matter of sizes: an
  entry in front of a value's own is at least as long and another value, so it
  cannot occur within it (`PartsAreShorter`, `NotWithin`); its own entry replaces
  it once (`OneReplaced`); and none behind occurs in a token, inside which there is
  no word (`NotInToken`). `VaultHidesNames` has a hypothesis, `Ordinary`: the
  sentence around the name uses words that are in nobody's name, and nobody's name
  is the possessive of another's. Without its second part the property is not true of
  the code (section 6).

  Both need to know what recursive functions compute. The library's induction
  theorems cannot be used here, since they take an operator; but an induction on
  a set of numbers is an ordinary lemma (`Induction`, `Upward`, from the least
  element of `WellFoundedInduction`), and so is the existence of the function a
  loop defines (`Recursion`). `SizeIsSum`, `ReplacedIs`, `RegistersName`,
  `RegistersPerson`, `Enters`, `Sorts` and `RedactsOnce` are one induction each.
* **`ChatListProofs`** The types, distinct rows and the window are inductive only
  together: a cursor stays on a row because the rows are distinct, and the
  window fits because the cursor is on a row. `ShowOrderly`, `ResortOrderly` and
  `FirstVisibleOrderly` establish all three after the pieces actions are made
  of, `SortedList`, `KeptList`, `MergeOK`, `WithArchivedOK` and `FoldMessageOK`
  say what happens to the rows, and each step of the background is proved with
  the two action properties at once (`Pins`, `Keeps`). From these follow
  `ChatListTypeCorrect`, `ChatListOneRowPerChat`, `ChatListCursorOnScreen`,
  `ChatListSelectionPinned` and `ChatListKeepsConversation`.
* **`PersonCardsProofs`** `TypeCorrect` and `OnePersonsFacts` from one inductive
  invariant: a card on disk or in a writer's hands has a name that leads to its
  file and facts about people whose names do; what a writer found is about the
  person it asked for; quotes, on disk or copied, likewise. It is cut into what a
  writer holds, what is on disk and the sweep's bookkeeping (`InHand`, `OnDisk`,
  `Clerk`), since most steps touch one of them. `StaleWriters` is an action
  property: no step but a write touches a complete text. `OncePerCooldown`
  counts: what has been asked, or is about to be, is covered by the sweep's
  memory, by the marks on disk, or by a loss.
* **`PeopleProofs`** `Components`: every key leads to a person that has it, every
  observation is led to by the keys it has recorded, and by its name if that
  merges; and no person reaches beyond a set of observations closed under links (`Apart`), which
  is stated for every such set so that a merge can be followed through it.
  A user ID that reads like the name is not recorded (section 6), so
  what leads to a person are the keys recorded and not all an observation has;
  the theorem needs no assumption on IDs, as `Joined` says which links remain.
  `MergesKeepEverything`: each record `Gathers` exactly what its class of observations holds, which the
  union with an absorbed class and with the new observation preserves.
  `NamesakesAsked`: two people with one common name have been `Asked` about
  whichever came first, as the name of every observation is a key (`IndexInv`).
  `ExactWins` is about the finished index: an exact match has the best rank
  there is, so whoever ranks first also bears what was asked for.
* **`LifecycleProofs`** `DecisionsAreKept` from `DecisionsInv`: what was read is
  what the user has decided unless the file was edited since, so that writing
  it back loses nothing. `RemembersQuit` from `QuitInv`: what is owed to the next start
  is in the file, or in the hands of the save on quit while no other save
  writes; that no background save can then be on the way to the file is the
  part that a test of the save alone would not see.
* **`AttachmentsProofs`** `PartsInOrder` from `Account`: each command knows where
  it is. Before it sends part `a` the chat has all earlier parts and `a` at most
  with a failure reported (`Due`); after it, `a` is the latest of the
  draft (`Reached`); and what is left of a failed draft begins with the part that is
  due. The chat's log is then in turn, message by message (`InTurn`). `DraftsKept`
  adds `Kept`: the echo that takes a failed draft away has its text, and if no
  other draft has that, it is the echo of the draft itself.

Only model-checked are the liveness properties (`CloseTerminates`,
`EventuallyConnected`, `HeardOrRefetched`, `Converges`, `LoadingEnds`, `CancelledEnds`,
`ResponseEnds`, `StartupEnds`, `LostWriteIsRetried`), for which the provers have no
rules about fairness.

## 6. Where the code and its texts disagree

`draft_leak` is a run that TLC refutes. A chat is deleted elsewhere while a file is
attached to its draft; `applyChatDeleted` clears the text and not the files
(`ui/wsevents.go:244-251`), and the file goes out with the next message, to
another chat. `PROJECT.json` quotes the texts.

The following were met while modelling. The models contain them, and the
properties are stated around them.

*Conversation and inbox.*

* A load result replaces all rows, also the optimistic row of a message sent
  before the load was answered; if that send fails, nothing on screen says so.
* A refresh answered before the bridge dispatched a message, applied after the
  live event, takes the message off the screen until the next refresh.
* The poll is documented as "bounding staleness"
  (`docs/superpowers/specs/2026-05-23-m3-live-inbox-design.md:132-133`), but after
  one failed load of the open conversation, such as the refetch of a reconnect,
  its error is drawn in place of the rows (`ui/view.go:186-191`), and neither a
  poll nor a later good load clears it. `Converges` says what is left.
* "a poll cannot make a just-sent message vanish" (`ui/poll.go:71-73`), and an
  identical message should not "swallow a genuinely unsent one" (`:101-104`): of
  two sends of one text within two minutes a poll that carries the first also
  drops the second, sent or not, and with it its failure flag and the retry.
  `UnsentStaysOnScreen` therefore speaks of texts of which nothing has been
  dispatched.
* With two such sends a repeated upsert of the first copy claims the placeholder
  of the second (`ui/wsevents.go:156-181`), and two rows have one identity, against
  `:167-169`. `NoDoubleRender` is stated for distinct texts in
  `ConversationRendersOnce`.
* A list refresh keeps the cursor on its chat without asking whether the tab
  still shows it. After the selected chat is read or archived elsewhere there is
  no cursor, `j` and `k` are dead, and `enter` and `a` act on a chat that is not
  shown. The comment in `backToList` describes this state and avoids it there; a
  warm start reaches it too.
* `returnToChat` survives a detour through the search, so a chat opened from the
  list later returns to the assistant.
* `applyChatDeleted` looks the selection up by the ID it had after `backToList`
  has chosen a landing place, so the choice only ever moves the window.

*Assistant, vault and stream.*

* `HoldBack` holds the shortest tail that fits, so a chunk that ends in `CONTAC`
  lets `CONTA` go, and the token is never put back into a name.
  `ShowsFinalText` is stated for all other chunkings.
* The word boundaries of the token's expression are looked for in what is emitted
  at once. A token in one word with what is before it, `XCONTACT_1`, is none in the
  finished reply, but a cut before it makes it one, and `HoldBack` cuts just there:
  its name is shown behind the `X`. `ShowsFinalText` leaves such replies out.
* If somebody is called by the possessive of another's name ("Dana's", after
  "Dana"), the two share a token, and the second one's name goes out as
  `CONTACT_1's`, not as a token of its own (`redact/redact.go:88-90, 104-117`).
  `VaultHidesNames` excludes this.
* A command of a cancelled response may deliver its event to the next question's
  turn, if that is asked before the old goroutine notices its context.
* A person whose whole name is a word of another's ("Sam", after "Sam Smith")
  shares that one's token and is shown under the other's name
  (`redact/redact.go:104-117`); a contact without a name is shown as empty text.
* `resolveChat` promises "exact id, then exact title"
  (`ui/chattools.go:736-738`); one pass in list order takes whichever comes first.

*Identities and the merge file.*

* "Strong keys merge unconditionally" (`identity/identity.go:69-70`), but the map
  literal at `:189-198` has untagged keys: when a user ID reads like the name, it
  is not recorded, and the same user met again under another name becomes a
  second person. In the other order the two are one. `PeopleAreComponents` leaves
  this link out where exactly one of two observations is misread.
* An edit of the merge file in the up to ten seconds in which the vault is
  built is overwritten, and a kill between the two halves of the rewrite loses
  the decisions. A file that does not parse stops the start; a fetch that fails
  drops the names that wait for a decision.

*Person cards.*

* The sweep and the tool rewrite a card as they read it, so an edit by hand
  during a model call is lost, though the cards are documented as the user's to
  edit (`person/card.go:2-4`). `OnlyStaleWritersOverwrite` is what remains true.
* Different names may have the same slug, and a name without a Latin letter or a digit
  has none; a changed `name:` makes the next save go to another file; a
  kill in the middle of a write leaves an empty card, and a torn sidecar counts as
  empty without a word. A value that the user has changed keeps the mark of an extracted
  one if it had a quote (`person/extract.go:165-166`).
* The tool reports an error after the card was saved when only the quotes
  could not be (`RecordProvenance`).

*Start, cache and attachments.*

* `m.err`, once set by a failed first load, is cleared by `r` and not by a list
  (`ui/update.go:21-38`), so the onboarding screen stays although chats arrive,
  "instead of trapping the user" (`ui/view.go:112-114`). The design document says
  that the program does not exit and connects once the API comes up
  (`docs/superpowers/specs/2026-05-17-beeper-tui-design.md:61`); `main` exits
  before there is a screen when it does not come up in time.
* A background save encodes the array that `Update` goes on changing in place,
  and is not waited for at the end: it may overwrite, or be mixed with, "the
  final write on quit" (`ui/cache.go:11-12`). `QuitIsRemembered` excludes a
  background save under way at that moment.
* Once the echo of a draft's captioned part has replaced the placeholder, the failure of a later
  file has no row to show and cannot be retried. An image read from the clipboard
  joins whatever draft is open when it arrives (`ui/update.go:92-99`).

## 7. Not modelled, and the plan

Rendering, configuration, attestation, the API client's plumbing, the development
stub and the evaluation harness change no state that later steps depend on. Of
the image previews only the cache is state, and it is read for drawing alone.
What is left, the most important first:

1. Composition: `Conversation`'s stream replaced by `WsStream`, so that
   convergence rests on the theorem about the client instead of a copy of it.
2. The rest of the inbox: requests in flight against a server's list, so that
   settling can be stated (no lost badge, an archive that survives a stale
   list), the archive lock, the messages of a search.
3. Proofs: the window and the cursor of a conversation once row order is modelled.
4. The requests of the assistant's other tools, and the tool-call fragments that a stream
   joins by index.
5. Row order and the cursor within a conversation.
