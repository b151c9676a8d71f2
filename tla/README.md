# TLA+ models of rp-engine

Models, model checks and machine-checked proofs for rp-engine, a role-play engine: a
Telegram bot and an admin panel that let players talk their way through scenarios written
by a language model. Source paths below are relative to `src/rp_engine/` of the repository.

## 1. The system

One process, one event loop. Everything that can go wrong between components goes wrong at
an `await`: the Telegram runtime handles an update at a time, the HTTP API handles any
number of requests, a background worker runs memory jobs, and all of them share the same
service objects and the same PostgreSQL rows. Each repository call is a transaction of its
own; nothing spans two of them.

| Component | State | Operations | Interacts with |
|---|---|---|---|
| `ChatService` (`application/services/chat_service.py`) | `_generating_sessions` in memory; `conversation_messages` and trace rows | send, continue, regenerate | conversation, trace and session stores, memory pipeline, model, scheduler |
| `AsyncioTaskScheduler` (`infrastructure/tasks/`) | bounded queue, `_in_flight`, the worker task | submit, start, stop, worker loop | started and stopped by `app/lifespan.py`; jobs call the memory pipeline |
| `PlaythroughService`, session store | `scenario_sessions`, `active_scenario_sessions` | start, restart, clear, set_persona, save, delete | Telegram adapter, admin panel, conversation store |
| Directives (`SessionDirectiveService`, `AdminService`) | columns of the session row | rules, language, memory settings, director notes, persona override, peel, hard delete | session store, `ChatService` (which saves the row too) |
| Rolling summary, recent window, pipeline (`core/memory/`) | `session_summaries` | recall, observe, fold, status | conversation store, token counter, summarizer |
| Conversation builder, mapper, provider | none | build, map, respond | model behind HTTP |
| Token counter | a bounded cache, the context length | count | worker threads, HTTP |
| Telegram adapter | pending persona, narrator message ids (two files) | commands, free text, callbacks | all services |
| Beta access (`beta_registry.py`, `authorization.py`) | request files, allowlist in memory and in `users.json` | request, accept, reject, block, unblock | Telegram adapter, admin panel |
| Processing feedback, splitter | recent templates, the typing task | start, stop; split | Telegram adapter |
| Scenario catalog (`scenario_transfer_service.py`, two stores) | `scenario_definitions`, lore rows | create, replace, import, retire, restore, lore edits, boot import | admin panel, `lifespan`, `/play` |
| Identity resolution | owners, platform identities | resolve | every Telegram update |
| Admin panel API | none | the routes | all services |

Hard behaviours: concurrent turns of a session; whole-row saves from stale readings; a
retry that clears a conversation before it writes it back; traces filed under a number that
is handed out again; a dedup key that is released only after its job has read; two memory
passes that overlap; rounding between shares of two different totals; requests that die
between two transactions; small files that are torn while they are written; answers to
prompts that come after the player has moved on. `PROJECT.json` lists each hazard with its
line and the properties that would catch it.

What makes each part correct:

* *ChatService*: one generation per session; every reply answers the messages stored before
  it; replies numbered by rank; messages and notes are lost only to a turn that got its
  reply; traces belong to the reply they are filed under; the session is let go of in the end.
* *Scheduler*: keys in flight are exactly the keys queued or running; one job per session;
  memory moves only forward; a key is freed in the end.
* *Playthroughs*: one live session per owner and scenario; superseded sessions stay so;
  transcripts survive; persona and settings are those last chosen.
* *Memory*: the recap tells exactly what it claims; nothing outside the budget is outside
  the recap; what a turn recalls fits and continues from an unbroken end of the story.
* *Telegram*: a chat shows the replies its stories hold; who was let in is in; feedback is
  taken back; a split reply is the reply.
* *Catalog and archives*: what was withdrawn comes back only by request; a bad file costs
  itself only; an import restores what was exported.

## 2. Modules

| Module | Models | Run |
|---|---|---|
| `Story` | abstract: a transcript that moves by whole turns | as `ImplementsStory` |
| `ChatTurns` (`MCChatTurns`) | the turn handlers of ChatService on one session, await by await | `chat_turns`, `notes_read_race` |
| `ChatPanel` | ChatTurns with its traces and the panel peeling messages at any moment | `chat_panel` |
| `TaskScheduler` | scheduler, lifespan, and turns that submit jobs | `scheduler` |
| `Playthroughs` (`MCPlaythroughs`) | one owner's session rows: services, edits, turns' row saves, deletion | `playthroughs`, `playthroughs_revived` |
| `RollingSummary` | recap passes, the fold line and the window's budget | `parts`, `rolling_floor`, `rolling_twice` |
| `MemoryRecall` | recall of the enabled layers and the cut to the budget | `parts` |
| `Prompt` | history to messages to chat to reply, with the reasoning taken out | `parts` |
| `TokenCounter` | the cache, the context length, the fallback | `parts` |
| `TelegramDispatch` | the story commands, persona prompts, turns, `/retry` and its message ids | `parts`, `narrator_retry` |
| `BetaAccess` | requests, decisions, allowlist and its file | `parts` |
| `Feedback` | the typing task and the temporary message around a turn | `parts` |
| `Splitter` | `split_message` | `parts` |
| `Identity` | concurrent resolution of users and groups | `parts` |
| `ScenarioCatalog` | definitions and lore: requests, boot import, `/play` | `parts` |
| `Directives` | the rules a player removes by id, beside the row's other settings | `parts`, `rules_reused` |
| `Transfer` | export and import of a session, the payload mappers | `parts` |
| `BootImport` | curated files of any shape at boot | `parts`, `boot_bad_file` |
| `Parts` | the thirteen parts above that say `parts`, one of which moves in a behaviour | `parts` |
| `TaskSchedulerProofs` | theorems about `TaskScheduler` | |
| `ChatTurnsProofs`, `ChatStoryProofs` | ... about `ChatTurns`, and that it implements `Story` | |
| `ChatPanelProofs` | ... about `ChatPanel` | |
| `PlaythroughsProofs` | ... about `Playthroughs` | |
| `PartsProofs` | ... about the parts, as `Parts` composes them | |
| `MemoryProofs` | ... about `RollingSummary` and `MemoryRecall` in `Parts` | |
| `TelegramProofs` | ... about `TelegramDispatch` in `Parts` | |

Each model starts with a comment that says what it abstracts. Definitions named "Mutant"
are plausible bugs of the definition that follows them; each shows that the property it is
listed with in `PROJECT.json` can be broken.

**ChatTurns.** `pc[c]` says at which await caller `c` is suspended, `local[c]` is its
coroutine's variables, `generating` is membership in `_generating_sessions`. Between two
awaits nothing interleaves, so a step is one action: `Begin` (the lock), `LoadSession` (the
row, once), `LoadHistory` (with regenerate's checks), `Generate`, `GenerateAgain` (recovery
of a reply cut at the token cap), `Consume` (the row saved with its notes emptied), `Clear`
and `WriteNext` (the saves), `Finish` (the layers asked, submit, release). `Fail` is an
awaited call that raises; `Crash` loses everything in memory. Message text is abstracted to
whether it is blank, why it stopped, and `basis`, the ids of the messages its prompt was
built from; that history variable is what "answers its history" is about. The refinement
mapping to `Story` shows the loaded history until a turn's last write, so a whole turn is one
step; a turn that dies between writes is the abstract `Tear`.

**ChatPanel.** `delete_last_message` ignores the lock, so it may fall anywhere inside a
turn, and it is two transactions: the message goes, then (`sweeping`) the traces filed under
its turn number. `traces` pairs a turn number with the reply described. `undercut` records
what was deleted while a turn was generating; `crossed`, that a deletion and a turn
overlapped, or that the process died between the two transactions.

**TaskScheduler.** `queue`, `inFlight`, `worker`, `running` are the object's fields;
`hasRead`, `seen`, `folded` follow what the running job has read and what it saves. `stop` is
three steps (cancel, the worker's `finally`, forgetting the keys), with submits between
them. `Restart` builds a new scheduler on the surviving rows.

**Playthroughs.** `rows` is `scenario_sessions`, saved whole from the object in the client's
hands (`local`). `Collides` is the partial unique index. Each step of start, restart, clear,
persona, edits, turns and deletion is an action with everything that can interleave.
`chosen` is history: the settings last chosen for a scenario; `torn` the scenarios whose
/restart died between its two saves. Language and memory settings are single-valued columns
saved with the same row as rules; rules stand for them. `racing` is fixed by the initial
state: requests interleave at every await, or happen to wait for one another and may still
die halfway; the properties that need the second say so. `MCPlaythroughs` bounds the racing
behaviours further (`WithinBounds`): one scenario, two ids, one persona, where requests in
turn have two, three and two. Its symmetry set permutes all ids; a permutation that takes one
racing state to another agrees on both with one that keeps the racing ids among themselves,
so it is sound for both ways.

**Parts** names the thirteen models that share no state with the others, each an `INSTANCE`
with its own variables and bounds (`MaxFailures`, `MaxOwners`, ... in `Parts.cfg`). `part`
says which of them moves; the rest hold still at their initial states, so a state of `Parts`
is a state of one part. `PartsAssumption` is what the proofs ask of its constants: the none
value is no number, text, list or mapping of the kinds it is compared with, prices and sizes
are natural numbers, shares percentages, the cache has a size and no limit is below 1.

**RollingSummary.** A message is a role and a price; a recap is the set of messages it was
made from, the turns it claims, and whether it is too long. `Edge` is the walk from the
newest message, `EndOfTurn` and `IndexAfterTurn` the snapping to turns, `FoldNow` the
decision, and `Load` .. `Save` the pass. Integer shares round down as in the code. A player's
line may follow another: the turn of the first died before its reply was saved, or the reply was
deleted; only where neither can happen (`MayFail` and `Peels` off) do the two speakers alternate.
The name of the model that wrote a recap, which a pass also compares before it saves, is left
out: it decides whether the same text is written again, and no text.

**MemoryRecall.** `Total`, `Prices` and `Costs` are the budget, what the rest of the prompt
takes and what one message costs. Layers answer in any order or raise; `Keep` is
`_apply_budget`, fragment by fragment in order of priority. Its sums, the walk that picks the
window and the cut are recursive functions, so that they can be reasoned about. **Prompt** follows the number of
each message from the history through the builder and the mapper; a fragment that comes back
is prose, reasoning, a marker the code knows, or one that has drifted. It assumes that
reasoning LM Studio did not classify is followed by a marker of some kind: without one nothing
in the text tells it from prose. Trimming of the text is abstracted. **TokenCounter** keeps
the order of use of the cache, with calls in flight in worker threads.

**TelegramDispatch.** Stories, the chat's pointer, the two files, and `shown`, the narrator
messages now in a chat. One update at a time (`at`), each await between two effects a step
after which the handler may raise or the process die. `strayed` marks a chat whose messages
and files a fault, the panel or a `/retry` right after a switch of story (`switched`) left out
of step.

**BetaAccess.** `queue`, the requests waiting, and `torn` are the request files, `file` is `users.json`. `dirty`
says the last write of it failed, `decided`, `approved`, `blocked` what was decided and told.
**Feedback**: `typing` is the task's place, `stray` counts messages left behind. **Identity**:
the insert of owner and identity is one transaction that the primary key may refuse.

**ScenarioCatalog**: requests read, then write later; `Reboot` reruns the import of the
curated files. **Directives**: `seen` is the list a player looked at, `gone` the rules that
were removed. **Transfer**: rows and archives are payloads, read by the same mappers, from
this build or an older one. **BootImport**: files with at most one flaw of each kind the
readers meet, beside one that is good.

## 3. Runs

Passing runs (distinct states in brackets):

* `chat_turns` (795 thousand): two callers, one panel editor, one note, ids up to 7, which
  is three completed turns: enough for a reply, a resume or a second speaker's turn, and a
  retry of it, with any of them dying halfway. The handlers look only at the last two
  messages and at counts, so longer stories repeat these cases.
* `chat_panel` (604 thousand): two callers under fairness, ids up to 5, deletions anywhere.
  No symmetry, because a liveness property is checked.
* `scheduler` (118 thousand): three sessions over a queue of one, so that queued, running
  and refused jobs exist at once; two turns each, so that one can come while a job runs.
* `playthroughs` (5.9 million): a Telegram user and a panel request, in the two ways above;
  two ids let an old and a new session coexist, the third lets a second scenario begin.
* `parts` (2.9 million): thirteen parts that share no state, each within the constants of
  `Parts.cfg`; letting them move together would only multiply states:
  * one private chat, three stories of two scenarios, three replies of up to two messages, one
    fault: a story is left, reset, and come back to;
  * two users and two faults for access, three templates over a history of two for feedback;
  * texts of up to six characters of four kinds, limits 1 to 4;
  * an old and a new caller on a player and a group identity, for at most three owners;
  * one curated scenario under two concurrent requests and reboots; two actors on three rules;
  * a recall of three messages of 1, 2 or 4 tokens in a budget of 8, and a rest of the prompt
    that takes nothing, some or all of it; chats of four messages, replies of four fragments;
  * two callers on three texts over a cache of two;
  * a session edited twice around an export and an import; two curated files;
  * a worker's pass beside a panel refresh, four messages, failures, deaths and peels, and a
    fold line that one message fits.

Runs that end in a violation each show a disagreement between the program and what the
repository says of it (quotes are in `PROJECT.json`, "findings"):

| Run | What happens |
|---|---|
| `notes_read_race` | a note queued during a generation that had notes is discarded unread |
| `playthroughs_revived` | a stale whole-row save clears the `deleted_at` a reset has set |
| `rolling_floor` | with the default shares and a reserved prompt, the window ends inside the waiting turns |
| `rolling_twice` | the slower of two overlapping passes overwrites a newer recap |
| `rules_reused` | removing the newest rule hands its id to the next |
| `narrator_retry` | `/retry` after going back to another story deletes the message of the story left behind |
| `boot_bad_file` | a curated file of the wrong shape ends the boot instead of being skipped |

`FloorHolds` passes in `parts`, where what stands past the fold line and a line waiting for
its reply just fill the window; `rolling_floor` is the same property at the repository's
default shares, in a story without failures or deletions, where every line has its reply.
`FloorHeld` (section 4) says which configurations are like the first. `SupersededStaysInTurn`
says that superseding is final as long as requests do not overlap.

Other weaknesses are stated as the exceptions of passing properties, and are there because
the property fails without them:

* a reply whose messages were deleted under its turn (`undercut`), and traces when a deletion
  and a turn overlap or a deletion dies halfway (`crossed`);
* a /restart that dies between its two saves loses the settings it was to carry (`torn` in
  `ChosenSettingsHold`, which is also claimed for requests in turn only, because an edit saved
  from an older reading of the row takes back an edit saved in between);
* deleting messages the recap tells of leaves it claiming more turns than the story has, so
  that later turns are neither folded nor, in the end, replayed (`Deleted`); and a pass
  overtaken by another saves the older recap over the newer (`Overtaken`);
* player's lines without a reply: a turn saves the line and the reply one after the other, so a
  turn that dies in between leaves its line unanswered, and the panel deleting a reply does the
  same; the next line is stored behind it. `_end_of_turn` pulls the fold line back over a run of
  such lines and the window has no room for them: with the constants of `Parts.cfg`, a reply, two
  lines and a reply leave the first of the lines in neither the recap nor the window
  (`PulledBackOverUnanswered` in `FloorHolds`);
* a chat in which a call failed or the process died between a reply and its bookkeeping, whose
  story the panel played as well, or that retried right after a switch of story (`strayed`);
* an allowlist whose last write failed before the process ended (`dirty`); a request decided
  while the panel blocked its user; a session that changed under its import (`raced`).

Noted while modelling, and not properties of a run:

* a beta request file that was torn while it was written is "already on the list" for its
  user for good, and never listed to the admin;
* a truncated `users.json` makes `from_directory` raise at start (`authorization.py:33-35`);
  the model's `Repair` is the operator deleting it;
* the boot import overwrites the panel's edits of a curated definition and brings back curated
  lore that was deleted (compare `scenario_transfer_service.py:73-75`); `WithdrawnStaysAway`
  therefore asks of an import only that it keeps the stamp of a retired definition;
* a submit dropped as a duplicate is not always covered by the job in flight, which may have
  read already (`asyncio_task_scheduler.py:40-41`); the next turn asks again;
* resuming another story with `/play` leaves a pending persona prompt as it was, so that the
  answer names the persona of the story started, not of the one resumed
  (`adapter.py:1256-1258`); `PersonaSetOnce` says what such an answer may not do;
* `import_session` clears the old transcript before it reads the messages, so an archive with
  an unreadable message leaves what was imported up to there.

`CHECK_DEADLOCK FALSE` is set where a model can really stop: in `Playthroughs` every id may
be minted and deleted, in `RollingSummary` the story ends at `MaxMessages`, in the parts a
text is split, an archive read, a boot over or a bound reached. Every bound is a constant
(`MaxId`, `MaxTurns`, `Slots`, `MaxMessages`, `MaxStories`, `MaxReplies`, `MaxFaults`,
`MaxOwners`, `MaxStamps`, `MaxRules`, `MaxEdits`, `MaxText`, `MaxHistory`, `MaxFragments`).

Fairness: `chat_panel` assumes weak fairness of a turn's steps, because asyncio resumes
a coroutine whose await has returned or raised, and every await (the model's HTTP call has a
timeout) does one or the other. Starting a turn, deleting and crashing are not fair.
`scheduler` assumes it of the worker's steps and of the two steps of a stop under way,
not of submitting, starting or stopping. No other model states a liveness property.

## 4. Proofs

Every safety and every action property of the passing runs, and the refinement of `Story`, is
also a theorem, for every value of the constants that the named assumptions of the modules
allow. The theorem is about the specification the run checks; `MCPlaythroughs` adds bounds to
`Playthroughs`, and the theorem needs none of them.

**`TaskSchedulerProofs`**: `TypeOK`, `InFlightExact`, `OneJobPerKey`, `FoldedOnlyForward`.
`InFlightExact` alone is not inductive: `EndJob` removes the running key, which is right only
because that key is not also in the queue (`OneJobPerKey`), and `Start` finds an exact set only
because nothing is accepted before it (`NothingBeforeStart`). The memory needs `ReadInBetween`:
what a job has read lies between the session's memory and the store, which a job taken later
must read anew.

**`ChatTurnsProofs`**: `TypeOK`, `OneGeneration`, `ReplyAnswersItsHistory`, `TurnsNumbered`,
`HistoryLostOnlyToAnsweredRetry`, `FailedTurnKeepsNotes`, `AskedAfterStored`.
`ReplyAnswersItsHistory` follows from `Planned(c)`: until a coroutine writes, the history it
loaded *is* the store, and from then on the store followed by the saves to come is an answered
transcript. That is stable because only the holder of the lock has a plan (`OneGeneration`).
Any prefix of an answered transcript is answered (`AnsweredPrefix`), which is why dying between
two writes, or in a retry's rewrite, does no harm. The other properties add that the store with
the saves to come is numbered (`NumberingPlanned`) and that whoever clears, consumes or writes
holds a usable reply, which is the last message it will write (`ReplyHeld`).

**`ChatStoryProofs`**: `Spec => ImplementsStory`. `Pending(c)` says that what an accepted turn
has still to write makes a whole turn of the history it loaded; then a turn's last write is
`Exchange`, `Advance` or `Replace` (`WholeTurn`), a failure or death between writes is `Tear`
or nothing (`TornTurn`), and every other step leaves the mapped transcript alone.

**`ChatPanelProofs`**: `RepliesAnswerStoredMessages`, `NoStaleTrace`, `SweepSparesStored`. The
panel breaks what the plans of `ChatTurns` rest on, so `GroundPlanned(c)` claims less: what a
turn has loaded is stored or was deleted under it, which a deletion keeps by moving an id from
the one side to the other. Traces are filed under the number their reply has (`FiledInv`), for
stored messages, loaded ones and those still to be written alike, since a retry writes old
messages anew. That a number names one reply is known only while no deletion and turn
overlap: then the invariant of `ChatTurnsProofs` holds as well (`Uncrossed`), replies are told
apart by their rank, and a deleted reply's traces are left only under a number being swept.

**`PlaythroughsProofs`**: `TypeOK` (with the pointer that never dangles) and
`OneLivePerScenario`, however requests race: the index guards every save but the one that
stamps the row, and that one takes a live row away (`UpsertRow`). For requests in turn,
`ChosenSettingsHold`, `SupersededStaysInTurn`, `TranscriptsKept`, `PersonaSetOnce`. Their
invariant `InTurn` says that one request is at work (`Alone`), so what it holds is as it read
it (`Fresh`): a row about to be saved equals the stored one or is new, its scenario has no
other live row, and a new row carries the settings that count. `ChosenStand` adds that the
chosen settings are those of the live session, or the defaults, or in the hands of a /restart
between its two saves; a /restart that dies there is `torn`.

**`PartsProofs`**, one inductive invariant per part, which holds still while another part moves:

* `FeedbackTakenBack`: where the task can be in each step of the turn (`NothingLeft`) and
  `EachStrayPaid`.
* `AccessHolds`: a file behind memory is the work of a failed write (`FileInStep`), and of a
  granted request whose user is not blocked the user is in already (`GrantStands`), so that the
  later steps cannot let a blocked user in. `RequestOutlivesDecision` follows with it.
* `OneOwnerEach`: what was answered is what the table says (`Answered`), and `Reachable`.
* `RemovalHitsSeen`: ids tell the rules of a row apart (`RulesTold`), a rule that was shown is in
  the row or has left it since (`SeenStands`), and a removal no other save ran into holds the row
  without the rule of that id (`EditsHold`).
* `WithdrawnStaysAway`: what a request read before it writes still holds unless a write came in
  between (`ReadHolds`).
* `RecentCountsKept`: an entry's place says how many other texts were used since, and what is not
  cached fell out behind a full cache (`Aged`).
* `ImportComplete`: of each pass over the files, every usable one is saved or still to be, and the
  second pass takes nothing of the first away (`PassesSaved`).
* `SplitFaithful`: the chunks are what stands between successive ends in the text (`ChunksEnd`),
  which gives that nothing is lost; and each end is the text's, or a break or, in a window
  without a blank, the window's end (`FairCut`), because the last cut of the first kind there
  is, is one (`SplitFair`).
* `ImportRestores`: a row reads back as it was meant, an archive as the session it was made
  from (`Honest`); an import nothing changed the session under has set it to the archive's and
  said a prefix of its transcript (`Progress`). Under it lie lemmas about the payload readers:
  what they make of a stored, clamped or absent share, note or rule list.
* `NoThoughtDelivered`: the prose that is left of a stream has a marker after every thought
  (`Delimited`), so what is delivered, the part after the last marker the code knows, has no
  thought unless it has a marker that has drifted, and then it is refused.
* `ChatWellFormed`: `Makes(turns, h, k)` says what the first k messages of a history make of a
  chat: each number said once and in order, no two narrator turns in a row, breaks where the
  earlier message was complete, the last turn that of message k. It holds of nothing, and each
  message keeps it, in a turn of its own (`OwnTurn`) or joined to the last.

**`MemoryProofs`**:

* `RecapTellsWhatItCovers`, `RecapNeverForgets`. The transcript grows and shrinks at its end only,
  so every message stands for good behind the same messages: `upTo` assigns to each id ever used
  the conversation when it was written (`Grown`). A recap is `Whole`, that is all of `upTo` of one
  reply, or tells of a message deleted since (`Outlived`), and what a pass holds is as sound
  however long ago it was read (`PassHolds`).
* `MemoryKeepsTheStory`. The window a layer returns is an end of the story within the budget less
  the recap's share (`WindowFits`), an answer is one its layer can give (`AnswerMeant`), and the cut
  keeps the first two fragments in order of priority whenever they fit together (`HeldOf`).
* `FloorHolds`, under the hypothesis `FloorRoom`: the window has room for the tokens that the fold
  line leaves, one more message, and a batch short of one token. Nothing is assumed of the order
  of the speakers: where the fold line is pulled back over one line at most (`OneLineWaits`, which is
  the property's own condition), what is past it is at most its budget and that line; what a pass
  leaves unfolded before it is less than a batch, or nothing (`Dealt`); so the window reaches back to
  what the recap tells. Where it is pulled back further, the property claims nothing, because it
  does not hold (section 3). The code does not enforce
  `FloorRoom`: the shares are configured one by one and of different totals. `Parts.cfg` satisfies
  it with nothing to spare, `RollingSummaryFloor.cfg` does not and the property fails there.

**`TelegramProofs`**: `ShownRepliesStand`. Between turns a chat that is not `strayed` is `Settled`:
it shows replies its stories hold, each of them whole, and the file has exactly the messages of the
last reply of its story unless the player has switched since. During a turn it is `Midway`: all
that may be wrong is the reply just stored and the one it replaces. A step of a turn disturbs its own
chat only, since a chat shows only what its own stories told (`ShownOwn`). `RetryWithdrawsItsOwn`,
which has no such exception for a switch, fails (run `narrator_retry`).

*Recursion.* The installed provers cannot use the library's induction theorems, which take an
operator as a parameter. Induction is therefore done over sets: a set of numbers has a least
member (`NatMin`, from the well-foundedness of the natural numbers), so a set that contains 0 and
with a number the next contains all (`Climb`). A recursive function is by definition some function
that solves its equation; `Recursion` shows that there is one, and each function has
a lemma that unfolds it from there. For this the models compute their sums, walks and joins by recursive
functions rather than by RECURSIVE operators or folds, which stay opaque to the provers.

*Assumptions.* `ChatAssumption` (the flag is a Boolean, a bound a number), `SchedulerAssumption` (a
queue of at least one place, the no-job value is no session), `PlaythroughAssumption` (there is a
scenario, clients are of one kind, the none value is no id and no persona), `PartsAssumption`
(section 2), and the hypothesis of `FloorHeld`. All but the last are evaluated by TLC with every run
of their module; none of them bounds anything.

*Only model-checked*: `NeverLockedOut` and `KeyFreedAgain`, because liveness under fairness needs
ENABLED, which the prover does not reach; and the violations, which are single behaviours.

## 5. What is left

* A recap that only grows as an abstract specification, implemented by `RollingSummary`
  where passes do not overlap.
* `TelegramDispatch` over the steps of `Playthroughs` and `ChatTurns` rather than over whole
  services, and the theorems carried over.
* The theorem opposite to `FloorHeld`: that a configuration outside `FloorRoom` has a story whose
  turns fall between window and recap.

## 6. Not modelled

Configuration, wiring and health checks (no state after start-up); keyboards, help texts and
the routing of callbacks into the handlers that are modelled; the matching of lore to text
(PostgreSQL full-text search: `MemoryRecall` takes any number of hits); prompt wording,
sampling parameters and the summarizer's prompt; the API's response models, which are data
classes; the front end; migrations. Components of which such a part is left out are marked
`partly` in `PROJECT.json` with the reason.
