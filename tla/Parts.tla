------------------------------- MODULE Parts --------------------------------
(***************************************************************************)
(* The parts of the system whose state no other model reads: `part` says   *)
(* which of them runs, the others stay where they start.  What holds of    *)
(* each alone holds here; their composition would only multiply states.    *)
(***************************************************************************)
EXTENDS Integers, Sequences, TLC

CONSTANTS
  None,
  Scenarios, Private, Groups, MaxStories, MaxReplies, MaxParts, MaxFaults,  \* TelegramDispatch
  Users, MaxFailures,                                                       \* BetaAccess
  Templates, RecentSize,                                                    \* Feedback
  MaxText, Limits,                                                          \* Splitter
  Resolvers, Identities, MaxOwners,                                         \* Identity
  Catalogued, Curated, Requests, MaxStamps,                                 \* ScenarioCatalog
  Actors, MaxRules,                                                         \* Directives
  Room, Prices, Sizes, MaxRecalled,                                         \* MemoryRecall
  Optional, MaxHistory, MaxFragments,                                       \* Prompt
  Counters, Texts, CacheSize,                                               \* TokenCounter
  MaxEdits,                                                                 \* Transfer
  Shipped,                                                                  \* BootImport
  Worker, Refreshes, Total, Reserved, HighWater, MinFold, RecapShare, Costs,
  MaxMessages                                                               \* RollingSummary

\* Nothing is no id, no text, no list of notes, no set of layers and no shares; the cache has
\* a size; split_message takes no limit below 1; tokens are numbers, shares percentages.
ASSUME PartsAssumption ==
  /\ None \notin Nat /\ None \notin {"text", "nothing", "note"}
  /\ None \notin Seq({"note", "blank"})
  /\ \A layers \in SUBSET {"rolling_summary", "lorebook", "dreams"} :
       None # layers /\ None \notin [layers -> Nat]
  /\ CacheSize \in Nat
  /\ Limits \subseteq Nat \ {0}
  /\ Room \in Nat /\ Prices \subseteq Nat /\ Sizes \subseteq Nat /\ RecapShare \in 0..100
  /\ {Total, Reserved, HighWater, MinFold} \subseteq Nat /\ Costs \subseteq Nat

VARIABLES
  part,
  stories, active, pending, tracked, shown, at, nextReply, faults, strayed, switched,
  allowed, file, queue, torn, betaAt, up, dirty, decided, approved, blocked, failures,
  turn, typing, stopped, recent, temp, stray, failed,
  text, limit, start, chunks,
  owners, identities, pc, whom, nextId, answered,
  rows, lore, req, stamps,
  row, edit, seen, made, gone,
  step, stored, reserved, enabled, answers, raised, kept,
  promptStep, op, history, messages, chat, reply,
  counts, length, asking, age,
  saved, meant, taken, spoken, archive, out, in, edits,
  files, rowsOf, loreOf, phase, todo,
  store, recap, due, passAt, local, settled, written

Telegram == INSTANCE TelegramDispatch WITH Parts <- MaxParts

Beta == INSTANCE BetaAccess WITH
  Nobody <- None, MaxFaults <- MaxFailures, at <- betaAt, faults <- failures

Signs == INSTANCE Feedback WITH MaxFaults <- MaxFailures, faults <- failed

Messages == INSTANCE Splitter

Owners == INSTANCE Identity WITH Callers <- Resolvers

Catalog == INSTANCE ScenarioCatalog WITH Scenarios <- Catalogued

Settings == INSTANCE Directives

Recall == INSTANCE MemoryRecall WITH Total <- Room, Costs <- Sizes, MaxMessages <- MaxRecalled

Prompting == INSTANCE Prompt WITH step <- promptStep

Counter == INSTANCE TokenCounter WITH Callers <- Counters

Archives == INSTANCE Transfer

Boot == INSTANCE BootImport WITH Ids <- Shipped

Rolling == INSTANCE RollingSummary WITH
  MayFail <- TRUE, Peels <- TRUE, pc <- passAt, nextId <- written

TelegramVars == <<stories, active, pending, tracked, shown, at, nextReply, faults, strayed, switched>>
BetaVars == <<allowed, file, queue, torn, betaAt, up, dirty, decided, approved, blocked, failures>>
SignsVars == <<turn, typing, stopped, recent, temp, stray, failed>>
MessagesVars == <<text, limit, start, chunks>>
OwnersVars == <<owners, identities, pc, whom, nextId, answered>>
CatalogVars == <<rows, lore, req, stamps>>
SettingsVars == <<row, edit, seen, made, gone>>
RecallVars == <<step, stored, reserved, enabled, answers, raised, kept>>
PromptingVars == <<promptStep, op, history, messages, chat, reply>>
CounterVars == <<counts, length, asking, age>>
ArchivesVars == <<saved, meant, taken, spoken, archive, out, in, edits>>
BootVars == <<files, rowsOf, loreOf, phase, todo>>
RollingVars == <<store, recap, due, passAt, local, settled, written>>

vars == <<part, TelegramVars, BetaVars, SignsVars, MessagesVars, OwnersVars, CatalogVars,
          SettingsVars, RecallVars, PromptingVars, CounterVars, ArchivesVars, BootVars, RollingVars>>

Init ==
  /\ part \in {"telegram", "beta", "feedback", "splitter", "identity", "catalog", "directives",
               "recall", "prompt", "counter", "archives", "boot", "rolling"}
  /\ Telegram!Init /\ Beta!Init /\ Signs!Init /\ Owners!Init /\ Catalog!Init /\ Settings!Init
  /\ Recall!Init /\ Prompting!Init /\ Counter!Init /\ Rolling!Init
  /\ IF part = "splitter" THEN Messages!Init
     ELSE text = <<>> /\ limit = 1 /\ start = 0 /\ chunks = <<>>
  /\ IF part = "archives" THEN Archives!Init
     ELSE /\ saved = None /\ meant = None /\ taken = FALSE /\ spoken = <<>>
          /\ archive = None /\ out = None /\ in = None /\ edits = 0
  /\ IF part = "boot" THEN Boot!Init
     ELSE files = None /\ rowsOf = None /\ loreOf = {} /\ phase = None /\ todo = {}

Next ==
  /\ UNCHANGED part
  /\ IF part = "telegram" THEN Telegram!Next ELSE UNCHANGED TelegramVars
  /\ IF part = "beta" THEN Beta!Next ELSE UNCHANGED BetaVars
  /\ IF part = "feedback" THEN Signs!Next ELSE UNCHANGED SignsVars
  /\ IF part = "splitter" THEN Messages!Next ELSE UNCHANGED MessagesVars
  /\ IF part = "identity" THEN Owners!Next ELSE UNCHANGED OwnersVars
  /\ IF part = "catalog" THEN Catalog!Next ELSE UNCHANGED CatalogVars
  /\ IF part = "directives" THEN Settings!Next ELSE UNCHANGED SettingsVars
  /\ IF part = "recall" THEN Recall!Next ELSE UNCHANGED RecallVars
  /\ IF part = "prompt" THEN Prompting!Next ELSE UNCHANGED PromptingVars
  /\ IF part = "counter" THEN Counter!Next ELSE UNCHANGED CounterVars
  /\ IF part = "archives" THEN Archives!Next ELSE UNCHANGED ArchivesVars
  /\ IF part = "boot" THEN Boot!Next ELSE UNCHANGED BootVars
  /\ IF part = "rolling" THEN Rolling!Next ELSE UNCHANGED RollingVars

Spec == Init /\ [][Next]_vars

Symmetry == Permutations(Scenarios)
-----------------------------------------------------------------------------
(* What each part must keep (stated in its module).                        *)

\* A chat shows the replies its stories hold, each whole (/retry deletes what it replaces).
ShownRepliesStand == Telegram!ShownRepliesStand

\* Who was let in stays in and who was blocked stays out, over races and restarts.
AccessHolds == Beta!AccessHolds

\* A beta request leaves the list only once its decision is on disk.
RequestOutlivesDecision == Beta!RequestOutlivesDecision

\* When a reply goes out nothing of the feedback is left.
FeedbackTakenBack == Signs!FeedbackTakenBack

\* The messages of a split reply are the reply, torn only where it cannot be helped.
SplitFaithful == Messages!SplitFaithful

\* A platform identity is one owner for good, and every owner has one.
OneOwnerEach == Owners!OneOwnerEach

\* What was withdrawn from the catalog comes back only by a request for it.
WithdrawnStaysAway == Catalog!WithdrawnStaysAway

\* A session reads back as it was set, and an import restores what was exported.
ImportRestores == part = "archives" => Archives!ImportRestores

\* Every usable curated file is in the database after a boot, whatever the others hold.
ImportComplete == part = "boot" => Boot!ImportComplete

\* The recap tells exactly the turns it says it covers.
RecapTellsWhatItCovers == Rolling!RecapTellsWhatItCovers

\* After a pass every message is in the recap or in the prompt's window, but for player's
\* lines left without a reply at the fold line.
FloorHolds == Rolling!FloorHolds

\* No pass takes back what an earlier one folded, unless another overtook it.
RecapNeverForgets == Rolling!RecapNeverForgets

\* Removing a rule removes the one the player saw under that id.
RemovalHitsSeen == Settings!RemovalHitsSeen

\* The prompt fits, continues an unbroken end of the story and tells what came before.
MemoryKeepsTheStory == Recall!MemoryKeepsTheStory

\* The chat LM Studio gets is one it takes, and says what the history says.
ChatWellFormed == Prompting!ChatWellFormed

\* No reasoning and no marker of it is delivered as a reply.
NoThoughtDelivered == Prompting!NoThoughtDelivered

\* The counts of the texts used last are kept.
RecentCountsKept == Counter!RecentCountsKept
=============================================================================
