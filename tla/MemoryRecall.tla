---------------------------- MODULE MemoryRecall ----------------------------
(***************************************************************************)
(* What a turn's prompt carries of the story: ChatService._recall prices   *)
(* the rest of the prompt, MemoryPipeline.recall asks the enabled layers   *)
(* at the same time -- the recent window, the recap, the lorebook -- and   *)
(* keeps what fits.  A layer that raises costs its own answer.  Texts are  *)
(* their prices in tokens.                                                 *)
(***************************************************************************)
EXTENDS Integers, Sequences, SequencesExt, FiniteSets

CONSTANTS
  Total,        \* ContextBudget.total_tokens()
  Prices,       \* what the rest of a prompt costs
  RecapShare,   \* the recap's share of the budget, in percent
  Costs,        \* prices of a message, a recap and a lore entry
  MaxMessages   \* bound: messages of a conversation

VARIABLES
  step,      \* "idle", "asked" or "cut"
  stored,    \* the conversation: prices, oldest first
  reserved,  \* reserved_tokens
  enabled,   \* the session's layers
  answers,   \* what those that have answered recalled: fragments
  raised,    \* those that raised
  kept       \* the fragments of the prompt

vars == <<step, stored, reserved, enabled, answers, raised, kept>>

\* By priority; the window is on in every session.
Layers == <<"recent_window", "rolling_summary", "lorebook">>
Toggleable == {"rolling_summary", "lorebook"}

SumOf(s) ==
  LET upTo[i \in 0..Len(s)] == IF i = 0 THEN 0 ELSE upTo[i - 1] + s[i]
  IN upTo[Len(s)]

Least(S) == CHOOSE x \in S : \A y \in S : x <= y
-----------------------------------------------------------------------------
(* Budgets.                                                                *)

Available == IF reserved >= Total THEN 0 ELSE Total - reserved

Share == (Available * RecapShare) \div 100

\* Mutant: a layer without a share of its own is offered the whole budget.
BudgetForAll(layer) == IF layer = "rolling_summary" THEN Share ELSE Available

\* budget_for: the recap gets its share, a layer without one what the enabled shares leave.
BudgetFor(layer) ==
  IF layer = "rolling_summary" THEN Share
  ELSE IF "rolling_summary" \in enabled THEN Available - Share
  ELSE Available

\* RecentWindowSource: the newest messages that fit; the first one that does not ends it.
WindowFrom(budget) ==
  Least({i \in 0..Len(stored) : SumOf(SubSeq(stored, i + 1, Len(stored))) <= budget})

Fragment(layer, tokens, messages) == [layer |-> layer, tokens |-> tokens, messages |-> messages]

\* No fragment at all when nothing fits.
Window ==
  LET w == SubSeq(stored, WindowFrom(BudgetFor("recent_window")) + 1, Len(stored)) IN
  IF w = <<>> THEN <<>> ELSE <<Fragment("recent_window", SumOf(w), w)>>
-----------------------------------------------------------------------------
(* A turn.                                                                 *)

Init ==
  /\ step = "idle" /\ stored = <<>> /\ reserved = 0 /\ enabled = {}
  /\ answers = <<>> /\ raised = {} /\ kept = <<>>

\* The history is loaded and the prompt without memory priced; with no room left no layer
\* is asked.
Ask(s, price, layers) ==
  /\ step = "idle"
  /\ stored' = s /\ reserved' = price /\ enabled' = layers
  /\ step' = IF price >= Total THEN "cut" ELSE "asked"
  /\ answers' = <<>> /\ raised' = {} /\ kept' = <<>>

Waiting ==
  {l \in {"recent_window"} \cup enabled : l \notin raised /\ \A i \in DOMAIN answers : answers[i][1] # l}

Answer(layer, fragments) ==
  /\ step = "asked" /\ layer \in Waiting
  /\ answers' = Append(answers, <<layer, fragments>>)
  /\ UNCHANGED <<step, stored, reserved, enabled, raised, kept>>

Replay == Answer("recent_window", Window)

\* The stored recap is returned whole, however long it has become.
Retell(cost) ==
  Answer("rolling_summary", IF cost = 0 THEN <<>> ELSE <<Fragment("rolling_summary", cost, <<>>)>>)

\* Matching entries, best first; their cost is left to the cut.
LookUp(costs) ==
  Answer("lorebook", IF BudgetFor("lorebook") = 0 THEN <<>>
                     ELSE [i \in DOMAIN costs |-> Fragment("lorebook", costs[i], <<>>)])

Raise(layer) ==
  /\ step = "asked" /\ layer \in Waiting
  /\ raised' = raised \cup {layer}
  /\ UNCHANGED <<step, stored, reserved, enabled, answers, kept>>

Recalled(layer) ==
  LET its == {i \in DOMAIN answers : answers[i][1] = layer} IN
  IF its = {} THEN <<>> ELSE answers[Least(its)][2]

Tokens(fragments) == SumOf([i \in DOMAIN fragments |-> fragments[i].tokens])

KeepNext(before, f) ==
  IF Tokens(before) + f.tokens > Available THEN before ELSE Append(before, f)

\* _apply_budget: in order of priority, each whole, passing over those that do not fit.
Keep(fragments) ==
  LET upTo[i \in 0..Len(fragments)] ==
        IF i = 0 THEN <<>> ELSE KeepNext(upTo[i - 1], fragments[i])
  IN upTo[Len(fragments)]

Cut ==
  /\ step = "asked" /\ Waiting = {}
  /\ kept' = Keep(Recalled(Layers[1]) \o Recalled(Layers[2]) \o Recalled(Layers[3]))
  /\ step' = "cut"
  /\ UNCHANGED <<stored, reserved, enabled, answers, raised>>

\* The prompt is built from it and the turn goes on.
Done ==
  /\ step = "cut"
  /\ step' = "idle" /\ stored' = <<>> /\ reserved' = 0 /\ enabled' = {}
  /\ answers' = <<>> /\ raised' = {} /\ kept' = <<>>

Next ==
  \/ \E n \in 0..MaxMessages : \E s \in [1..n -> Costs], price \in Prices, layers \in SUBSET Toggleable :
       Ask(s, price, layers)
  \/ Replay
  \/ \E cost \in Costs \cup {0} : Retell(cost)
  \/ \E n \in 0..2 : \E costs \in [1..n -> Costs] : LookUp(costs)
  \/ \E l \in {"recent_window"} \cup Toggleable : Raise(l)
  \/ Cut \/ Done

Spec == Init /\ [][Next]_vars
-----------------------------------------------------------------------------
(* Properties.                                                             *)

Replayed ==
  LET its == {i \in DOMAIN kept : kept[i].layer = "recent_window"} IN
  IF its = {} THEN <<>> ELSE kept[Least(its)].messages

\* The prompt does not outgrow the budget ...
WithinBudget == Tokens(kept) <= Available

\* ... what it replays is the end of the story without a gap, and all of it that the
\* window was offered room for: the cut never takes the window ...
StoryUnbroken ==
  Available > 0 /\ "recent_window" \notin raised =>
    Replayed = SubSeq(stored, WindowFrom(BudgetFor("recent_window")) + 1, Len(stored))

\* ... and a recap that keeps to its share is in it, however much story and lore there is.
RecapSpeaks ==
  Available > 0 =>
    \A i \in DOMAIN Recalled("rolling_summary") :
      LET recap == Recalled("rolling_summary")[i] IN
      recap.tokens <= Share => Contains(kept, recap)

\* What a share buys (settings.py:80-85, pipeline.py:166-172): whatever layers are on,
\* however they answer and whichever of them raise, the prompt fits, continues from an
\* unbroken end of the story, and tells what came before it.
MemoryKeepsTheStory == step = "cut" => WithinBudget /\ StoryUnbroken /\ RecapSpeaks
=============================================================================
