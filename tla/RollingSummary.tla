--------------------------- MODULE RollingSummary ---------------------------
(***************************************************************************)
(* Layers 00 and 01 of a session's memory: the recent window a prompt      *)
(* replays (core/memory/recent_window_source.py, pipeline.py, settings.py) *)
(* and the running recap of what it no longer holds                        *)
(* (core/memory/rolling_summary_source.py).  A pass loads the conversation,*)
(* reads the recap, decides what to fold, calls the model once or twice    *)
(* and saves; every one of these awaits is a step.  Passes run in the      *)
(* background worker, one job at a time, and inline in the panel's refresh.*)
(* A message is its role and its price in tokens; a recap is known by the  *)
(* messages it was made from (the name of the model that wrote it, which a *)
(* pass also compares, is left out: it decides no text).                   *)
(***************************************************************************)
EXTENDS Integers, Sequences, FiniteSets, SequencesExt

CONSTANTS
  Worker,       \* the background worker's pass
  Refreshes,    \* the panel's refresh requests
  Total,        \* ContextBudget.total_tokens()
  Reserved,     \* what the rest of the prompt costs (reserved_tokens)
  HighWater,    \* high_water_share, in percent
  MinFold,      \* min_fold_share, in percent
  RecapShare,   \* the recap's budget share, in percent
  Costs,        \* prices of a message
  MaxMessages,  \* bound: messages ever written
  MayFail,      \* whether calls raise, the model answers nothing, turns or the process die
  Peels         \* whether the panel deletes messages from the end

VARIABLES
  store,    \* conversation_messages
  recap,    \* the session_summaries row
  due,      \* a job for this session waits in the scheduler
  pc,       \* where each pass is suspended
  local,    \* ... and what it holds
  settled,  \* history: the conversation of the last pass that ended well (with nothing to
            \* save: unless another saved meanwhile)
  nextId    \* ids name messages

vars == <<store, recap, due, pc, local, settled, nextId>>

Passes == {Worker} \cup Refreshes
\* A recap: the messages it was made from, the turns it says it covers, and whether it
\* outgrew its share of the budget.
NoRecap == [told |-> {}, covers |-> 0, long |-> FALSE]
NoLocals == [msgs |-> <<>>, stored |-> NoRecap, draft |-> NoRecap]
-----------------------------------------------------------------------------
(* What the sources compute.                                               *)

Share(budget, percent) == (budget * percent) \div 100

Ids(s) == {s[i].id : i \in DOMAIN s}
Cost(s) ==
  LET upTo[i \in 0..Len(s)] == IF i = 0 THEN 0 ELSE upTo[i - 1] + s[i].cost
  IN upTo[Len(s)]
From(s, i) == SubSeq(s, i + 1, Len(s))
Smallest(S) == CHOOSE x \in S : \A y \in S : x <= y
Largest(S) == CHOOSE x \in S : \A y \in S : y <= x

\* The walk from the newest message back: how many messages a budget leaves outside (all,
\* when the newest does not fit).
Edge(s, budget) == Smallest({Len(s)} \cup {i \in 0..Len(s) : Cost(From(s, i)) <= budget})

TurnsBefore(s, boundary) == Cardinality({i \in 1..boundary : s[i].role = "character"})

\* Mutant: the fold line may split a turn.
EndOfTurnAnywhere(s, boundary) == boundary

\* _end_of_turn: a fold boundary is pulled back to just after a narrator reply.
EndOfTurn(s, boundary) == Largest({0} \cup {i \in 1..boundary : s[i].role = "character"})

\* _index_after_turn: where a recap that covers `turn` turns stopped.
IndexAfterTurn(s, turn) ==
  IF turn = 0 THEN 0
  ELSE IF turn > TurnsBefore(s, Len(s)) THEN Len(s)
  ELSE Smallest({i \in DOMAIN s : TurnsBefore(s, i) = turn})

FoldThrough(s) == EndOfTurn(s, Edge(s, Share(Total, HighWater)))
Pending(s, covers) == SubSeq(s, IndexAfterTurn(s, covers) + 1, FoldThrough(s))

\* Mutant: a batch is measured against the whole budget, however late it is.
FoldNowLate(s, covers) ==
  /\ TurnsBefore(s, FoldThrough(s)) > covers
  /\ Cost(Pending(s, covers)) >= Total

\* Whether a pass rewrites the recap: there are new turns past the fold line, and they are
\* a batch or some already left the budget.
FoldNow(s, covers) ==
  /\ Pending(s, covers) # <<>>
  /\ TurnsBefore(s, FoldThrough(s)) > covers
  /\ \/ TurnsBefore(s, Edge(s, Total)) > covers
     \/ Cost(Pending(s, covers)) >= Share(Total, MinFold)

\* What a prompt's recent window may cost (pipeline.recall, budget_for).
WindowBudget ==
  IF Reserved >= Total THEN 0
  ELSE (Total - Reserved) - Share(Total - Reserved, RecapShare)
-----------------------------------------------------------------------------
(* The conversation grows.                                                 *)

\* The constructor refuses other shares: a batch fits between the fold line and the budget.
\* Without a budget the layers do nothing.
Constructed ==
  /\ 0 < HighWater /\ HighWater <= 100
  /\ 0 <= MinFold /\ MinFold < 100 - HighWater
  /\ Total > 0

Init ==
  /\ Constructed
  /\ store = <<>>
  /\ recap = NoRecap
  /\ due = FALSE
  /\ pc = [p \in Passes |-> "idle"]
  /\ local = [p \in Passes |-> NoLocals]
  /\ settled = <<>>
  /\ nextId = 1

Write(role, cost) ==
  /\ nextId <= MaxMessages
  /\ store' = Append(store, [id |-> nextId, role |-> role, cost |-> cost])
  /\ nextId' = nextId + 1

\* A turn stores the player's line and, when the model has answered, the reply.  A turn
\* that dies in between leaves its line unanswered, and so does the panel deleting the
\* reply; the next one is stored after it, for nothing checks what the story ends with.
\* Where neither can happen, every line has its reply before the next.
PlayerWrites(cost) ==
  /\ ~MayFail /\ ~Peels /\ store # <<>> => Last(store).role = "character"
  /\ Write("user", cost)
  /\ UNCHANGED <<recap, due, pc, local, settled>>

\* A reply is stored and the session's job submitted; the scheduler drops it while
\* another is in flight.
NarratorWrites(cost) ==
  /\ Write("character", cost)
  /\ due' = (due \/ pc[Worker] = "idle")
  /\ UNCHANGED <<recap, pc, local, settled>>

\* The panel deletes the newest message; the recap is left alone.
Peel ==
  /\ Peels
  /\ store # <<>>
  /\ store' = Front(store)
  /\ UNCHANGED <<recap, due, pc, local, settled, nextId>>
-----------------------------------------------------------------------------
(* RollingSummarySource.fold.                                              *)

Goto(p, step, v) == pc' = [pc EXCEPT ![p] = step] /\ local' = [local EXCEPT ![p] = v]
End(p) == Goto(p, "idle", NoLocals)

Load(p) ==
  /\ pc[p] = "idle"
  /\ p = Worker => due
  /\ due' = IF p = Worker THEN FALSE ELSE due
  /\ IF store = <<>> THEN UNCHANGED <<pc, local>>
                     ELSE Goto(p, "look", [NoLocals EXCEPT !.msgs = store])
  /\ UNCHANGED <<store, recap, settled, nextId>>

\* The recap is read: fold, condense, or leave it.
Look(p) ==
  LET v == [msgs |-> local[p].msgs, stored |-> recap, draft |-> recap] IN
  /\ pc[p] = "look"
  /\ IF FoldNow(v.msgs, recap.covers)
       THEN Goto(p, "summarize", v) /\ UNCHANGED settled
     ELSE IF recap.long
       THEN Goto(p, "condense", v) /\ UNCHANGED settled
     ELSE End(p) /\ settled' = v.msgs
  /\ UNCHANGED <<store, recap, due, nextId>>

\* Mutant: the new recap is written without the previous one.
FoldedFromScratch(v, long) ==
  [told   |-> Ids(Pending(v.msgs, v.stored.covers)),
   covers |-> TurnsBefore(v.msgs, FoldThrough(v.msgs)),
   long   |-> long]

\* The recap with the pending turns folded in.
Folded(v, long) ==
  [told   |-> v.stored.told \cup Ids(Pending(v.msgs, v.stored.covers)),
   covers |-> TurnsBefore(v.msgs, FoldThrough(v.msgs)),
   long   |-> long]

\* The model writes the new recap, too long for its share or not.
Summarize(p, long) ==
  /\ pc[p] = "summarize"
  /\ Goto(p, IF long THEN "condense" ELSE "save",
          [local[p] EXCEPT !.draft = Folded(local[p], long)])
  /\ UNCHANGED <<store, recap, due, settled, nextId>>

\* One more call condenses it.  No text leaves it as it is, and if nothing was folded
\* either there is nothing to save.
Condense(p, text, long) ==
  /\ pc[p] = "condense"
  /\ IF text
       THEN Goto(p, "save", [local[p] EXCEPT !.draft.long = long]) /\ UNCHANGED settled
     ELSE IF local[p].draft # local[p].stored
       THEN Goto(p, "save", local[p]) /\ UNCHANGED settled
     ELSE /\ End(p)
          /\ settled' = IF recap = local[p].stored THEN local[p].msgs ELSE settled
  /\ UNCHANGED <<store, recap, due, nextId>>

Save(p) ==
  /\ pc[p] = "save"
  /\ recap' = local[p].draft
  /\ settled' = local[p].msgs
  /\ End(p)
  /\ UNCHANGED <<store, due, nextId>>

\* A call of the pass raises, or the model writes no recap: nothing is saved.
FailPass(p) ==
  /\ MayFail
  /\ pc[p] # "idle"
  /\ End(p)
  /\ UNCHANGED <<store, recap, due, settled, nextId>>

\* The process dies: passes and the queued job go.
Crash ==
  /\ MayFail
  /\ due' = FALSE
  /\ pc' = [p \in Passes |-> "idle"]
  /\ local' = [p \in Passes |-> NoLocals]
  /\ UNCHANGED <<store, recap, settled, nextId>>

PassStep(p) ==
  \/ Load(p) \/ Look(p) \/ Save(p) \/ FailPass(p)
  \/ \E long \in BOOLEAN : Summarize(p, long) \/ \E text \in BOOLEAN : Condense(p, text, long)

Next ==
  \/ \E cost \in Costs : PlayerWrites(cost) \/ NarratorWrites(cost)
  \/ Peel
  \/ \E p \in Passes : PassStep(p)
  \/ Crash

Spec == Init /\ [][Next]_vars
-----------------------------------------------------------------------------
(* Properties.                                                             *)

\* Whether the panel has deleted messages that went into the recap.
Deleted == ~(recap.told \subseteq Ids(store))

\* The recap tells exactly the turns it says it covers: none twice or never, none by half
\* (a player's line in the recap, its answer in the window), whatever passes overlap, fail
\* or lose their model call, and however far the story went on under them.  Only deleting
\* messages it tells of puts the two at odds.
RecapTellsWhatItCovers ==
  ~Deleted => recap.told = Ids(SubSeq(store, 1, IndexAfterTurn(store, recap.covers)))

\* "So running it late, twice, or not at all all end in the same stored state"
\* (rolling_summary_source.py:263-265): no run takes back what another one stored.
LateRunsTakeNothingBack == [][recap.covers <= recap'.covers]_vars

\* A pass never unwrites what an earlier one folded, however the model fails, the process
\* dies or the story goes on under it -- unless another pass saved since this one read the
\* recap, which nothing prevents.
Overtaken(p) == pc[p] = "save" /\ pc'[p] = "idle" /\ recap # local[p].stored
RecapNeverForgets ==
  [][\/ recap.covers <= recap'.covers /\ recap.told \subseteq recap'.told
     \/ \E p \in Passes : Overtaken(p)]_vars

\* Where the fold line falls behind player's lines left without a reply, it is pulled back
\* over all of them: they wait for the next reply, and no budget is kept for them.
PulledBackOverUnanswered ==
  Edge(store, Share(Total, HighWater)) - FoldThrough(store) > 1

\* The floor: once a pass has dealt with the conversation a turn is going to be built on,
\* every message is in the recap or in the prompt's window -- waiting turns are still
\* replayed word for word (MEMORY.md:115-117, 144-147).  The exception: a turn that died
\* between its two saves, or whose reply was deleted, stands at the fold line
\* (chat_service.py:213-232, rolling_summary_source.py:475-485).
FloorHolds ==
  settled = store /\ ~PulledBackOverUnanswered /\ ~Deleted =>
    \A i \in 1..Edge(store, WindowBudget) : store[i].id \in recap.told
=============================================================================
