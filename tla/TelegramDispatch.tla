-------------------------- MODULE TelegramDispatch --------------------------
(***************************************************************************)
(* TelegramAdapter.handle_message (adapters/telegram/adapter.py) for the   *)
(* commands that move a story, with the two small files it keeps between   *)
(* updates: the persona prompt an owner still has to answer, and the       *)
(* message ids of a chat's last narrator reply, which /retry deletes.      *)
(* Updates are handled one at a time; each await between two effects is a  *)
(* step, after which the handler may raise or the process die.  The        *)
(* services behind it are taken whole (Playthroughs and ChatTurns have     *)
(* their steps); in groups the sender is an administrator, since for       *)
(* others the commands only answer a text.                                 *)
(***************************************************************************)
EXTENDS Integers, Sequences, FiniteSets, SequencesExt

CONSTANTS
  Private,     \* private chats, each with its player
  Groups,      \* group chats
  Scenarios,
  None,        \* no story
  MaxStories,  \* bound: sessions ever created
  MaxReplies,  \* bound: replies ever written
  Parts,       \* most messages a reply is split into
  MaxFaults    \* bound: calls that raise, deaths of the process, turns the panel plays

Chats == Private \cup Groups

VARIABLES
  stories,  \* sessions in order of creation, with their narrator replies
  active,   \* active_scenario_sessions: each chat's story
  pending,  \* TelegramPendingPersonaStore
  tracked,  \* TelegramNarratorStore
  shown,    \* narrator messages to be seen in each chat
  at,       \* where the handler is suspended, and what it holds
  nextReply,
  faults,   \* how many of those there have been
  strayed,  \* history: the chat's messages and files were left out of step
  switched  \* history: the chat went back to another story and has no reply of it yet

vars == <<stories, active, pending, tracked, shown, at, nextReply, faults,
          strayed, switched>>

Idle == [step |-> "idle", chat |-> None, story |-> 0, retry |-> FALSE, reply |-> 0,
         parts |-> 0, sent |-> {}]

Fault == faults < MaxFaults /\ faults' = faults + 1

LiveStories(c, sc) ==
  {s \in DOMAIN stories : stories[s].chat = c /\ stories[s].scenario = sc /\ stories[s].live}

Init ==
  /\ stories = <<>>
  /\ active = [c \in Chats |-> None]
  /\ pending = [c \in Chats |-> None]
  /\ tracked = [c \in Chats |-> {}]
  /\ shown = [c \in Chats |-> {}]
  /\ at = Idle
  /\ nextReply = 1
  /\ faults = 0
  /\ strayed = [c \in Chats |-> FALSE]
  /\ switched = [c \in Chats |-> FALSE]
-----------------------------------------------------------------------------
(* Story control.                                                          *)

\* A new session becomes its owner's active one; in a private chat the player is asked
\* who they are unless a restart carries the character over.
NewStory(c, sc, named, asks, old) ==
  /\ Len(stories) < MaxStories
  /\ stories' = Append([s \in DOMAIN stories |-> IF s = old THEN [stories[s] EXCEPT !.live = FALSE]
                                                            ELSE stories[s]],
                       [chat |-> c, scenario |-> sc, live |-> TRUE, named |-> named,
                        replies |-> <<>>])
  /\ active' = [active EXCEPT ![c] = Len(stories) + 1]
  /\ at' = IF asks /\ c \in Private
             THEN [Idle EXCEPT !.step = "ask", !.chat = c, !.story = Len(stories) + 1] ELSE Idle
  /\ UNCHANGED <<pending, tracked, shown, nextReply, strayed, switched, faults>>

\* /play: the live session of the scenario is resumed and nothing is asked, or a new one
\* is created.
PlayNew(c, sc) ==
  /\ at = Idle
  /\ LiveStories(c, sc) = {}
  /\ NewStory(c, sc, FALSE, TRUE, 0)

PlayResume(c, sc) ==
  /\ at = Idle
  /\ \E s \in LiveStories(c, sc) :
       /\ active' = [active EXCEPT ![c] = s]
       /\ switched' = [switched EXCEPT ![c] = @ \/ s # active[c]]
  /\ UNCHANGED <<stories, pending, tracked, shown, at, nextReply, strayed, faults>>

\* /restart keeps the character and asks nothing.
Restart(c) ==
  /\ at = Idle
  /\ active[c] # None
  /\ LET old == active[c] IN NewStory(c, stories[old].scenario, stories[old].named, FALSE, old)

\* /clear confirm resets everything.
Clear(c) ==
  /\ at = Idle
  /\ active[c] # None
  /\ NewStory(c, stories[active[c]].scenario, FALSE, TRUE, active[c])

\* _prompt_for_persona: the pointer first, then the question.
Ask ==
  /\ at.step = "ask"
  /\ pending' = [pending EXCEPT ![at.chat] = at.story]
  /\ at' = Idle
  /\ UNCHANGED <<stories, active, tracked, shown, nextReply, strayed, switched, faults>>
-----------------------------------------------------------------------------
(* A plain text or /skip while an answer is owed (_try_handle_persona_reply). A text    *)
(* without a name on its first line only repeats the question.                          *)

\* set_persona applies the answer to the session the pointer names, if that is still live
\* and has no character.
Answer(c) ==
  LET s == pending[c] IN
  /\ at = Idle
  /\ c \in Private
  /\ s # None
  /\ stories' = IF stories[s].live /\ ~stories[s].named
                  THEN [stories EXCEPT ![s].named = TRUE] ELSE stories
  /\ at' = [Idle EXCEPT !.step = "forget", !.chat = c, !.story = s]
  /\ UNCHANGED <<active, pending, tracked, shown, nextReply, strayed, switched, faults>>

\* Applied or not, the prompt is over.
Forget ==
  /\ at.step = "forget"
  /\ pending' = [pending EXCEPT ![at.chat] = None]
  /\ at' = Idle
  /\ UNCHANGED <<stories, active, tracked, shown, nextReply, strayed, switched, faults>>
-----------------------------------------------------------------------------
(* Turns.                                                                  *)

\* Plain text in a private chat with no answer owed, /chat, /continue and /retry, which is
\* refused when there is no reply to replace.
BeginTurn(c, op) ==
  /\ at = Idle
  /\ active[c] # None
  /\ op = "text" => c \in Private /\ pending[c] = None
  /\ op = "retry" => stories[active[c]].replies # <<>>
  /\ at' = [Idle EXCEPT !.step = "generate", !.chat = c, !.story = active[c],
                       !.retry = (op = "retry")]
  /\ UNCHANGED <<stories, active, pending, tracked, shown, nextReply, strayed, switched, faults>>

Told(replies, retry, r) == IF retry THEN Append(Front(replies), r) ELSE Append(replies, r)

\* ChatService returns; the reply is stored.
Generated(parts) ==
  /\ at.step = "generate"
  /\ nextReply <= MaxReplies
  /\ stories' = [stories EXCEPT ![at.story].replies = Told(@, at.retry, nextReply)]
  /\ nextReply' = nextReply + 1
  /\ at' = [at EXCEPT !.step = IF at.retry THEN "withdraw" ELSE "send",
                      !.reply = nextReply, !.parts = parts]
  /\ strayed' = [strayed EXCEPT ![at.chat] = @ \/ (at.retry /\ switched[at.chat])]
  /\ UNCHANGED <<active, pending, tracked, shown, switched, faults>>

\* Mutant: only the last message of a split reply is deleted.
WithdrawFirst(gone) ==
  /\ at.step = "withdraw"
  /\ gone \subseteq tracked[at.chat]
  /\ IF gone = tracked[at.chat] THEN UNCHANGED faults ELSE Fault
  /\ shown' = [shown EXCEPT ![at.chat] = {m \in @ : m \notin gone \/ m.part > 1}]
  /\ strayed' = [strayed EXCEPT ![at.chat] = @ \/ gone # tracked[at.chat]]
  /\ at' = [at EXCEPT !.step = "untrack"]
  /\ UNCHANGED <<stories, active, pending, tracked, nextReply, switched>>

\* _delete_tracked_narrator: the messages `gone` are deleted, others fail and are passed over.
Withdraw(gone) ==
  /\ at.step = "withdraw"
  /\ gone \subseteq tracked[at.chat]
  /\ IF gone = tracked[at.chat] THEN UNCHANGED faults ELSE Fault
  /\ shown' = [shown EXCEPT ![at.chat] = @ \ gone]
  /\ strayed' = [strayed EXCEPT ![at.chat] = @ \/ gone # tracked[at.chat]]
  /\ at' = [at EXCEPT !.step = "untrack"]
  /\ UNCHANGED <<stories, active, pending, tracked, nextReply, switched>>

Untrack ==
  /\ at.step = "untrack"
  /\ tracked' = [tracked EXCEPT ![at.chat] = {}]
  /\ at' = [at EXCEPT !.step = "send"]
  /\ UNCHANGED <<stories, active, pending, shown, nextReply, strayed, switched, faults>>

\* _send_narrator_reply, message by message.
Send ==
  LET m == [story |-> at.story, reply |-> at.reply, part |-> at.parts] IN
  /\ at.step = "send"
  /\ shown' = [shown EXCEPT ![at.chat] = @ \cup {m}]
  /\ at' = [at EXCEPT !.step = IF at.parts = 1 THEN "track" ELSE "send",
                      !.parts = @ - 1, !.sent = @ \cup {m}]
  /\ UNCHANGED <<stories, active, pending, tracked, nextReply, strayed, switched, faults>>

\* ... and then the ids are kept for /retry.
Track ==
  /\ at.step = "track"
  /\ tracked' = [tracked EXCEPT ![at.chat] = at.sent]
  /\ switched' = [switched EXCEPT ![at.chat] = FALSE]
  /\ at' = Idle
  /\ UNCHANGED <<stories, active, pending, shown, nextReply, strayed, faults>>
-----------------------------------------------------------------------------
(* What goes wrong.                                                        *)

\* A call raises and the player gets an error text, or the process dies.  A file that was
\* being written then reads as absent (_read gives up on broken JSON).
Interrupted ==
  /\ at # Idle
  /\ Fault
  /\ pending' \in {pending} \cup IF at.step = "ask"
                                   THEN {[pending EXCEPT ![at.chat] = None]} ELSE {}
  /\ tracked' \in {tracked} \cup IF at.step = "track"
                                   THEN {[tracked EXCEPT ![at.chat] = {}]} ELSE {}
  /\ strayed' = [strayed EXCEPT ![at.chat] = @ \/ at.step # "generate"]
  /\ at' = Idle
  /\ UNCHANGED <<stories, active, shown, nextReply, switched>>

\* The panel plays, retries or peels a turn of a story no Telegram turn is generating for;
\* its replies are not sent to the chat.
PanelTurn(s, told, replies) ==
  /\ ~(at.step = "generate" /\ at.story = s)
  /\ Fault
  /\ nextReply + replies <= MaxReplies + 1
  /\ stories' = [stories EXCEPT ![s].replies = told]
  /\ nextReply' = nextReply + replies
  /\ strayed' = [strayed EXCEPT ![stories[s].chat] = TRUE]
  /\ UNCHANGED <<active, pending, tracked, shown, at, switched>>

PanelSteps ==
  \E s \in DOMAIN stories :
    LET r == stories[s].replies IN
    \/ PanelTurn(s, Append(r, nextReply), 1)
    \/ r # <<>> /\ PanelTurn(s, Append(Front(r), nextReply), 1)
    \/ r # <<>> /\ PanelTurn(s, Front(r), 0)

Next ==
  \/ \E c \in Chats :
       \/ \E sc \in Scenarios : PlayNew(c, sc) \/ PlayResume(c, sc)
       \/ Restart(c) \/ Clear(c) \/ Answer(c)
       \/ \E op \in {"text", "chat", "continue", "retry"} : BeginTurn(c, op)
  \/ Ask \/ Forget
  \/ \E parts \in 1..Parts : Generated(parts)
  \/ \E gone \in IF at = Idle THEN {} ELSE SUBSET tracked[at.chat] :
       Withdraw(gone)
  \/ Untrack \/ Send \/ Track
  \/ Interrupted
  \/ PanelSteps

Spec == Init /\ [][Next]_vars
-----------------------------------------------------------------------------
(* Properties.                                                             *)

\* Once a turn is over, the narrator messages in a chat are replies its stories still
\* hold, each whole: a story reads as a single evolving message rather than a stack of
\* alternatives (narrator_store.py:9-12), over restarts, split replies and retries of
\* retries.  It needs the chat's files in step: not after a call failed halfway, after the
\* panel played the story, or after a /retry straight after /play went back to a story.
ShownRepliesStand ==
  \A c \in Chats : at = Idle /\ ~strayed[c] =>
    /\ \A m \in shown[c] : \E i \in DOMAIN stories[m.story].replies :
         stories[m.story].replies[i] = m.reply
    /\ \A s \in DOMAIN stories : stories[s].chat = c =>
         \A i \in DOMAIN stories[s].replies :
           \E m \in shown[c] : m.story = s /\ m.reply = stories[s].replies[i] /\ m.part = 1

\* A message /retry deletes is one of the reply it replaced (narrator_store.py:7-12).
RetryWithdrawsItsOwn ==
  [][\A c \in Chats : \A m \in shown[c] \ shown'[c] :
       /\ m.story = at.story
       /\ \A i \in DOMAIN stories[m.story].replies : stories[m.story].replies[i] # m.reply]_vars

=============================================================================
