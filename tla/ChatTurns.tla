----------------------------- MODULE ChatTurns -----------------------------
(***************************************************************************)
(* ChatService (application/services/chat_service.py) on one session: the  *)
(* three turn handlers send_message, continue_story and                    *)
(* regenerate_last_response, run by concurrent callers (the Telegram       *)
(* runtime and the admin panel's play routes share the one ChatService).   *)
(* Every step between two awaits of the handlers is an action, so callers, *)
(* the panel's director notes, failures and a crash interleave where the   *)
(* event loop lets them.  Prompt wording, memory recall and token prices   *)
(* are abstracted: a reply is known by the messages it was written from.   *)
(***************************************************************************)
EXTENDS Integers, Sequences, FiniteSets, SequencesExt

CONSTANTS
  Callers,      \* requests that may run a turn of this session at the same time
  Editors,      \* panel requests that queue a director note
  Notes,        \* director notes
  LengthRetry,  \* whether length_retry_settings is given
  MaxId         \* bound: message ids that may be used up

ASSUME ChatAssumption ==
  /\ LengthRetry \in BOOLEAN
  /\ MaxId \in Nat

VARIABLES
  store,        \* conversation_messages of the session, in reading order
  notes,        \* the session row's director_instructions
  generating,   \* the session is in _generating_sessions
  pc,           \* where each caller's coroutine is suspended
  local,        \* each coroutine's local variables
  editing,      \* each editor's copy of the notes, read and not yet written back
  asked,        \* turn of the last observe job handed to the scheduler
  nextId        \* ids name messages; the code has none, the properties do

vars == <<store, notes, generating, pc, local, editing, asked, nextId>>

Ops == {"send", "continue", "retry"}
Finishes == {"stop", "length", "context_length"}
Steps == {"idle", "session", "history", "generate", "again", "consume",
          "clear", "write", "finish"}

\* A stored message.  `turn` and `finish` are its metadata; `blank` says its
\* content is whitespace; `resumes`, `tries` and `basis` record how a reply was
\* made: as the rest of a cut reply, in how many model calls, from which messages.
Message == [id : Nat, role : {"user", "character"}, turn : Nat,
            finish : Finishes \cup {"none"}, blank : BOOLEAN,
            resumes : BOOLEAN, tries : 0..2, basis : Seq(Nat)]

Plain(id, role) == [id |-> id, role |-> role, turn |-> 0, finish |-> "none",
                    blank |-> FALSE, resumes |-> FALSE, tries |-> 0, basis |-> <<>>]

Opening == Plain(0, "character")

NoLocals == [op |-> "send", notes |-> {}, hist |-> <<>>, reply |-> Opening, todo |-> <<>>]

\* An editor that has read nothing yet.
NoDraft == [open |-> FALSE, notes |-> {}]

Ids(s) == [i \in 1..Len(s) |-> s[i].id]
-----------------------------------------------------------------------------
(* What the handlers compute from the history they loaded.                 *)

\* Mutant: the turn is the index of the latest reply.
TurnMinusOne(h) == Cardinality({i \in DOMAIN h : h[i].role = "character"}) - 1
\* Mutant: the turn is counted before the new reply.
TurnNotAdvanced(h) == Cardinality({i \in DOMAIN h : h[i].role = "character"})

Turn(h) == Cardinality({i \in DOMAIN h : h[i].role = "character"}) + 1

ShouldResume(h) == h # <<>> /\ Last(h).role = "character" /\ Last(h).finish = "length"

Retryable(h) == Len(h) > 1 /\ Last(h).role = "character"

\* The history the new reply follows: a retry drops the reply it replaces.
Trimmed(v) == IF v.op = "retry" THEN Front(v.hist) ELSE v.hist

Resumed(v) == v.op # "send" /\ ShouldResume(Trimmed(v))

\* Mutant: a retry shows the model the reply it is about to replace.
ContextUntrimmed(v) == IF v.op = "send" THEN Append(v.hist, Plain(nextId, "user")) ELSE v.hist

\* The messages the prompt is built from; send adds the player's message.
Context(v) == IF v.op = "send" THEN Append(v.hist, Plain(nextId, "user")) ELSE Trimmed(v)

Reply(v, finish, blank, tries) ==
  [id |-> nextId + 1, role |-> "character", turn |-> Turn(Trimmed(v)),
   finish |-> finish, blank |-> blank, resumes |-> Resumed(v), tries |-> tries,
   basis |-> Ids(Context(v))]

\* Mutant: the reply is saved before the message it answers.
MessagesSwapped(v, r) ==
  CASE v.op = "send"     -> <<r, Plain(nextId, "user")>>
    [] v.op = "continue" -> <<r>>
    [] v.op = "retry"    -> Append(Trimmed(v), r)

\* The save_message calls a successful turn ends with, in order.
Messages(v, r) ==
  CASE v.op = "send"     -> <<Plain(nextId, "user"), r>>
    [] v.op = "continue" -> <<r>>
    [] v.op = "retry"    -> Append(Trimmed(v), r)

\* Whether a first attempt is followed by the one automatic retry.
Recovers(finish) == LengthRetry /\ finish = "length"

\* The retry resumes what is written so far, the prefill of a resumed turn included,
\* and the two halves are one reply; with nothing written it starts over.
Resumable(v) == ~v.reply.blank \/ (Resumed(v) /\ ~Last(Trimmed(v)).blank)
BlankTogether(v, blank) == IF Resumable(v) THEN v.reply.blank /\ blank ELSE blank
-----------------------------------------------------------------------------
(* The turn handlers.                                                      *)

Init ==
  /\ store \in {<<>>, <<Opening>>}
  /\ notes = {}
  /\ generating = FALSE
  /\ pc = [c \in Callers |-> "idle"]
  /\ local = [c \in Callers |-> NoLocals]
  /\ editing = [e \in Editors |-> NoDraft]
  /\ asked = 0
  /\ nextId = 1

Goto(c, step) == pc' = [pc EXCEPT ![c] = step]

\* The coroutine ends, by returning or by raising: the context manager's finally.
Release(c) ==
  /\ generating' = FALSE
  /\ Goto(c, "idle")
  /\ local' = [local EXCEPT ![c] = NoLocals]

\* Mutant: two turns of a session may run at once.
BeginUnlocked(c, o) ==
  /\ pc[c] = "idle"
  /\ generating' = TRUE
  /\ local' = [local EXCEPT ![c].op = o]
  /\ Goto(c, "session")
  /\ UNCHANGED <<store, notes, editing, asked, nextId>>

\* A turn begins only when no other is generating; otherwise it is refused with
\* SessionBusyError and nothing changes.
Begin(c, o) ==
  /\ pc[c] = "idle"
  /\ ~generating
  /\ generating' = TRUE
  /\ local' = [local EXCEPT ![c].op = o]
  /\ Goto(c, "session")
  /\ UNCHANGED <<store, notes, editing, asked, nextId>>

\* Mutant: the notes are cleared when they are read.
LoadSessionClears(c) ==
  /\ pc[c] = "session"
  /\ local' = [local EXCEPT ![c].notes = notes]
  /\ notes' = {}
  /\ Goto(c, "history")
  /\ UNCHANGED <<store, generating, editing, asked, nextId>>

\* _load_scenario_context: the session row is read here and not again.
LoadSession(c) ==
  /\ pc[c] = "session"
  /\ local' = [local EXCEPT ![c].notes = notes]
  /\ Goto(c, "history")
  /\ UNCHANGED <<store, notes, generating, editing, asked, nextId>>

\* load_messages; a retry with nothing to retry raises ValueError.
LoadHistory(c) ==
  /\ pc[c] = "history"
  /\ IF local[c].op = "retry" /\ ~Retryable(store)
       THEN Release(c)
       ELSE /\ local' = [local EXCEPT ![c].hist = store]
            /\ Goto(c, "generate")
            /\ UNCHANGED generating
  /\ UNCHANGED <<store, notes, editing, asked, nextId>>

\* Mutant: the reply is not checked for content.
UsableAlways(r) == TRUE

\* _require_content.
Usable(r) == ~r.blank

\* The model's final reply r is rejected, or fixed together with the writes to come.
Accept(c, r) ==
  IF Usable(r)
    THEN /\ local' = [local EXCEPT ![c].reply = r,
                                   ![c].todo  = Messages(local[c], r)]
         /\ nextId' = nextId + 2
         /\ Goto(c, "consume")
         /\ UNCHANGED generating
    ELSE Release(c) /\ UNCHANGED nextId

\* The first model call returns.
Generate(c, finish, blank) ==
  /\ pc[c] = "generate"
  /\ nextId < MaxId
  /\ LET r == Reply(local[c], finish, blank, 1) IN
       IF Recovers(finish)
         THEN /\ local' = [local EXCEPT ![c].reply = r]
              /\ Goto(c, "again")
              /\ UNCHANGED <<generating, nextId>>
         ELSE Accept(c, r)
  /\ UNCHANGED <<store, notes, editing, asked>>

\* The second model call, with the larger cap, returns.
GenerateAgain(c, finish, blank) ==
  /\ pc[c] = "again"
  /\ Accept(c, Reply(local[c], finish, BlankTogether(local[c], blank), 2))
  /\ UNCHANGED <<store, notes, editing, asked>>

\* Mutant: the memory layers are asked before the reply is stored.
ConsumeAsks(c) ==
  /\ pc[c] = "consume"
  /\ notes' = IF local[c].notes = {} THEN notes ELSE {}
  /\ Goto(c, IF local[c].op = "retry" THEN "clear" ELSE "write")
  /\ asked' = local[c].reply.turn
  /\ UNCHANGED <<store, generating, local, editing, nextId>>

\* _consume_director_instruction: the row read at the start is saved whole, its
\* notes emptied, and only when it had any.
Consume(c) ==
  /\ pc[c] = "consume"
  /\ notes' = IF local[c].notes = {} THEN notes ELSE {}
  /\ Goto(c, IF local[c].op = "retry" THEN "clear" ELSE "write")
  /\ UNCHANGED <<store, generating, local, editing, asked, nextId>>

\* A retry rewrites the conversation: clear, then one save per message.
Clear(c) ==
  /\ pc[c] = "clear"
  /\ store' = <<>>
  /\ Goto(c, "write")
  /\ UNCHANGED <<notes, generating, local, editing, asked, nextId>>

\* One save_message call.
WriteNext(c) ==
  /\ pc[c] = "write"
  /\ store' = Append(store, Head(local[c].todo))
  /\ local' = [local EXCEPT ![c].todo = Tail(@)]
  /\ Goto(c, IF Len(local[c].todo) = 1 THEN "finish" ELSE "write")
  /\ UNCHANGED <<notes, generating, editing, asked, nextId>>

\* _observe_turn submits the job, then the handler returns; no await between.
Finish(c) ==
  /\ pc[c] = "finish"
  /\ asked' = local[c].reply.turn
  /\ Release(c)
  /\ UNCHANGED <<store, notes, editing, nextId>>

\* Mutant: a turn that raises keeps the session locked.
FailKeepsLock(c) ==
  /\ pc[c] \notin {"idle", "finish"}
  /\ Goto(c, "idle")
  /\ local' = [local EXCEPT ![c] = NoLocals]
  /\ UNCHANGED <<store, notes, generating, editing, asked, nextId>>

\* An awaited call raises: the session is gone, the model errs, the database refuses.
Fail(c) ==
  /\ pc[c] \notin {"idle", "finish"}
  /\ Release(c)
  /\ UNCHANGED <<store, notes, editing, asked, nextId>>
-----------------------------------------------------------------------------
(* The panel queues a note: read the row, then save it whole.              *)

ReadNotes(e) ==
  /\ ~editing[e].open
  /\ editing' = [editing EXCEPT ![e] = [open |-> TRUE, notes |-> notes]]
  /\ UNCHANGED <<store, notes, generating, pc, local, asked, nextId>>

SaveNote(e, n) ==
  /\ editing[e].open
  /\ n \notin editing[e].notes
  /\ notes' = editing[e].notes \cup {n}
  /\ editing' = [editing EXCEPT ![e] = NoDraft]
  /\ UNCHANGED <<store, generating, pc, local, asked, nextId>>

\* The process dies: coroutines, the set of generating sessions and queued jobs go.
Crash ==
  /\ generating' = FALSE
  /\ pc' = [c \in Callers |-> "idle"]
  /\ local' = [c \in Callers |-> NoLocals]
  /\ editing' = [e \in Editors |-> NoDraft]
  /\ asked' = 0
  /\ UNCHANGED <<store, notes, nextId>>

\* Every step of a turn once it has begun.
TurnStep(c) ==
  \/ LoadSession(c)
  \/ LoadHistory(c)
  \/ \E finish \in Finishes, blank \in BOOLEAN :
       Generate(c, finish, blank) \/ GenerateAgain(c, finish, blank)
  \/ Consume(c)
  \/ Clear(c)
  \/ WriteNext(c)
  \/ Finish(c)
  \/ Fail(c)

EditorStep(e) == ReadNotes(e) \/ \E n \in Notes : SaveNote(e, n)

Next ==
  \/ \E c \in Callers : TurnStep(c) \/ \E o \in Ops : Begin(c, o)
  \/ \E e \in Editors : EditorStep(e)
  \/ Crash

\* A begun turn runs to its end: every await of a handler returns or raises.
Fairness == \A c \in Callers : WF_vars(TurnStep(c))

Spec == Init /\ [][Next]_vars
FairSpec == Spec /\ Fairness
-----------------------------------------------------------------------------
(* Properties.                                                             *)

Locals == [op : Ops, notes : SUBSET Notes, hist : Seq(Message), reply : Message,
           todo : Seq(Message)]

\* Type correctness.
TypeOK ==
  /\ store \in Seq(Message)
  /\ notes \in SUBSET Notes
  /\ generating \in BOOLEAN
  /\ pc \in [Callers -> Steps]
  /\ local \in [Callers -> Locals]
  /\ editing \in [Editors -> [open : BOOLEAN, notes : SUBSET Notes]]
  /\ asked \in Nat
  /\ nextId \in Nat

\* At most one coroutine is inside a turn of the session, and the session counts as
\* generating exactly while one is (chat_service.py:136-150).
OneGeneration ==
  /\ generating <=> \E c \in Callers : pc[c] # "idle"
  /\ \A c, d \in Callers : pc[c] # "idle" /\ pc[d] # "idle" => c = d

AnsweredIn(s) ==
  \A i \in 1..Len(s) : s[i].turn > 0 => s[i].basis = Ids(SubSeq(s, 1, i - 1))

\* Every stored reply was written from exactly the messages stored before it: no turn
\* builds its prompt from a history that changes under it (chat_service.py:129-132), and
\* neither a failure, a crash nor a retry's rewrite puts a reply behind other messages.
ReplyAnswersItsHistory == AnsweredIn(store)

\* The turn number a reply carries is its rank among the narrator's messages
\* (_resolve_turn), also after retries and torn writes; traces are filed under it.
TurnsNumbered ==
  \A i \in DOMAIN store : store[i].turn > 0 =>
    store[i].turn = Cardinality({j \in 1..i : store[j].role = "character"})

\* A message leaves the store only for a retry that holds a usable reply in its hands
\* (chat_service.py:392-394: an empty retry must not cost the player the history).
HistoryLostOnlyToAnsweredRetry ==
  [][Len(store') < Len(store) =>
       \E c \in Callers : /\ pc[c] = "clear"
                          /\ local[c].op = "retry"
                          /\ ~local[c].reply.blank]_vars

\* A turn takes director notes off the queue only once it has its reply: a failed turn
\* keeps the queue alive for the retry (chat_service.py:575-581).
FailedTurnKeepsNotes ==
  [][\A c \in Callers :
       (<<pc[c], local[c]>>)' # <<pc[c], local[c]>> /\ ~(notes \subseteq notes') =>
         pc[c] = "consume" /\ ~local[c].reply.blank]_vars

\* The memory layers are asked about a turn only once its reply is in the store
\* (_observe_turn): the job reads the store, so an earlier question would miss it.
AskedAfterStored ==
  [][asked' # asked /\ asked' # 0 => store # <<>> /\ Last(store).turn = asked']_vars

\* What the doc says of director notes: they are consumed together by the generation that
\* reads them (session_directives.py:62-63).  A note that goes away was in the prompt.
NotesConsumedByTheirReader ==
  [][\A n \in notes \ notes' :
       \E c \in Callers : pc[c] = "consume" /\ n \in local[c].notes]_vars

\* A story is never locked out for good: a generation that raises releases the session
\* (chat_service.py:140-143).
NeverLockedOut == generating ~> ~generating

\* The transcript as a reader of whole turns sees it: until a turn has made its last
\* write, the conversation it loaded.
Writers == {c \in Callers : pc[c] \in {"clear", "write"}}
Transcript == IF Writers = {} THEN store ELSE local[CHOOSE c \in Writers : TRUE].hist

\* The message-by-message writes implement a transcript that moves by whole turns.
StoryOf == INSTANCE Story WITH transcript <- Transcript
ImplementsStory == StoryOf!Spec
=============================================================================
