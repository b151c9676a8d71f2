------------------------------ MODULE Feedback ------------------------------
(***************************************************************************)
(* The sign of life during a turn (adapters/telegram/feedback.py inside    *)
(* processing_feedback_scope): a temporary message from a rotating set of  *)
(* templates and a task that repeats the typing action, both taken back    *)
(* before the reply is sent.  The typing task runs concurrently with the   *)
(* turn; every call to Telegram may fail.                                  *)
(***************************************************************************)
EXTENDS Integers, Sequences, SequencesExt

CONSTANTS
  Templates,   \* the character's feedback messages
  RecentSize,  \* recent_history_size
  MaxFaults    \* bound: calls that fail, deaths of the process

VARIABLES
  turn,    \* where the turn is suspended
  typing,  \* the typing task: "none", "sending", "waiting" or "over"
  stopped, \* _stop_event
  recent,  \* _recent_by_character, newest last
  temp,    \* _temporary_message is held
  stray,   \* temporary messages nobody will delete
  faults

vars == <<turn, typing, stopped, recent, temp, stray, faults>>

Fault == faults < MaxFaults /\ faults' = faults + 1

Init ==
  /\ turn = "idle" /\ typing = "none" /\ stopped = FALSE
  /\ recent = <<>> /\ temp = FALSE /\ stray = 0 /\ faults = 0
-----------------------------------------------------------------------------
(* start.                                                                  *)

\* A deque with maxlen.
Latest(s) == IF Len(s) > RecentSize THEN Tail(s) ELSE s

Fresh == Templates \ ToSet(recent)

\* select_message: one that is not recent, or any once all of them are.
Select ==
  /\ turn = "idle"
  /\ stopped' = FALSE
  /\ IF Fresh # {}
       THEN \E t \in Fresh : recent' = Latest(Append(recent, t))
       ELSE \E t \in Templates : recent' = <<t>>
  /\ turn' = "greet"
  /\ UNCHANGED <<typing, temp, stray, faults>>

\* There is no bot, or start raises: the turn runs without feedback and nothing is stopped.
Unstarted ==
  /\ turn = "idle"
  /\ turn' = "bare"
  /\ UNCHANGED <<typing, stopped, recent, temp, stray, faults>>

\* The template is sent; the typing task is started whether or not that succeeded.
Greet ==
  /\ turn = "greet"
  /\ \/ temp' = TRUE /\ UNCHANGED faults
     \/ temp' = FALSE /\ Fault
  /\ typing' = "sending"
  /\ turn' = "body"
  /\ UNCHANGED <<stopped, recent, stray>>
-----------------------------------------------------------------------------
(* _typing_loop.                                                           *)

Typed ==
  /\ typing = "sending" /\ ~stopped
  /\ \/ typing' = "waiting" /\ UNCHANGED faults
     \/ typing' = "over" /\ Fault
  /\ UNCHANGED <<turn, stopped, recent, temp, stray>>

TypeAgain ==
  /\ typing = "waiting" /\ ~stopped
  /\ typing' = "sending"
  /\ UNCHANGED <<turn, stopped, recent, temp, stray, faults>>

\* Cancelled where it is suspended.
Cancelled ==
  /\ typing \in {"sending", "waiting"} /\ stopped
  /\ typing' = "over"
  /\ UNCHANGED <<turn, stopped, recent, temp, stray, faults>>
-----------------------------------------------------------------------------
(* The turn ends, with a reply or an error: stop.                          *)

Stop ==
  /\ turn = "body"
  /\ stopped' = TRUE
  /\ turn' = "join"
  /\ UNCHANGED <<typing, recent, temp, stray, faults>>

\* Mutant: the cancelled task is not awaited.
JoinNone ==
  /\ turn = "join"
  /\ turn' = "delete"
  /\ UNCHANGED <<typing, stopped, recent, temp, stray, faults>>

Join ==
  /\ turn = "join" /\ typing = "over"
  /\ turn' = "delete"
  /\ UNCHANGED <<typing, stopped, recent, temp, stray, faults>>

\* A deletion that fails is logged, and the message forgotten.
Delete ==
  /\ turn = "delete"
  /\ \/ stray' = stray /\ UNCHANGED faults
     \/ temp /\ stray' = stray + 1 /\ Fault
  /\ temp' = FALSE
  /\ turn' = "reply"
  /\ UNCHANGED <<typing, stopped, recent>>

Reply ==
  /\ turn \in {"reply", "bare"}
  /\ turn' = "idle"
  /\ UNCHANGED <<typing, stopped, recent, temp, stray, faults>>

\* The process dies: nothing remembers the temporary message.
Crash ==
  /\ Fault
  /\ stray' = IF temp THEN stray + 1 ELSE stray
  /\ turn' = "idle" /\ typing' = "none" /\ stopped' = FALSE /\ temp' = FALSE
  /\ recent' = <<>>

Next ==
  \/ Select \/ Unstarted \/ Greet \/ Typed \/ TypeAgain \/ Cancelled
  \/ Stop \/ Join \/ Delete \/ Reply \/ Crash

Spec == Init /\ [][Next]_vars
-----------------------------------------------------------------------------
(* Properties.                                                             *)

\* When the reply goes out nothing of the feedback is left: no task still shows typing in
\* the chat, and a temporary message only if its deletion failed or the process died.
FeedbackTakenBack ==
  turn \in {"reply", "idle"} => typing \in {"none", "over"} /\ ~temp /\ stray <= faults
=============================================================================
