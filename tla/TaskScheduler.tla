--------------------------- MODULE TaskScheduler ---------------------------
(***************************************************************************)
(* AsyncioTaskScheduler (infrastructure/tasks/asyncio_task_scheduler.py):  *)
(* a bounded queue, the set of keys in flight and one worker, started and  *)
(* stopped by app/lifespan.py.  A key is a session; its job asks how many  *)
(* turns the session's store holds and brings the session's memory up to   *)
(* what it read.  The turns come from ChatService, which writes a turn and *)
(* then, after another await, submits the session's job.                   *)
(***************************************************************************)
EXTENDS Naturals, Sequences, FiniteSets, Functions

CONSTANTS
  Keys,      \* sessions
  Capacity,  \* max_queue_size
  None,      \* no job is running
  MaxTurns   \* bound: turns written per session

ASSUME SchedulerAssumption ==
  /\ Capacity \in Nat \ {0}
  /\ MaxTurns \in Nat
  /\ None \notin Keys

VARIABLES
  queue,     \* keys of the jobs waiting
  inFlight,  \* _in_flight
  worker,    \* the worker task, as lifespan drives it
  running,   \* key of the job the worker awaits, or None
  hasRead,   \* the running job has read the stored turns
  seen,      \* ... and this is what it read
  turns,     \* turns stored, per session
  due,       \* a turn is written and its job not yet submitted
  folded,    \* turns the session's memory has caught up with
  promised   \* turns stored when a submit was last dropped as a duplicate

vars == <<queue, inFlight, worker, running, hasRead, seen, turns, due, folded, promised>>

Init ==
  /\ queue = <<>>
  /\ inFlight = {}
  /\ worker = "new"
  /\ running = None
  /\ hasRead = FALSE
  /\ seen = 0
  /\ turns = [k \in Keys |-> 0]
  /\ due = [k \in Keys |-> FALSE]
  /\ folded = [k \in Keys |-> 0]
  /\ promised = [k \in Keys |-> 0]

jobVars == <<running, hasRead, seen>>
storeVars == <<turns, due>>

\* ChatService stores a turn of session k.
WriteTurn(k) ==
  /\ ~due[k]
  /\ turns[k] < MaxTurns
  /\ turns' = [turns EXCEPT ![k] = @ + 1]
  /\ due' = [due EXCEPT ![k] = TRUE]
  /\ UNCHANGED <<queue, inFlight, worker, jobVars, folded, promised>>

\* Mutant: the key is not remembered.
AcceptForgetsKey(k) ==
  /\ queue' = Append(queue, k)
  /\ UNCHANGED <<inFlight, promised>>

Accept(k) ==
  /\ queue' = Append(queue, k)
  /\ inFlight' = inFlight \cup {k}
  /\ UNCHANGED promised

\* The key is queued or running: the job in flight is trusted to read this turn.
DropDuplicate(k) ==
  /\ promised' = [promised EXCEPT ![k] = turns[k]]
  /\ UNCHANGED <<queue, inFlight>>

\* Mutant: a job for a key already in flight is queued again.
SubmitTwice(k) ==
  /\ due[k]
  /\ due' = [due EXCEPT ![k] = FALSE]
  /\ IF worker # "up" \/ Len(queue) = Capacity
       THEN UNCHANGED <<queue, inFlight, promised>>
       ELSE Accept(k)
  /\ UNCHANGED <<worker, jobVars, turns, folded>>

\* Mutant: a full queue takes one more.
SubmitOverfull(k) ==
  /\ due[k]
  /\ due' = [due EXCEPT ![k] = FALSE]
  /\ CASE worker # "up"                        -> UNCHANGED <<queue, inFlight, promised>>
       [] worker = "up" /\ k \in inFlight      -> DropDuplicate(k)
       [] worker = "up" /\ k \notin inFlight   -> Accept(k)
  /\ UNCHANGED <<worker, jobVars, turns, folded>>

\* submit: not running, in flight already, queue full, or accepted.
Submit(k) ==
  /\ due[k]
  /\ due' = [due EXCEPT ![k] = FALSE]
  /\ IF worker # "up" THEN UNCHANGED <<queue, inFlight, promised>>
     ELSE IF k \in inFlight THEN DropDuplicate(k)
     ELSE IF Len(queue) = Capacity THEN UNCHANGED <<queue, inFlight, promised>>
     ELSE Accept(k)
  /\ UNCHANGED <<worker, jobVars, turns, folded>>

Start ==
  /\ worker = "new"
  /\ worker' = "up"
  /\ UNCHANGED <<queue, inFlight, jobVars, storeVars, folded, promised>>

\* Mutant: a job starts with what the job before it had read.
TakeKeepsRead ==
  /\ worker = "up"
  /\ running = None
  /\ queue # <<>>
  /\ running' = Head(queue)
  /\ queue' = Tail(queue)
  /\ UNCHANGED <<inFlight, worker, hasRead, seen, storeVars, folded, promised>>

\* The worker loop takes the next job.
Take ==
  /\ worker = "up"
  /\ running = None
  /\ queue # <<>>
  /\ running' = Head(queue)
  /\ queue' = Tail(queue)
  /\ hasRead' = FALSE
  /\ UNCHANGED <<inFlight, worker, seen, storeVars, folded, promised>>

\* The running job loads the conversation, some awaits after it started.
ReadStore ==
  /\ worker = "up"
  /\ running # None
  /\ ~hasRead
  /\ hasRead' = TRUE
  /\ seen' = turns[running]
  /\ UNCHANGED <<queue, inFlight, worker, running, storeVars, folded, promised>>

\* Mutant: a job that raises leaves its key in flight.
EndJobKeepsKeyOnError(ok) ==
  /\ worker = "up"
  /\ running # None
  /\ ok => hasRead
  /\ folded' = IF ok THEN [folded EXCEPT ![running] = seen] ELSE folded
  /\ inFlight' = IF ok THEN inFlight \ {running} ELSE inFlight
  /\ running' = None
  /\ UNCHANGED <<queue, worker, hasRead, seen, storeVars, promised>>

\* The job ends; it saves what it made of the turns it read, or raises.
EndJob(ok) ==
  /\ worker = "up"
  /\ running # None
  /\ ok => hasRead
  /\ folded' = IF ok THEN [folded EXCEPT ![running] = seen] ELSE folded
  /\ inFlight' = inFlight \ {running}
  /\ running' = None
  /\ UNCHANGED <<queue, worker, hasRead, seen, storeVars, promised>>

\* stop: forget the worker and cancel it ...
BeginStop ==
  /\ worker = "up"
  /\ worker' = "cancelled"
  /\ UNCHANGED <<queue, inFlight, jobVars, storeVars, folded, promised>>

\* ... the cancelled worker leaves its job through the finally clause ...
Cancel ==
  /\ worker = "cancelled"
  /\ inFlight' = inFlight \ {running}
  /\ running' = None
  /\ worker' = "dead"
  /\ UNCHANGED <<queue, hasRead, seen, storeVars, folded, promised>>

\* ... and stop forgets every key; the queue is not drained.
EndStop ==
  /\ worker = "dead"
  /\ inFlight' = {}
  /\ worker' = "off"
  /\ UNCHANGED <<queue, jobVars, storeVars, folded, promised>>

\* The process ends, by shutdown or crash, and a new one builds a new scheduler.
Restart ==
  /\ queue' = <<>>
  /\ inFlight' = {}
  /\ worker' = "new"
  /\ running' = None
  /\ hasRead' = FALSE
  /\ seen' = 0
  /\ due' = [k \in Keys |-> FALSE]
  /\ promised' = [k \in Keys |-> 0]
  /\ UNCHANGED <<turns, folded>>

WorkerStep == Take \/ ReadStore \/ \E ok \in BOOLEAN : EndJob(ok)

Next ==
  \/ \E k \in Keys : WriteTurn(k) \/ Submit(k)
  \/ Start
  \/ WorkerStep
  \/ BeginStop \/ Cancel \/ EndStop
  \/ Restart

\* The event loop runs the worker and the shutdown whenever they can go on, and every
\* await of a job returns or raises.
Fairness == WF_vars(WorkerStep) /\ WF_vars(Cancel) /\ WF_vars(EndStop)

Spec == Init /\ [][Next]_vars
FairSpec == Spec /\ Fairness
-----------------------------------------------------------------------------
Workers == {"new", "up", "cancelled", "dead", "off"}

\* Type correctness; the queue stays within its bound.
TypeOK ==
  /\ queue \in Seq(Keys)
  /\ Len(queue) <= Capacity
  /\ inFlight \in SUBSET Keys
  /\ worker \in Workers
  /\ running \in Keys \cup {None}
  /\ hasRead \in BOOLEAN
  /\ seen \in Nat
  /\ turns \in [Keys -> Nat]
  /\ due \in [Keys -> BOOLEAN]
  /\ folded \in [Keys -> Nat]
  /\ promised \in [Keys -> Nat]

\* While the worker is up, _in_flight is exactly the keys queued or running
\* (asyncio_task_scheduler.py:30-32): a key left behind would silence its session's
\* memory until a restart, a key forgotten would let two jobs of a session in.
InFlightExact ==
  worker = "up" => inFlight = Range(queue) \cup ({running} \ {None})

\* Two fast turns of a session collapse into one job: never two jobs of one key, waiting
\* or running (asyncio_task_scheduler.py:30-32, chat_service.py:716-718).
OneJobPerKey ==
  /\ \A i, j \in 1..Len(queue) : queue[i] = queue[j] => i = j
  /\ \A i \in 1..Len(queue) : queue[i] # running

\* The memory of a session never claims a turn the store does not hold, and only moves
\* forward, although jobs read the store long before they save.
FoldedOnlyForward ==
  [][\A k \in Keys : folded[k] <= folded'[k] /\ folded'[k] <= turns'[k]]_vars

\* A key in flight is let go of in the end, whether its job is saved, raises or is
\* cancelled, so later turns of the session can ask again.
KeyFreedAgain == \A k \in Keys : k \in inFlight ~> k \notin inFlight

\* What the comment in submit says of a dropped duplicate: the job already queued will
\* read the state this turn just wrote (asyncio_task_scheduler.py:40-41).
DuplicateIsRead == running # None /\ hasRead => promised[running] <= seen
=============================================================================
