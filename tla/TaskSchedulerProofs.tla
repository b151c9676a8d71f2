------------------------ MODULE TaskSchedulerProofs ------------------------
(***************************************************************************)
(* Theorems about TaskScheduler, for every set of sessions, every queue    *)
(* size and any number of turns.                                           *)
(***************************************************************************)
EXTENDS TaskScheduler, TLAPS

\* A scheduler whose worker never started holds nothing: submit refuses until start.
NothingBeforeStart ==
  worker = "new" => queue = <<>> /\ inFlight = {} /\ running = None

\* What a job read of the store is no older than the session's memory and no newer than
\* the store.
ReadInBetween ==
  /\ \A k \in Keys : folded[k] <= turns[k]
  /\ running # None /\ hasRead => folded[running] <= seen /\ seen <= turns[running]

\* The inductive invariant of the queue and the keys ...
QInv == TypeOK /\ NothingBeforeStart /\ InFlightExact /\ OneJobPerKey

\* ... and of the memory the jobs write.
IInv == QInv /\ ReadInBetween
-----------------------------------------------------------------------------
\* Appending to the queue adds exactly the appended key to its range.
LEMMA RangeAppend ==
  ASSUME NEW s \in Seq(Keys), NEW k \in Keys
  PROVE  Range(Append(s, k)) = Range(s) \cup {k}
<1>1. /\ DOMAIN s = 1..Len(s)
      /\ DOMAIN Append(s, k) = 1..(Len(s) + 1)
      /\ Len(s) \in Nat
  OBVIOUS
<1>2. /\ \A i \in 1..Len(s) : Append(s, k)[i] = s[i]
      /\ Append(s, k)[Len(s) + 1] = k
  OBVIOUS
<1>3. Range(Append(s, k)) \subseteq Range(s) \cup {k}
  BY <1>1, <1>2 DEF Range
<1>4. Range(s) \cup {k} \subseteq Range(Append(s, k))
  BY <1>1, <1>2 DEF Range
<1> QED  BY <1>3, <1>4

\* Taking the head leaves the other keys in the queue's range.
LEMMA RangeTail ==
  ASSUME NEW s \in Seq(Keys), s # <<>>
  PROVE  Range(s) = Range(Tail(s)) \cup {Head(s)}
<1>1. /\ DOMAIN s = 1..Len(s)
      /\ DOMAIN Tail(s) = 1..(Len(s) - 1)
      /\ Len(s) \in Nat \ {0}
  OBVIOUS
<1>2. /\ \A i \in 1..(Len(s) - 1) : Tail(s)[i] = s[i + 1]
      /\ Head(s) = s[1]
  OBVIOUS
<1>3. Range(s) \subseteq Range(Tail(s)) \cup {Head(s)}
  <2> SUFFICES ASSUME NEW i \in 1..Len(s)
               PROVE  s[i] \in Range(Tail(s)) \cup {Head(s)}
    BY <1>1 DEF Range
  <2>1. CASE i = 1
    BY <1>2, <2>1
  <2>2. CASE i # 1
    <3>1. i - 1 \in 1..(Len(s) - 1) /\ Tail(s)[i - 1] = s[i]
      BY <1>1, <1>2, <2>2
    <3> QED  BY <1>1, <3>1 DEF Range
  <2> QED  BY <2>1, <2>2
<1>4. Range(Tail(s)) \cup {Head(s)} \subseteq Range(s)
  BY <1>1, <1>2 DEF Range
<1> QED  BY <1>3, <1>4
-----------------------------------------------------------------------------
LEMMA InitIInv == Init => IInv
<1> SUFFICES ASSUME Init PROVE IInv
  OBVIOUS
<1> USE SchedulerAssumption DEF Init
<1>1. TypeOK
  <2>1. queue \in Seq(Keys) /\ Len(queue) = 0 /\ 0 <= Capacity
    OBVIOUS
  <2>2. /\ turns \in [Keys -> Nat]
        /\ folded \in [Keys -> Nat]
        /\ promised \in [Keys -> Nat]
        /\ due \in [Keys -> BOOLEAN]
    OBVIOUS
  <2> QED  BY <2>1, <2>2 DEF TypeOK, Workers
<1>2. NothingBeforeStart /\ InFlightExact /\ OneJobPerKey
  BY DEF NothingBeforeStart, InFlightExact, OneJobPerKey
<1>3. ReadInBetween
  BY DEF ReadInBetween
<1> QED  BY <1>1, <1>2, <1>3 DEF IInv, QInv

\* The queue and the keys in flight, action by action.
LEMMA QueueStep == QInv /\ [Next]_vars => QInv'
<1> SUFFICES ASSUME QInv, [Next]_vars PROVE QInv'
  OBVIOUS
<1> USE SchedulerAssumption
<1>0. TypeOK /\ NothingBeforeStart /\ InFlightExact /\ OneJobPerKey
  BY DEF QInv
<1>1. ASSUME NEW k \in Keys, WriteTurn(k) PROVE QInv'
  <2>1. TypeOK'
    BY <1>0, <1>1 DEF TypeOK, Workers, WriteTurn, jobVars
  <2>2. (NothingBeforeStart /\ InFlightExact /\ OneJobPerKey)'
    BY <1>0, <1>1 DEF NothingBeforeStart, InFlightExact, OneJobPerKey, WriteTurn, jobVars
  <2> QED  BY <2>1, <2>2 DEF QInv
<1>2. ASSUME NEW k \in Keys, Submit(k) PROVE QInv'
  <2>1. CASE worker = "up" /\ k \notin inFlight /\ Len(queue) # Capacity
    <3>1. Accept(k) /\ UNCHANGED <<worker, running, hasRead, seen, turns, folded>>
      BY <1>2, <2>1 DEF Submit, jobVars
    <3>2. due' \in [Keys -> BOOLEAN]
      BY <1>0, <1>2 DEF Submit, TypeOK
    <3>3. /\ queue' = Append(queue, k)
          /\ queue' \in Seq(Keys)
          /\ Len(queue) \in Nat
          /\ Len(queue') = Len(queue) + 1
          /\ \A i \in 1..Len(queue) : queue'[i] = queue[i]
          /\ queue'[Len(queue) + 1] = k
      BY <1>0, <3>1 DEF Accept, TypeOK
    <3>4. TypeOK'
      BY <1>0, <2>1, <3>1, <3>2, <3>3 DEF TypeOK, Accept
    <3>5. Range(queue') = Range(queue) \cup {k}
      BY <1>0, <3>3, RangeAppend DEF TypeOK
    <3>6. InFlightExact'
      BY <1>0, <2>1, <3>1, <3>5 DEF InFlightExact, Accept
    <3>7. k \notin Range(queue) /\ k # running
      BY <1>0, <2>1 DEF InFlightExact
    <3>8. \A i \in 1..Len(queue) : queue[i] # k
      BY <1>0, <3>7 DEF Range, TypeOK
    <3>9. OneJobPerKey'
      BY <1>0, <3>1, <3>3, <3>7, <3>8 DEF OneJobPerKey
    <3> QED  BY <2>1, <3>1, <3>4, <3>6, <3>9 DEF QInv, NothingBeforeStart
  <2>2. CASE ~(worker = "up" /\ k \notin inFlight /\ Len(queue) # Capacity)
    <3>1. /\ UNCHANGED <<queue, inFlight, worker, running, hasRead, seen, turns, folded>>
          /\ promised' = promised \/ promised' = [promised EXCEPT ![k] = turns[k]]
          /\ due' = [due EXCEPT ![k] = FALSE]
      BY <1>2, <2>2 DEF Submit, DropDuplicate, jobVars
    <3>2. TypeOK'
      BY <1>0, <3>1 DEF TypeOK
    <3> QED  BY <1>0, <3>1, <3>2 DEF QInv, NothingBeforeStart, InFlightExact, OneJobPerKey
  <2> QED  BY <2>1, <2>2
<1>3. ASSUME Start PROVE QInv'
  <2>1. TypeOK'
    BY <1>0, <1>3 DEF TypeOK, Workers, Start, jobVars, storeVars
  <2>2. InFlightExact'
    <3>1. queue = <<>> /\ inFlight = {} /\ running = None
      BY <1>0, <1>3 DEF NothingBeforeStart, Start
    <3> QED  BY <1>3, <3>1 DEF InFlightExact, Start, jobVars, Range
  <2> QED  BY <1>0, <1>3, <2>1, <2>2
            DEF QInv, NothingBeforeStart, OneJobPerKey, Start, jobVars
<1>4. ASSUME Take PROVE QInv'
  <2>1. /\ worker' = "up"
        /\ queue' = Tail(queue)
        /\ running' = Head(queue)
        /\ inFlight' = inFlight
        /\ running = None
        /\ queue # <<>>
    BY <1>4 DEF Take
  <2>2. /\ queue' \in Seq(Keys)
        /\ running' \in Keys
        /\ Len(queue) \in Nat \ {0}
        /\ Len(queue') = Len(queue) - 1
        /\ \A i \in 1..Len(queue') : queue'[i] = queue[i + 1]
        /\ running' = queue[1]
    BY <1>0, <2>1 DEF TypeOK
  <2>3. TypeOK'
    <3>1. Len(queue') <= Capacity
      BY <1>0, <2>2 DEF TypeOK
    <3>2. hasRead' = FALSE /\ UNCHANGED <<inFlight, worker, seen, turns, due, folded, promised>>
      BY <1>4 DEF Take, storeVars
    <3> QED  BY <1>0, <2>2, <3>1, <3>2 DEF TypeOK
  <2>4. InFlightExact'
    BY <1>0, <1>4, <2>1, <2>2, RangeTail DEF TypeOK, InFlightExact, Take
  <2>5. OneJobPerKey'
    BY <1>0, <2>2 DEF OneJobPerKey
  <2> QED  BY <2>1, <2>3, <2>4, <2>5 DEF QInv, NothingBeforeStart
<1>5. ASSUME ReadStore PROVE QInv'
  <2>1. TypeOK'
    BY <1>0, <1>5 DEF TypeOK, Workers, ReadStore, storeVars
  <2> QED  BY <1>0, <1>5, <2>1
            DEF QInv, NothingBeforeStart, InFlightExact, OneJobPerKey, ReadStore
<1>6. ASSUME NEW ok \in BOOLEAN, EndJob(ok) PROVE QInv'
  <2>1. TypeOK'
    BY <1>0, <1>6 DEF TypeOK, Workers, EndJob, storeVars
  <2>2. running \notin Range(queue)
    BY <1>0 DEF OneJobPerKey, Range, TypeOK
  <2>3. InFlightExact'
    BY <1>0, <1>6, <2>2 DEF InFlightExact, EndJob
  <2>4. \A i \in 1..Len(queue) : queue[i] # None
    BY <1>0 DEF TypeOK
  <2> QED  BY <1>0, <1>6, <2>1, <2>3, <2>4 DEF QInv, NothingBeforeStart, OneJobPerKey, EndJob
<1>7. ASSUME BeginStop \/ EndStop PROVE QInv'
  <2>1. TypeOK'
    BY <1>0, <1>7 DEF TypeOK, Workers, BeginStop, EndStop, jobVars, storeVars
  <2> QED  BY <1>0, <1>7, <2>1
            DEF QInv, NothingBeforeStart, InFlightExact, OneJobPerKey, BeginStop, EndStop, jobVars
<1>8. ASSUME Cancel PROVE QInv'
  <2>1. TypeOK'
    BY <1>0, <1>8 DEF TypeOK, Workers, Cancel, storeVars
  <2>2. \A i \in 1..Len(queue) : queue[i] # None
    BY <1>0 DEF TypeOK
  <2> QED  BY <1>0, <1>8, <2>1, <2>2
            DEF QInv, NothingBeforeStart, InFlightExact, OneJobPerKey, Cancel
<1>9. ASSUME Restart PROVE QInv'
  <2>1. TypeOK'
    <3>1. queue' \in Seq(Keys) /\ Len(queue') = 0 /\ 0 <= Capacity
      BY <1>9 DEF Restart
    <3>2. due' \in [Keys -> BOOLEAN] /\ promised' \in [Keys -> Nat]
      BY <1>9 DEF Restart
    <3> QED  BY <1>0, <1>9, <3>1, <3>2 DEF TypeOK, Workers, Restart
  <2> QED  BY <1>9, <2>1 DEF QInv, NothingBeforeStart, InFlightExact, OneJobPerKey, Restart
<1>10. CASE UNCHANGED vars
  BY <1>0, <1>10
     DEF QInv, vars, TypeOK, NothingBeforeStart, InFlightExact, OneJobPerKey
<1> QED  BY <1>1, <1>2, <1>3, <1>4, <1>5, <1>6, <1>7, <1>8, <1>9, <1>10 DEF Next, WorkerStep

\* A step never takes the memory of a session back, never past the store, and keeps what
\* a job has read between the two.
LEMMA MemoryStep ==
  IInv /\ [Next]_vars =>
    ReadInBetween' /\ \A k \in Keys : folded[k] <= folded'[k] /\ folded'[k] <= turns'[k]
<1> SUFFICES ASSUME IInv, [Next]_vars
             PROVE  /\ ReadInBetween'
                    /\ \A k \in Keys : folded[k] <= folded'[k] /\ folded'[k] <= turns'[k]
  OBVIOUS
<1> USE SchedulerAssumption DEF ReadInBetween
<1>0. TypeOK /\ ReadInBetween
  BY DEF IInv, QInv
<1>1. ASSUME NEW k \in Keys, WriteTurn(k) PROVE ReadInBetween' /\ folded' = folded
  BY <1>0, <1>1 DEF WriteTurn, TypeOK, jobVars
<1>2. ASSUME NEW k \in Keys, Submit(k) PROVE ReadInBetween' /\ folded' = folded
  BY <1>0, <1>2 DEF Submit, jobVars
<1>3. ASSUME Take PROVE ReadInBetween' /\ folded' = folded
  BY <1>0, <1>3 DEF Take, storeVars
<1>4. ASSUME ReadStore PROVE ReadInBetween' /\ folded' = folded
  BY <1>0, <1>4 DEF ReadStore, TypeOK, storeVars
<1>5. ASSUME NEW ok \in BOOLEAN, EndJob(ok)
      PROVE  ReadInBetween' /\ \A k \in Keys : folded[k] <= folded'[k]
  <2>1. turns' = turns /\ running' = None /\ running \in Keys /\ (ok => hasRead)
    BY <1>0, <1>5 DEF EndJob, TypeOK, storeVars
  <2>2. folded' = IF ok THEN [folded EXCEPT ![running] = seen] ELSE folded
    BY <1>5 DEF EndJob
  <2>3. \A k \in Keys : folded'[k] = IF ok /\ k = running THEN seen ELSE folded[k]
    BY <1>0, <2>2 DEF TypeOK
  <2>4. ok => folded[running] <= seen /\ seen <= turns[running]
    BY <1>0, <1>5, <2>1 DEF EndJob
  <2>5. ASSUME NEW k \in Keys PROVE folded[k] <= folded'[k] /\ folded'[k] <= turns'[k]
    BY <1>0, <2>1, <2>3, <2>4 DEF TypeOK
  <2> QED  BY <2>1, <2>5
<1>6. ASSUME Start \/ BeginStop \/ Cancel \/ EndStop \/ Restart
      PROVE  ReadInBetween' /\ folded' = folded
  BY <1>0, <1>6 DEF Start, BeginStop, Cancel, EndStop, Restart, jobVars, storeVars
<1>7. ASSUME UNCHANGED vars PROVE ReadInBetween' /\ folded' = folded
  BY <1>0, <1>7 DEF vars
<1>8. ASSUME folded' = folded PROVE \A k \in Keys : folded[k] <= folded'[k]
  BY <1>0, <1>8 DEF TypeOK
<1>9. ReadInBetween' /\ \A k \in Keys : folded[k] <= folded'[k]
  BY <1>1, <1>2, <1>3, <1>4, <1>5, <1>6, <1>7, <1>8 DEF Next, WorkerStep
<1> QED  BY <1>9

LEMMA Inductive == Spec => []IInv
<1>1. IInv /\ [Next]_vars => IInv'
  BY QueueStep, MemoryStep DEF IInv
<1> QED  BY <1>1, InitIInv, PTL DEF Spec
-----------------------------------------------------------------------------
\* Type correctness; the queue never outgrows max_queue_size
\* (asyncio_task_scheduler.py:45-52).
THEOREM TypeCorrect == Spec => []TypeOK
<1>1. IInv => TypeOK
  BY DEF IInv, QInv
<1> QED  BY <1>1, Inductive, PTL

\* While the worker is up, the keys in flight are exactly those queued or running, so
\* none is silenced and none runs beside itself (asyncio_task_scheduler.py:30-32).
THEOREM KeysExact == Spec => []InFlightExact
<1>1. IInv => InFlightExact
  BY DEF IInv, QInv
<1> QED  BY <1>1, Inductive, PTL

\* No session ever has two jobs waiting or running (asyncio_task_scheduler.py:39-43).
THEOREM NoTwoJobs == Spec => []OneJobPerKey
<1>1. IInv => OneJobPerKey
  BY DEF IInv, QInv
<1> QED  BY <1>1, Inductive, PTL

\* A session's memory only moves forward and never past the store, whatever the jobs'
\* reads, failures, cancellations and restarts interleave with.
THEOREM MemoryForward == Spec => FoldedOnlyForward
<1>1. IInv /\ [Next]_vars =>
        [\A k \in Keys : folded[k] <= folded'[k] /\ folded'[k] <= turns'[k]]_vars
  BY MemoryStep
<1> QED  BY <1>1, Inductive, PTL DEF Spec, FoldedOnlyForward
=============================================================================
